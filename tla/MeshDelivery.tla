---------------------------- MODULE MeshDelivery ----------------------------
(***************************************************************************)
(* A message between two agents, from the tool that sends it to the queue  *)
(* of the agent that is shown it: the slots of session/peer.ts, the        *)
(* routing of session/broker.ts, the cross-PC hop of session/              *)
(* broker_remote.ts over the relay, and the second listener index.ts hangs *)
(* on every relay client for federated messages.  Several agents share a   *)
(* machine's broker, one of them (the leader) hosts it.  A line is here    *)
(* the id of its message; addresses are the agents themselves.             *)
(***************************************************************************)
EXTENDS Naturals, Sequences, FiniteSets

CONSTANTS
    Agents,     \* the agent processes
    Machine,    \* Agents -> the machine each runs on
    Leads,      \* the agents that host their machine's broker
    Ids,        \* envelope ids
    MaxDeliveryFaults   \* departures, broker deaths and lost relay links

ASSUME DeliveryAssumption ==
    /\ IsFiniteSet(Agents) /\ IsFiniteSet(Ids)
    /\ Leads \subseteq Agents
    /\ \A a \in Agents : \E l \in Leads :
          /\ Machine[l] = Machine[a]
          /\ \A k \in Leads : Machine[k] = Machine[a] => k = l
    /\ MaxDeliveryFaults \in Nat

VARIABLES
    mail,       \* what each id carries
    outcome,    \* what its sender was told; "waiting" is a slot in a pending map
    up, down,   \* agent -> broker and broker -> agent socket streams
    connected,  \* agents whose socket is open
    registered, \* Broker.peers of all machines
    linked,     \* agents whose process has a relay connection
    wire,       \* frames the relay has for each agent's connection
    written,    \* id -> agent -> how often its broker wrote it to the socket
    shown,      \* id -> agent -> how often it was queued for the agent
    federation, \* mesh.federation of config.json
    deliveryFaults      \* faults still to come

deliveryVars == <<mail, outcome, up, down, connected, registered, linked, wire,
                  written, shown, federation, deliveryFaults>>

MessageKinds == {"send", "list_peers", "broadcast", "federated"}
Mail == [kind : MessageKinds, from : Agents, to : Agents]
NoMail == [kind |-> "none"]
Statuses == {"received", "unknown_peer", "denied"}
Reasons == {"not_authorized", "unknown_peer"}
Frames == [type : {"msg"}, id : Ids]
    \cup [type : {"ack"}, id : Ids, status : Statuses, by : {"broker", "remote"}]
    \cup [type : {"transport_error"}, id : Ids, reason : Reasons]
    \cup [type : {"reply"}, id : Ids]

DeliveryTypeOK ==
    /\ mail \in [Ids -> Mail \cup {NoMail}]
    /\ outcome \in [Ids -> {"unsent", "waiting", "sent", "reply", "timeout"} \cup Statuses]
    /\ \A a \in Agents :
          /\ \A i \in DOMAIN up[a] : up[a][i] \in Ids
          /\ \A i \in DOMAIN down[a] : down[a][i] \in Frames
          /\ \A i \in DOMAIN wire[a] : wire[a][i] \in Frames
    /\ connected \subseteq Agents /\ registered \subseteq Agents /\ linked \subseteq Agents
    /\ written \in [Ids -> [Agents -> Nat]] /\ shown \in [Ids -> [Agents -> Nat]]
    /\ federation \in BOOLEAN /\ deliveryFaults \in 0 .. MaxDeliveryFaults

Nowhere == [i \in Ids |-> [a \in Agents |-> 0]]

DeliveryInit ==
    /\ mail = [i \in Ids |-> NoMail]
    /\ outcome = [i \in Ids |-> "unsent"]
    /\ up = [a \in Agents |-> <<>>] /\ down = [a \in Agents |-> <<>>]
    /\ connected = Agents /\ registered = Agents
    /\ linked \in SUBSET Agents
    /\ wire = [a \in Agents |-> <<>>]
    /\ written = Nowhere /\ shown = Nowhere
    /\ federation \in BOOLEAN
    /\ deliveryFaults = MaxDeliveryFaults

Mates(a) == {b \in Agents : Machine[b] = Machine[a]}
Leader(a) == CHOOSE l \in Leads : Machine[l] = Machine[a]
Remote(m) == Machine[m.to] # Machine[m.from]

(* socket.write: a line for a socket that is gone is lost without a word. *)
Written(q, a, line) == IF a \in connected THEN [q EXCEPT ![a] = Append(@, line)] ELSE q

(* forward_to_peer: the relay clones a frame to every connection of a machine. *)
Forwarded(w, a, frame) ==
    [b \in Agents |-> IF b \in linked /\ b \in Mates(a) THEN Append(w[b], frame) ELSE w[b]]

-----------------------------------------------------------------------------
(* The sender *)

(***************************************************************************)
(* agent_send and list_peers.  A tool refuses to send to itself; a send to *)
(* one agent waits for an ACK, list_peers for a reply, a broadcast for     *)
(* nothing; a write without a socket settles the slot at once as timeout.  *)
(***************************************************************************)
Submit(i, m) ==
    /\ outcome[i] = "unsent"
    /\ \/ m.kind = "send" /\ m.to # m.from
       \/ m.kind \in {"list_peers", "broadcast"} /\ m.to = m.from   \* no addressee
    /\ mail' = [mail EXCEPT ![i] = m]
    /\ outcome' = [outcome EXCEPT ![i] =
          IF m.from \notin connected THEN "timeout"
          ELSE IF m.kind = "broadcast" THEN "sent" ELSE "waiting"]
    /\ up' = IF m.from \in connected THEN [up EXCEPT ![m.from] = Append(@, i)] ELSE up
    /\ UNCHANGED <<down, connected, registered, linked, wire, written, shown,
                   federation, deliveryFaults>>

(***************************************************************************)
(* agent_send to an address the relay listed as federated: the frame goes  *)
(* straight to the relay, past the broker, and nothing acknowledges it.    *)
(***************************************************************************)
SubmitFederated(i, m) ==
    /\ federation
    /\ outcome[i] = "unsent"
    /\ m.kind = "federated" /\ Remote(m)
    /\ m.from \in connected /\ m.from \in linked
    /\ mail' = [mail EXCEPT ![i] = m]
    /\ outcome' = [outcome EXCEPT ![i] = "sent"]
    /\ wire' = Forwarded(wire, m.to, [type |-> "msg", id |-> i])
    /\ UNCHANGED <<up, down, connected, registered, linked, written, shown,
                   federation, deliveryFaults>>

(* The timer of a slot: five seconds for an ACK, the caller's for a reply. *)
SlotTimeout(i) ==
    /\ outcome[i] = "waiting"
    /\ outcome' = [outcome EXCEPT ![i] = "timeout"]
    /\ UNCHANGED <<mail, up, down, connected, registered, linked, wire, written,
                   shown, federation, deliveryFaults>>

-----------------------------------------------------------------------------
(* The broker *)

(* Mutated form of Ack: received, whatever became of the message. *)
AckReceivedAnyway(i, s, by) == [type |-> "ack", id |-> i, status |-> "received", by |-> by]

Ack(i, s, by) == [type |-> "ack", id |-> i, status |-> s, by |-> by]

(***************************************************************************)
(* The relay's answer to a pi_envelope, atomic here: refused for want of   *)
(* authority, cloned to the target machine's connections, or unknown_peer  *)
(* when it has none.  Errors go back on the connection that asked.         *)
(***************************************************************************)
HandlePiEnvelope(asker, target, frame) ==
    \/ wire' = [wire EXCEPT ![asker] = Append(@,
          [type |-> "transport_error", id |-> frame.id, reason |-> "not_authorized"])]
    \/ IF Mates(target) \cap linked # {}
       THEN wire' = Forwarded(wire, target, frame)
       ELSE wire' = [wire EXCEPT ![asker] = Append(@,
          [type |-> "transport_error", id |-> frame.id, reason |-> "unknown_peer"])]

(* _resolveTargets of a broadcast: the folder's other peers of this machine. *)
Colleagues(a) == (Mates(a) \cap registered) \ {a}

(***************************************************************************)
(* _route of the next line of a registered peer.  list_peers is answered   *)
(* by the broker itself; a remote address is offered to the bridge first;  *)
(* what is left is written to the target's socket and acknowledged, or     *)
(* acknowledged as unknown.                                                *)
(***************************************************************************)
Route(a) ==
    /\ a \in registered /\ up[a] # <<>>
    /\ up' = [up EXCEPT ![a] = Tail(@)]
    /\ LET i == Head(up[a])
           m == mail[i]
       IN  \/ /\ m.kind = "list_peers"
              /\ down' = Written(down, a, [type |-> "reply", id |-> i])
              /\ UNCHANGED <<wire, written>>
           \/ /\ m.kind = "broadcast"
              /\ down' = [b \in Agents |-> IF b \in Colleagues(a) \cap connected
                             THEN Append(down[b], [type |-> "msg", id |-> i]) ELSE down[b]]
              /\ written' = [written EXCEPT ![i] =
                    [b \in Agents |-> IF b \in Colleagues(a) THEN @[b] + 1 ELSE @[b]]]
              /\ UNCHANGED wire
           \/ /\ m.kind = "send" /\ Remote(m) /\ Leader(a) \in linked
              /\ HandlePiEnvelope(Leader(a), m.to, [type |-> "msg", id |-> i])
              /\ UNCHANGED <<down, written>>
           \/ /\ m.kind = "send" /\ ~ Remote(m) /\ m.to \in registered
              /\ down' = Written(Written(down, m.to, [type |-> "msg", id |-> i]),
                                 a, Ack(i, "received", "broker"))
              /\ written' = [written EXCEPT ![i][m.to] = @ + 1]
              /\ UNCHANGED wire
           \/ /\ m.kind = "send"
              /\ IF Remote(m) THEN Leader(a) \notin linked ELSE m.to \notin registered
              /\ down' = Written(down, a, Ack(i, "unknown_peer", "broker"))
              /\ UNCHANGED <<wire, written>>
    /\ UNCHANGED <<mail, outcome, connected, registered, linked, shown, federation, deliveryFaults>>

(* The listener index.ts hangs on every relay client: any envelope is queued. *)
ShownByListener(a, f) ==
    shown' = IF federation /\ f.type = "msg" THEN [shown EXCEPT ![f.id][a] = @ + 1] ELSE shown

(* injectFromRemote: the broker writes to a peer it has. *)
InjectFromRemote(to, f) == IF to \in registered THEN Written(down, to, f) ELSE down

(* _propagateTransportError: unknown_peer is not a reason asTransportErrorBody lists. *)
PropagateTransportError(m, f) ==
    down' = IF f.reason = "unknown_peer" THEN down ELSE InjectFromRemote(m.from, f)

(***************************************************************************)
(* A frame reaches a relay connection: the listener shows it whoever it is *)
(* addressed to, and BrokerRemote.handleIncoming of the leader injects it  *)
(* into its broker and answers a message with an ACK, never an ACK with an *)
(* ACK; a federated address has no machine prefix to strip and is dropped. *)
(***************************************************************************)
HandleIncoming(a) ==
    /\ a \in linked /\ wire[a] # <<>>
    /\ LET f == Head(wire[a])
           m == mail[f.id]
           rest == [wire EXCEPT ![a] = Tail(@)]
           seat == a \in Leads /\ m.kind = "send"
       IN  /\ ShownByListener(a, f)
           /\ \/ /\ seat /\ f.type = "msg"
                 /\ down' = InjectFromRemote(m.to, f)
                 /\ written' = IF m.to \in registered
                               THEN [written EXCEPT ![f.id][m.to] = @ + 1] ELSE written
                 /\ wire' = Forwarded(rest, m.from, Ack(f.id,
                       IF m.to \in registered THEN "received" ELSE "denied", "remote"))
              \/ /\ seat /\ f.type = "ack"
                 /\ down' = InjectFromRemote(m.from, f)
                 /\ wire' = rest /\ UNCHANGED written
              \/ /\ seat /\ f.type = "transport_error"
                 /\ PropagateTransportError(m, f)
                 /\ wire' = rest /\ UNCHANGED written
              \/ /\ ~ seat
                 /\ wire' = rest /\ UNCHANGED <<down, written>>
    /\ UNCHANGED <<mail, outcome, up, connected, registered, linked, federation, deliveryFaults>>

-----------------------------------------------------------------------------
(* The receiver *)

(* expectedAckSender: the broker for a local address, alias:broker otherwise. *)
ExpectedBy(m) == IF Remote(m) THEN "remote" ELSE "broker"

(* The status a trusted transport error settles a slot with. *)
ErrorStatus(r) == IF r = "unknown_peer" THEN "unknown_peer" ELSE "denied"

(***************************************************************************)
(* _handleLine of the session peer: errors and ACKs settle the slot they   *)
(* correlate with, if it is still there and the ACK comes from the broker  *)
(* it expects; anything else is queued for the agent.                      *)
(***************************************************************************)
HandleLine(a) ==
    /\ a \in connected /\ down[a] # <<>>
    /\ down' = [down EXCEPT ![a] = Tail(@)]
    /\ LET f == Head(down[a])
           Answer(s) == IF outcome[f.id] = "waiting"
                        THEN [outcome EXCEPT ![f.id] = s] ELSE outcome
       IN  \/ /\ f.type = "msg"
              /\ shown' = [shown EXCEPT ![f.id][a] = @ + 1]
              /\ UNCHANGED outcome
           \/ /\ f.type = "ack"
              /\ outcome' = IF f.by = ExpectedBy(mail[f.id]) THEN Answer(f.status) ELSE outcome
              /\ UNCHANGED shown
           \/ /\ f.type = "transport_error"
              /\ outcome' = Answer(ErrorStatus(f.reason))
              /\ UNCHANGED shown
           \/ /\ f.type = "reply"
              /\ outcome' = Answer("reply")
              /\ UNCHANGED shown
    /\ UNCHANGED <<mail, up, connected, registered, linked, wire, written, federation, deliveryFaults>>

-----------------------------------------------------------------------------
(* Faults *)

Spoil == deliveryFaults > 0 /\ deliveryFaults' = deliveryFaults - 1

(* _teardownConn of leave and rename: every slot is settled, the socket destroyed. *)
Teardown(a) ==
    /\ a \in connected /\ Spoil
    /\ connected' = connected \ {a}
    /\ outcome' = [i \in Ids |-> IF outcome[i] = "waiting" /\ mail[i].from = a
                                 THEN "timeout" ELSE outcome[i]]
    /\ down' = [down EXCEPT ![a] = <<>>]
    /\ UNCHANGED <<mail, up, registered, linked, wire, written, shown, federation>>

(* The broker reads the end of a stream after what was in it. *)
BrokerOnClose(a) ==
    /\ a \in registered \ connected /\ up[a] = <<>>
    /\ registered' = registered \ {a}
    /\ UNCHANGED <<mail, outcome, up, down, connected, linked, wire, written, shown,
                   federation, deliveryFaults>>

Rejoin(a) ==
    /\ a \notin connected /\ a \notin registered
    /\ connected' = connected \cup {a} /\ registered' = registered \cup {a}
    /\ UNCHANGED <<mail, outcome, up, down, linked, wire, written, shown, federation,
                   deliveryFaults>>

(* The leader's process dies with its broker: streams are cut, slots stay. *)
BrokerDies(l) ==
    /\ l \in Leads /\ Spoil
    /\ connected' = connected \ Mates(l) /\ registered' = registered \ Mates(l)
    /\ up' = [a \in Agents |-> IF a \in Mates(l) THEN <<>> ELSE up[a]]
    /\ down' = [a \in Agents |-> IF a \in Mates(l) THEN <<>> ELSE down[a]]
    /\ UNCHANGED <<mail, outcome, linked, wire, written, shown, federation>>

LinkLost(a) ==
    /\ a \in linked /\ Spoil
    /\ linked' = linked \ {a}
    /\ wire' = [wire EXCEPT ![a] = <<>>]
    /\ UNCHANGED <<mail, outcome, up, down, connected, registered, written, shown,
                   federation>>

DeliveryNext ==
    \/ \E i \in Ids, m \in Mail : Submit(i, m) \/ SubmitFederated(i, m)
    \/ \E i \in Ids : SlotTimeout(i)
    \/ \E a \in Agents :
          \/ Route(a) \/ HandleIncoming(a) \/ HandleLine(a)
          \/ Teardown(a) \/ BrokerOnClose(a) \/ Rejoin(a) \/ BrokerDies(a) \/ LinkLost(a)

DeliverySpec == DeliveryInit /\ [][DeliveryNext]_deliveryVars

(* Node runs every due timer. *)
DeliveryFairness == \A i \in Ids : WF_deliveryVars(SlotTimeout(i))

-----------------------------------------------------------------------------
(* Properties *)

Promise == INSTANCE MeshPromise WITH
    Messages <- Ids,
    answer <- outcome,
    times <- [i \in Ids |-> IF mail[i].kind = "send" THEN written[i][mail[i].to] ELSE 0]

(***************************************************************************)
(* The whole path, two brokers, the relay and every fault included, keeps  *)
(* the promise of MeshPromise: an answer agent_send returns is true of     *)
(* what the brokers wrote, and there is one for every send.                *)
(***************************************************************************)
PromiseKept ==
    /\ Promise!PromiseSafe
    /\ DeliveryFairness => Promise!EverySendAnswered

(***************************************************************************)
(* "Send a message to another Pi agent": an agent is shown a message that  *)
(* one agent sent to one other only if it is that other, and once.         *)
(***************************************************************************)
OnlyAddresseeOnce ==
    \A i \in Ids, a \in Agents :
        mail[i].kind = "send" =>
            /\ shown[i][a] > 0 => a = mail[i].to
            /\ shown[i][a] <= 1
==============================================================================
