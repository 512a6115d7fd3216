---------------------------- MODULE AgentExchange ----------------------------
(***************************************************************************)
(* What agents do with the messages they are sent: the inbox of            *)
(* session/mesh_inbox.ts, the blocking tools of core/tools.ts, and the     *)
(* queue through which index.ts wakes the agent between two runs.  Agents  *)
(* request things of each other while they are themselves being asked.     *)
(* The agent is external: it answers what it was shown before it waits     *)
(* again or ends its run, as the tools' texts tell it to.                  *)
(***************************************************************************)
EXTENDS Naturals, Sequences, FiniteSets

CONSTANTS
    Talkers,    \* agents
    MaxSends,   \* messages over a behaviour
    MaxTroubles \* throws of pi.sendMessage

ASSUME ExchangeAssumption ==
    IsFiniteSet(Talkers) /\ MaxSends \in Nat /\ MaxTroubles \in Nat

VARIABLES
    posted,     \* messages sent so far, by id
    transit,    \* ids on their way
    box,        \* MeshInbox.messages
    aged,       \* ids older than INTERRUPT_GRACE_MS
    pend,       \* _pendingMeshMessages
    drainSet,   \* _meshDrainScheduled
    busy,       \* agentRun.active
    runGen,     \* agentRun.generation
    settles,    \* generations of the settleRun timers that are armed
    turn,       \* what the SDK is doing with the agent
    todo,       \* ids the agent has been shown and must answer
    call,       \* the tool call the agent is blocked in
    troubles    \* what is left of MaxTroubles

exchangeVars == <<posted, transit, box, aged, pend, drainSet, busy, runGen, settles,
                  turn, todo, call, troubles>>

MsgIds == 1 .. MaxSends
NoReply == 0
NoCall == [op |-> "none"]
Message == [from : Talkers, to : Talkers, re : 0 .. MaxSends]
Calls == {NoCall} \cup [op : {"ack", "wait"}, re : MsgIds]

ExchangeTypeOK ==
    /\ Len(posted) <= MaxSends /\ \A i \in DOMAIN posted : posted[i] \in Message
    /\ transit \subseteq MsgIds /\ aged \subseteq MsgIds
    /\ box \in [Talkers -> SUBSET MsgIds] /\ todo \in [Talkers -> SUBSET MsgIds]
    /\ \A a \in Talkers : \A i \in DOMAIN pend[a] : pend[a][i] \in MsgIds
    /\ drainSet \in [Talkers -> BOOLEAN] /\ busy \in [Talkers -> BOOLEAN]
    /\ runGen \in [Talkers -> Nat] /\ settles \in [Talkers -> SUBSET Nat]
    /\ turn \in [Talkers -> {"idle", "woken", "running"}]
    /\ call \in [Talkers -> Calls]
    /\ troubles \in 0 .. MaxTroubles

ExchangeInit ==
    /\ posted = <<>> /\ transit = {} /\ aged = {}
    /\ box = [a \in Talkers |-> {}] /\ todo = [a \in Talkers |-> {}]
    /\ pend = [a \in Talkers |-> <<>>]
    /\ drainSet = [a \in Talkers |-> FALSE] /\ busy = [a \in Talkers |-> FALSE]
    /\ runGen = [a \in Talkers |-> 0] /\ settles = [a \in Talkers |-> {}]
    /\ turn = [a \in Talkers |-> "idle"]
    /\ call = [a \in Talkers |-> NoCall]
    /\ troubles = MaxTroubles

Trouble == troubles > 0 /\ troubles' = troubles - 1

(* matchesFilter and isInterruptCandidate for the filter {re}. *)
Matches(i, c) == posted[i].re = c.re

(* Mutated form of Interrupts: requests do not end a wait early. *)
InterruptsByReply(i) == posted[i].re # NoReply /\ i \notin aged

Interrupts(i) == posted[i].re = NoReply /\ i \notin aged

(* A request the agent sees has to be answered; a reply has not. *)
Seen(S) == {i \in S : posted[i].re = NoReply}

-----------------------------------------------------------------------------
(* The tools *)

Post(a, b, re) ==
    /\ Len(posted) < MaxSends
    /\ posted' = Append(posted, [from |-> a, to |-> b, re |-> re])
    /\ transit' = transit \cup {Len(posted) + 1}

Free(a) == turn[a] = "running" /\ call[a] = NoCall

(* agent_request: send, and block until the broker's ACK. *)
AgentRequest(a, b) ==
    /\ Free(a) /\ a # b /\ todo[a] = {}
    /\ Post(a, b, NoReply)
    /\ call' = [call EXCEPT ![a] = [op |-> "ack", re |-> Len(posted) + 1]]
    /\ UNCHANGED <<box, aged, pend, drainSet, busy, runGen, settles, turn, todo, troubles>>

(***************************************************************************)
(* MeshInbox.wait: what is stored already is returned, a match first, a    *)
(* candidate for an early interrupt otherwise; else the caller blocks.     *)
(***************************************************************************)
Wait(a, re) ==
    LET match == {i \in box[a] : posted[i].re = re}
        signal == {i \in box[a] : Interrupts(i)}
    IN  /\ call' = [call EXCEPT ![a] =
              IF match # {} \/ signal # {} THEN NoCall ELSE [op |-> "wait", re |-> re]]
        /\ todo' = [todo EXCEPT ![a] = @ \cup
              (IF match = {} THEN {i \in signal : ~ \E j \in DOMAIN posted : posted[j].re = i}
               ELSE {})]

(* The ACK of a request whose line was written: the reply is awaited. *)
AckReceived(a) ==
    /\ call[a].op = "ack"
    /\ call[a].re \notin transit
    /\ Wait(a, call[a].re)
    /\ UNCHANGED <<posted, transit, box, aged, pend, drainSet, busy, runGen, settles,
                   turn, troubles>>

(* mesh_wait_message on an earlier request, once everything shown is answered. *)
WaitMessage(a, i) ==
    /\ Free(a) /\ todo[a] = {}
    /\ i \in DOMAIN posted /\ posted[i].from = a /\ posted[i].re = NoReply
    /\ i \notin transit
    /\ ~ \E j \in box[a] : posted[j].re = i
    /\ Wait(a, i)
    /\ UNCHANGED <<posted, transit, box, aged, pend, drainSet, busy, runGen, settles,
                   turn, troubles>>

(* agent_send with re: the answer to a request. *)
Answer(a, i) ==
    /\ Free(a) /\ i \in todo[a]
    /\ Post(a, posted[i].from, i)
    /\ todo' = [todo EXCEPT ![a] = @ \ {i}]
    /\ UNCHANGED <<box, aged, pend, drainSet, busy, runGen, settles, turn, call, troubles>>

(* The timer of a wait, a missing ACK, or the user's abort. *)
CallEnds(a) ==
    /\ call[a] # NoCall
    /\ call' = [call EXCEPT ![a] = NoCall]
    /\ UNCHANGED <<posted, transit, box, aged, pend, drainSet, busy, runGen, settles,
                   turn, todo, troubles>>

(* Thirty seconds pass since the delivery; its sender waits five for the ACK. *)
Ages(i) ==
    /\ i \in DOMAIN posted /\ i \notin transit \cup aged
    /\ call[posted[i].from] # [op |-> "ack", re |-> i]
    /\ aged' = aged \cup {i}
    /\ UNCHANGED <<posted, transit, box, pend, drainSet, busy, runGen, settles, turn,
                   todo, call, troubles>>

-----------------------------------------------------------------------------
(* Delivery *)

(***************************************************************************)
(* _deliverMeshMessageToAgent: the inbox stores it and settles the waiter  *)
(* it matches or interrupts, then it is queued and a drain is scheduled.   *)
(***************************************************************************)
Add(i, a) ==
    LET woken == call[a].op = "wait" /\ (Matches(i, call[a]) \/ Interrupts(i))
    IN  /\ box' = [box EXCEPT ![a] = @ \cup {i}]
        /\ call' = IF woken THEN [call EXCEPT ![a] = NoCall] ELSE call
        /\ todo' = IF woken THEN [todo EXCEPT ![a] = @ \cup Seen({i})] ELSE todo

DeliverToAgent(i) ==
    LET a == posted[i].to
    IN  /\ i \in transit
        /\ transit' = transit \ {i}
        /\ Add(i, a)
        /\ pend' = [pend EXCEPT ![a] = Append(@, i)]
        /\ drainSet' = [drainSet EXCEPT ![a] = TRUE]
        /\ UNCHANGED <<posted, aged, busy, runGen, settles, turn, troubles>>

(***************************************************************************)
(* The microtask of _scheduleMeshMessageDrain: nothing while a run is on;  *)
(* else the whole batch, the last of it with a turn.  A throw of           *)
(* pi.sendMessage keeps what was not delivered, and schedules nothing.     *)
(***************************************************************************)
Drain(a) ==
    /\ drainSet[a]
    /\ drainSet' = [drainSet EXCEPT ![a] = FALSE]
    /\ \/ /\ busy[a] \/ pend[a] = <<>>
          /\ UNCHANGED <<pend, busy, turn, todo, troubles>>
       \/ /\ ~ busy[a] /\ pend[a] # <<>>
          /\ pend' = [pend EXCEPT ![a] = <<>>]
          /\ busy' = [busy EXCEPT ![a] = TRUE]
          /\ turn' = [turn EXCEPT ![a] = IF @ = "idle" THEN "woken" ELSE @]
          /\ todo' = [todo EXCEPT ![a] = @ \cup
                Seen({i \in {pend[a][k] : k \in DOMAIN pend[a]} :
                        ~ \E j \in DOMAIN posted : posted[j].re = i})]
          /\ UNCHANGED troubles
       \/ /\ ~ busy[a] /\ pend[a] # <<>> /\ Trouble
          /\ UNCHANGED <<pend, busy, turn, todo>>
    /\ UNCHANGED <<posted, transit, box, aged, runGen, settles, call>>

(* agent_start, for a drained batch or for the one prompt of the user. *)
AgentStart(a) ==
    /\ turn[a] = "woken" \/ (turn[a] = "idle" /\ runGen[a] = 0)
    /\ turn' = [turn EXCEPT ![a] = "running"]
    /\ busy' = [busy EXCEPT ![a] = TRUE]
    /\ runGen' = [runGen EXCEPT ![a] = @ + 1]
    /\ UNCHANGED <<posted, transit, box, aged, pend, drainSet, settles, todo, call, troubles>>

(* agent_end: the flag is cleared on the next tick, if no run began meanwhile. *)
AgentEnd(a) ==
    /\ Free(a) /\ (todo[a] = {} \/ Len(posted) = MaxSends)
    /\ turn' = [turn EXCEPT ![a] = "idle"]
    /\ settles' = [settles EXCEPT ![a] = @ \cup {runGen[a]}]
    /\ UNCHANGED <<posted, transit, box, aged, pend, drainSet, busy, runGen, todo, call,
                   troubles>>

(* Mutated form of SettleRun: what queued up during the run is not drained. *)
SettleRunSilent(a, g) ==
    /\ g \in settles[a]
    /\ settles' = [settles EXCEPT ![a] = @ \ {g}]
    /\ busy' = [busy EXCEPT ![a] = IF g = runGen[a] THEN FALSE ELSE @]
    /\ UNCHANGED <<posted, transit, box, aged, pend, drainSet, runGen, turn, todo, call,
                   troubles>>

SettleRun(a, g) ==
    /\ g \in settles[a]
    /\ settles' = [settles EXCEPT ![a] = @ \ {g}]
    /\ IF g = runGen[a]
       THEN /\ busy' = [busy EXCEPT ![a] = FALSE]
            /\ drainSet' = [drainSet EXCEPT ![a] = pend[a] # <<>> \/ @]
       ELSE UNCHANGED <<busy, drainSet>>
    /\ UNCHANGED <<posted, transit, box, aged, pend, runGen, turn, todo, call, troubles>>

ExchangeNext ==
    \/ \E a \in Talkers :
          \/ \E b \in Talkers : AgentRequest(a, b)
          \/ AckReceived(a) \/ CallEnds(a)
          \/ \E i \in MsgIds : WaitMessage(a, i) \/ Answer(a, i)
          \/ Drain(a) \/ AgentStart(a) \/ AgentEnd(a)
          \/ \E g \in settles[a] : SettleRun(a, g)
    \/ \E i \in transit : DeliverToAgent(i)
    \/ \E i \in MsgIds : Ages(i)

ExchangeSpec == ExchangeInit /\ [][ExchangeNext]_exchangeVars

(* Microtasks, timers and sockets run; the SDK starts and ends what it was asked. *)
ExchangeFairness ==
    \A a \in Talkers :
        /\ WF_exchangeVars(Drain(a))
        /\ WF_exchangeVars(turn[a] = "woken" /\ AgentStart(a))
        /\ WF_exchangeVars(AckReceived(a)) /\ WF_exchangeVars(CallEnds(a))
        /\ SF_exchangeVars(AgentEnd(a))
        /\ WF_exchangeVars(\E i \in MsgIds : Answer(a, i))
        /\ WF_exchangeVars(\E g \in settles[a] : SettleRun(a, g))
        /\ WF_exchangeVars(\E i \in transit : DeliverToAgent(i))

-----------------------------------------------------------------------------
(* Properties *)

Unanswered(i) == ~ \E j \in DOMAIN posted : posted[j].re = i

(***************************************************************************)
(* No lost wake-up and no mutual wait: an agent blocked on a reply does    *)
(* not have it, and two agents are never both blocked on an answer that    *)
(* only the other could give and has been asked for, as long as one of the *)
(* two requests is within the grace period.                                *)
(***************************************************************************)
NoMutualWait ==
    \A a, b \in Talkers :
        /\ call[a].op = "wait" => ~ \E i \in box[a] : posted[i].re = call[a].re
        /\ call[a].op = "wait" /\ call[b].op = "wait" /\ a # b =>
              LET r == call[a].re  s == call[b].re
              IN  ~ ( /\ posted[r].to = b /\ r \in box[b] /\ Unanswered(r)
                      /\ posted[s].to = a /\ s \in box[a] /\ Unanswered(s)
                      /\ r \notin aged \/ s \notin aged )

(***************************************************************************)
(* Mail is not left lying: what is queued for an agent is handed to it     *)
(* once its run is over, however runs, ticks and arrivals interleave; a    *)
(* throw leaves it until the next arrival or run.                          *)
(***************************************************************************)
MailDrained == ExchangeFairness =>
    \A a \in Talkers : (pend[a] # <<>>) ~> (pend[a] = <<>> \/ troubles < MaxTroubles)
==============================================================================
