----------------------------- MODULE MeshPromise -----------------------------
(***************************************************************************)
(* What agent_send promises its caller about one message, with nothing of  *)
(* how it is kept: every send is answered once, "received" is said only of *)
(* a message that was written to its addressee's socket, "unknown_peer"    *)
(* and "denied" only of one that never will be, and no message is written  *)
(* to its addressee twice.  A timeout promises nothing about delivery.     *)
(***************************************************************************)
EXTENDS Naturals

CONSTANT Messages

VARIABLES
    answer,     \* what the caller was told about each message
    times       \* how often each was written to its addressee's socket

promiseVars == <<answer, times>>

Refusals == {"unknown_peer", "denied"}

Answers == {"received", "timeout", "sent", "reply"} \cup Refusals

PromiseInit ==
    /\ answer = [m \in Messages |-> "unsent"]
    /\ times = [m \in Messages |-> 0]

(* A send that waits, a fire-and-forget one, or one that found no connection. *)
Ask(m) ==
    /\ answer[m] = "unsent"
    /\ answer' \in {[answer EXCEPT ![m] = a] : a \in {"waiting", "sent", "timeout"}}
    /\ UNCHANGED times

(* A refused message is gone: nothing may write it any more. *)
Hand(m) ==
    /\ answer[m] \in {"waiting", "timeout"}
    /\ times[m] = 0
    /\ times' = [times EXCEPT ![m] = 1]
    /\ UNCHANGED answer

Settle(m) ==
    /\ answer[m] = "waiting"
    /\ \E a \in Answers \ {"sent", "timeout"} :
          /\ a = "received" => times[m] = 1
          /\ a \in Refusals => times[m] = 0
          /\ answer' = [answer EXCEPT ![m] = a]
    /\ UNCHANGED times

(* A timeout, or a teardown that gives up everything the caller waits for. *)
GiveUp(S) ==
    /\ S # {} /\ \A m \in S : answer[m] = "waiting"
    /\ answer' = [m \in Messages |-> IF m \in S THEN "timeout" ELSE answer[m]]
    /\ UNCHANGED times

PromiseNext ==
    \/ \E m \in Messages : Ask(m) \/ Hand(m) \/ Settle(m)
    \/ \E S \in SUBSET Messages : GiveUp(S)

(* Nobody waits for ever. *)
EverySendAnswered ==
    \A m \in Messages : (answer[m] = "waiting") ~> (answer[m] \in Answers)

PromiseSafe == PromiseInit /\ [][PromiseNext]_promiseVars

PromiseSpec == PromiseSafe /\ EverySendAnswered
==============================================================================
