------------------------- MODULE SubscriptionGraph -------------------------
(***************************************************************************)
(* The two-way subscription index that relay/src/presence.rs and           *)
(* relay/src/rooms.rs both keep under one lock:                            *)
(*   subscribers_of[x]   who is told about x,                              *)
(*   subscriptions_by[y] whom y watches, kept only for cheap cleanup.      *)
(* A key missing from a HashMap and a key with an empty set behave alike,  *)
(* so both maps are total functions here.  Every method is one critical    *)
(* section, hence one operator from graph to graph.                        *)
(***************************************************************************)
CONSTANT Peers

Graphs == [subscribers_of   : [Peers -> SUBSET Peers],
           subscriptions_by : [Peers -> SUBSET Peers]]

EmptyGraph == [subscribers_of   |-> [p \in Peers |-> {}],
               subscriptions_by |-> [p \in Peers |-> {}]]

\* Mutated form of subscribe: the previous list is not taken out of the index.
subscribeWithoutRemoval(g, s, ps) ==
    [subscribers_of |->
        [x \in Peers |-> IF x \in ps THEN g.subscribers_of[x] \cup {s}
                                     ELSE g.subscribers_of[x]],
     subscriptions_by |-> [g.subscriptions_by EXCEPT ![s] = ps]]

\* subscribe: s leaves the sets of its old list and enters those of the new.
subscribe(g, s, ps) ==
    [subscribers_of |->
        [x \in Peers |->
            IF x \in ps THEN g.subscribers_of[x] \cup {s}
            ELSE IF x \in g.subscriptions_by[s] THEN g.subscribers_of[x] \ {s}
            ELSE g.subscribers_of[x]],
     subscriptions_by |-> [g.subscriptions_by EXCEPT ![s] = ps]]

\* unsubscribe: ps are taken out of s's list, in both directions.
unsubscribe(g, s, ps) ==
    [subscribers_of |->
        [x \in Peers |-> IF x \in ps THEN g.subscribers_of[x] \ {s}
                                     ELSE g.subscribers_of[x]],
     subscriptions_by |-> [g.subscriptions_by EXCEPT ![s] = @ \ ps]]

\* unsubscribe_all: only the sets named by the reverse index are visited.
unsubscribe_all(g, s) ==
    [subscribers_of |->
        [x \in Peers |-> IF x \in g.subscriptions_by[s]
                         THEN g.subscribers_of[x] \ {s}
                         ELSE g.subscribers_of[x]],
     subscriptions_by |-> [g.subscriptions_by EXCEPT ![s] = {}]]

\* Mutated form of reconcile_subscribers: the reverse index only grows.
reconcile_oneway(g, machine, desired) ==
    [subscribers_of |-> [g.subscribers_of EXCEPT ![machine] = desired],
     subscriptions_by |->
        [y \in Peers |->
            IF y \in desired \ g.subscribers_of[machine]
            THEN g.subscriptions_by[y] \cup {machine}
            ELSE g.subscriptions_by[y]]]

\* reconcile_subscribers (rooms only): machine's subscribers become `desired`.
reconcile_subscribers(g, machine, desired) ==
    [subscribers_of |-> [g.subscribers_of EXCEPT ![machine] = desired],
     subscriptions_by |->
        [y \in Peers |->
            IF y \in desired \ g.subscribers_of[machine]
                THEN g.subscriptions_by[y] \cup {machine}
            ELSE IF y \in g.subscribers_of[machine] \ desired
                THEN g.subscriptions_by[y] \ {machine}
            ELSE g.subscriptions_by[y]]]

\* The two indexes are inverse relations.  Cleanup trusts it: a subscriber the
\* reverse index forgot is never removed from subscribers_of.
Mirror(g) ==
    \A x, y \in Peers : y \in g.subscribers_of[x] <=> x \in g.subscriptions_by[y]
============================================================================
