-------------------------- MODULE MCBrokerRoster --------------------------
(* Instances of BrokerRoster for TLC: two peers of one folder that want one *)
(* name, one of them by takeover.                                           *)
EXTENDS BrokerRoster

CONSTANTS p1, p2, x, y, dir

BothProcs == {p1, p2}
TwoBases == {x, y}
TightBases == {y}
TwoCwds == {dir, NoCwd}
CwdOf == [p \in BothProcs |-> dir]
FirstName == [p \in BothProcs |-> <<x, 0>>]
TakesOver == [p \in BothProcs |-> p = p1]
==========================================================================
