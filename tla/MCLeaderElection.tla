-------------------------- MODULE MCLeaderElection --------------------------
(* Instances of LeaderElection for TLC: two processes joining one session. *)
EXTENDS LeaderElection

CONSTANTS p1, p2

TwoProcs == {p1, p2}

\* One rename or failover at a time, and two.
TwoRejoins == {"one", "two"}

\* With one fault and processes that are interchangeable, it is the first one's.
FirstProc == {p1}
============================================================================
