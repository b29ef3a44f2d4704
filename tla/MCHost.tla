------------------------------- MODULE MCHost -------------------------------
(***************************************************************************)
(* HostParts for TLC: two connections of two processes, two agents, one    *)
(* picture in the lane (2 in the code), two devices, and two steps of the  *)
(* backoff (8 in the code).                                                *)
(***************************************************************************)
EXTENDS HostParts, TLC

CONSTANTS c1, c2, p1, p2, d1, d2

TwoConns == {c1, c2}
TwoPids == {p1, p2}
TwoDevices == {d1, d2}

\* The part that is not looked at starts in one way only.
InitOne == /\ InitAll
           /\ part # "pictures" => desk.count = 1 /\ desk.grant /\ host.view /\ depth = 0
           /\ part # "signaling" => incoming

SpecOne == InitOne /\ [][NextAll]_allVars

\* Bound of the run: two orders to the video thread and mishaps together.
Few == asks + disturbed <= 2

\* Connections, processes and devices may be exchanged.
Symmetry == Permutations(TwoConns) \cup Permutations(TwoPids) \cup Permutations(TwoDevices)
=============================================================================
