------------------------------- MODULE MCHub -------------------------------
(***************************************************************************)
(* Hub for TLC.  Devices are interchangeable, so the runs that check no    *)
(* liveness property treat them as a symmetry set.                         *)
(***************************************************************************)
EXTENDS Hub, TLC

Symmetry == Permutations(Ids)

\* Bound of the safety run: two tasks in the middle of a handler at a time, and
\* nothing further once a device that is online does not accept connections.
TwoBusy == /\ Cardinality({t \in Tasks : todo[t] # <<>>}) <= 2
           /\ \A i \in Ids : devices[i] # 0 => i \in accepting
\* Either three connections come and one session is made, or two and two, or two and one
\* and a socket fails.
OneOrTwo == /\ Len(made) <= 1 \/ phase[MaxConn] = "new"
            /\ deaf # {} => Len(made) <= 1 /\ phase[MaxConn] = "new"
=============================================================================
