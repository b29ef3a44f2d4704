------------------------------ MODULE MCAccess ------------------------------
(***************************************************************************)
(* HostAccess for TLC: two viewers, three permissions.                     *)
(***************************************************************************)
EXTENDS HostAccess, TLC

CONSTANTS v1, v2, t1, t2, view, mouse, elevated

All == {{view, mouse, elevated}}
Some == {{view, mouse, elevated}, {view}, {elevated}}

\* Where the rules change much, fewer sessions are announced.
Together == announced + changes <= 3 /\ Len(wrong) + changes <= 3

Symmetry == Permutations({v1, v2}) \cup Permutations({t1, t2})
=============================================================================
