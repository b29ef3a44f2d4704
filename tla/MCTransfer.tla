----------------------------- MODULE MCTransfer -----------------------------
(***************************************************************************)
(* FileTransfer for TLC: two sources, the first of two chunks.             *)
(***************************************************************************)
EXTENDS FileTransfer

CONSTANTS a, b

Lengths == [s \in {a, b} |-> IF s = a THEN 2 ELSE 1]
OwnNames == [s \in {a, b} |-> s]
OneName == [s \in {a, b} |-> a]

\* Where the owner is asked, a trouble meets one transfer only.
OneAtTrouble == mode = "ask" /\ used > 0 => next <= 2
=============================================================================
