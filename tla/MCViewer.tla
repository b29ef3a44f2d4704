------------------------------ MODULE MCViewer ------------------------------
(***************************************************************************)
(* ViewerParts for TLC: two views, two hosts, and contents of every kind.  *)
(***************************************************************************)
EXTENDS ViewerParts, TLC

CONSTANTS p, q, h, k

Two == [v \in {p, q} |-> IF v = p THEN h ELSE k]

\* The two views with their hosts may be exchanged.
Exchange == {p :> q @@ q :> p @@ h :> k @@ k :> h}

\* A part that is not looked at starts in one way only.
InitOne == /\ InitAll
           /\ part # "clipboard" => \A s \in C!Sides : clip[s].what = "x" /\ images[s]

SpecOne == InitOne /\ [][NextAll]_allVars
=============================================================================
