------------------------------ MODULE MCInput ------------------------------
(***************************************************************************)
(* InputPipeline for TLC.  The run about order needs no keys: ReleaseAll   *)
(* is an event like a click, stamped, never dropped and never reordered.   *)
(* The run about what is held uses one key and one button.  Events and     *)
(* host changes are bounded by the guards of InputPipeline, and nothing    *)
(* else makes an item, so no state constraint is needed.                   *)
(***************************************************************************)
EXTENDS InputPipeline

\* The last position reported before the n-th event was made; 0 if there is none.
MadeAt(n) == LET before == {m \in 1..(n - 1) : log[m].kind = "move"}
             IN IF before = {} THEN 0 ELSE CHOOSE m \in before : \A o \in before : o <= m

\* secure.rs, send_input: "a click always follows the position it was made at".  The
\* writer empties the control channel and then takes the slot: a click that enters
\* the channel in between is overtaken by a position reported after it.
ClickFollowsItsPosition ==
    (hpc = "apply" /\ cur.ev.kind \in {"down", "up"} /\ cur.ev.hold \in Buttons)
        => lastMove = MadeAt(cur.seq)
=============================================================================
