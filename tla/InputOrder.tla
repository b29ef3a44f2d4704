----------------------------- MODULE InputOrder -----------------------------
(***************************************************************************)
(* What the input path of a session promises, without queues, tasks or     *)
(* threads: the viewer makes events one after the other, and the host      *)
(* takes over the ones that are not mouse movement one at a time, in the   *)
(* order they were made, none missing and none twice.  Mouse movement may  *)
(* be dropped (a newer position replaces it) and is not mentioned.         *)
(* InputPipeline implements this specification.                            *)
(***************************************************************************)
EXTENDS Naturals, Sequences

CONSTANT Events   \* events: records with a field "kind"

VARIABLES log,       \* every event the viewer made, the n-th stamped with n
          handled    \* numbers of the non-movement events the host took over

ordVars == <<log, handled>>

Kept == {n \in 1..Len(log) : log[n].kind # "move"}

Init == log = <<>> /\ handled = <<>>

Make == /\ \E e \in Events : log' = Append(log, e)
        /\ UNCHANGED handled

\* The host takes over the oldest kept event it has not taken over yet.
Handle ==
    /\ \E n \in Kept :
          /\ \A i \in DOMAIN handled : handled[i] < n
          /\ \A m \in Kept : m < n => \E i \in DOMAIN handled : handled[i] = m
          /\ handled' = Append(handled, n)
    /\ UNCHANGED log

Next == Make \/ Handle

Spec == Init /\ [][Next]_ordVars
=============================================================================
