---------------------------- MODULE AccessPolicy ----------------------------
(***************************************************************************)
(* What a host promises its owner, whatever happens on the way: one viewer *)
(* at a time, who comes in by an answer of the owner, by the rule for      *)
(* unattended access, or because its session was lost a short time ago.    *)
(* HostAccess is shown to implement it.                                    *)
(***************************************************************************)
EXTENDS Naturals

CONSTANTS Viewers, Standard, Elevated, Nobody

Permissions == SUBSET (Standard \cup {Elevated})

VARIABLES
    serving,   \* the viewer of the session, or Nobody
    granted,   \* what the session was begun with
    given,     \* what it may have
    holds,     \* what it has at the moment
    consent,   \* what the owner said yes to a moment ago, and to whom
    returns,   \* what a viewer may come back with, without the owner being asked
    open       \* what a viewer with the permanent password may have unasked

vars == <<serving, granted, given, holds, consent, returns, open>>

NoConsent == [viewer |-> Nobody, to |-> {}]

Init == /\ serving = Nobody /\ granted = {} /\ given = {} /\ holds = {}
        /\ consent = NoConsent
        /\ returns = [v \in Viewers |-> {}]
        /\ open = {}

\* The three ways in.  Elevated control comes from the owner's answer or from the
\* rule for unattended access, never from a session that was there before.
Entitled(v, P) == \/ consent.viewer = v /\ P \subseteq consent.to
                  \/ P \subseteq returns[v] /\ Elevated \notin P
                  \/ P \subseteq open

Admit(v, P) == /\ serving = Nobody /\ serving' = v
               /\ P \cap Standard # {} /\ Entitled(v, P)
               /\ granted' = P /\ given' \in {P, P \ {Elevated}} /\ holds' = given'
               /\ consent' = NoConsent
               /\ UNCHANGED <<returns, open>>

Answer(v, P) == /\ serving = Nobody
                /\ consent' = [viewer |-> v, to |-> P]
                /\ UNCHANGED <<serving, granted, given, holds, returns, open>>

Withdraw == /\ consent' = NoConsent
            /\ UNCHANGED <<serving, granted, given, holds, returns, open>>

Change == /\ serving # Nobody
          /\ given' \in {given, given \ {Elevated}} /\ holds' \subseteq given'
          /\ UNCHANGED <<serving, granted, consent, returns, open>>

Leave == /\ serving # Nobody /\ serving' = Nobody
         /\ granted' = {} /\ given' = {} /\ holds' = {}
         /\ \E P \in {{}, granted} : returns' = [returns EXCEPT ![serving] = P]
         /\ UNCHANGED <<consent, open>>

Forget == /\ \E late \in SUBSET Viewers : returns' = [v \in Viewers |-> IF v \in late THEN {} ELSE returns[v]]
          /\ UNCHANGED <<serving, granted, given, holds, consent, open>>

Configure == /\ open' \in Permissions
             /\ UNCHANGED <<serving, granted, given, holds, consent, returns>>

Next == \/ \E v \in Viewers, P \in Permissions : Admit(v, P) \/ Answer(v, P)
        \/ Withdraw \/ Change \/ Leave \/ Forget \/ Configure

Spec == Init /\ [][Next]_vars
=============================================================================
