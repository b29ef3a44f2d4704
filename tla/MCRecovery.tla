----------------------------- MODULE MCRecovery -----------------------------
(***************************************************************************)
(* Three parts side by side that come to rest by themselves, each          *)
(* behaviour one of a single part: the connection to the server, the grant *)
(* of the service, and the quality of the picture.                         *)
(***************************************************************************)
EXTENDS Signaling

CONSTANTS c1, c2, p1, Watchdog, Nobody, NoPid

VARIABLES
    part,
    app, cutOff, token, owners, doing, helper, why, mutex, slot, boundTo, stale, agent,
    inPipe, video, videoHeld,
    q, bitrate, fps, scale, streak, hold, clear

broker == <<app, cutOff, token, owners, doing, helper, why, mutex, slot, boundTo, stale,
            agent, inPipe, video, videoHeld>>
adaptation == <<q, bitrate, fps, scale, streak, hold, clear>>
allVars == <<part, vars, broker, adaptation>>

\* Two connections of one process, an agent, whose input pipe holds two messages (1 MiB in
\* the code), so that an agent may hang without a full pipe.
B == INSTANCE Broker WITH Conns <- {c1, c2}, Pids <- {p1}, MaxAgents <- 1, PipeRoom <- 2,
         MaxConnections <- 2

\* A display small enough for a short ladder of bitrates, everything automatic.
Automatic == [preset |-> "auto", fps |-> 0, bitrate |-> 0, height |-> 0]
A == INSTANCE Adaptation WITH Qualities <- {Automatic}, Width <- 640, Height <- 400

\* A part that is not looked at starts in one way only.
InitAll ==
    /\ part \in {"signaling", "broker", "adaptation"} /\ Init /\ B!Init /\ A!Init
    /\ part # "signaling" => incoming

OnSignaling(Step) == part = "signaling" /\ Step /\ UNCHANGED <<part, broker, adaptation>>
OnBroker(Step) == part = "broker" /\ Step /\ UNCHANGED <<part, vars, adaptation>>
OnAdaptation(Step) == part = "adaptation" /\ Step /\ UNCHANGED <<part, vars, broker>>

NextAll == OnSignaling(Next) \/ OnBroker(B!Next) \/ OnAdaptation(A!Next)

\* The fairness of the three modules.  A behaviour stays in one part, so that a condition
\* on a disjunction of actions of several is the condition on each of them.
FairSpecAll ==
    /\ InitAll /\ [][NextAll]_allVars
    /\ SF_allVars(OnBroker(B!Going(c1)) \/ OnSignaling(Connect))
    /\ SF_allVars(OnBroker(B!Going(c2)) \/ OnSignaling(Registered))
    /\ SF_allVars(OnBroker(B!Going(Watchdog)) \/ OnSignaling(AuthOk))
    /\ SF_allVars(OnBroker(B!LoopEnds(c1)) \/ OnSignaling(UnknownRefused))
    /\ SF_allVars(OnBroker(B!LoopEnds(c2)))
    /\ WF_allVars(OnBroker(B!Sweep) \/ OnSignaling(Wake) \/ OnAdaptation(A!Clean))
    /\ WF_allVars(OnBroker(B!AgentGoing(1)))

-----------------------------------------------------------------------------
(* Properties: those of the modules, of the part that is looked at. *)

\* A grant ends with the connection that holds it, and a deaf one ends by itself.
GrantsEnd == B!GrantsEnd
\* A device that lost its connection comes back.
DeviceComesBack == part = "signaling" => ComesBack
\* On a link that stays clean the picture comes back to where it began.
Recovers == part = "adaptation" => A!Recovers
=============================================================================
