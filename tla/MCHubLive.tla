----------------------------- MODULE MCHubLive -----------------------------
(***************************************************************************)
(* Two parts side by side in which nobody may wait for ever, each          *)
(* behaviour one of a single part: the tasks of the server, and the        *)
(* threads around elevated control in the application.                     *)
(***************************************************************************)
EXTENDS Hub

VARIABLES
    part,
    elevated, may, busy, current, guard, seat, lost, writing, begun, alive, beats, ears,
    sent, said, serving, granted, forgot, cutShort, trouble

elevation == <<elevated, may, busy, current, guard, seat, lost, writing, begun, alive, beats,
               ears, sent, said, serving, granted, forgot, cutShort, trouble>>
allVars == <<part, vars, elevation>>

\* Elevated control is begun twice, and something goes wrong once.
E == INSTANCE Elevation WITH MaxGrants <- 2, PipeRoom <- 1, MaxTrouble <- 1,
         doing <- busy, slot <- granted

InitAll == part \in {"hub", "elevation"} /\ Init /\ E!Init

OnHub(A) == part = "hub" /\ A /\ UNCHANGED <<part, elevation>>
OnElevation(A) == part = "elevation" /\ A /\ UNCHANGED <<part, vars>>

NextAll == OnHub(Next) \/ OnElevation(E!Next)

\* The fairness of both modules, for two connections and two pipes.  A behaviour stays in
\* one part, so that a condition on a disjunction of actions of both is the condition on
\* each of them.
FairSpecAll ==
    /\ InitAll /\ [][NextAll]_allVars
    /\ SF_allVars(OnHub(StepSend(1)) \/ OnElevation(E!LoopGoing))
    /\ SF_allVars(OnHub(StepSend(2)) \/ OnElevation(E!Written))
    /\ SF_allVars(OnHub(Kick(1)) \/ OnElevation(E!Heartbeat(1)))
    /\ SF_allVars(OnHub(Kick(2)) \/ OnElevation(E!Heartbeat(2)))
    /\ WF_allVars(OnHub(Step(0)) \/ OnElevation(E!Listen(1) \/ E!Hear(1)))
    /\ WF_allVars(OnHub(Step(1)) \/ OnElevation(E!Listen(2) \/ E!Hear(2)))
    /\ WF_allVars(OnHub(Step(2)) \/ OnElevation(E!Serve(1)))
    /\ WF_allVars(OnHub(Write(1)) \/ OnElevation(E!Serve(2)))
    /\ WF_allVars(OnHub(Write(2)) \/ OnElevation(E!Watchdog))

\* Bound of the run: every device that is online accepts connections.
Open == \A i \in Ids : devices[i] # 0 => i \in accepting

-----------------------------------------------------------------------------
(* Properties: those of Hub, of its part, and that of Elevation. *)

\* Nobody in the server waits for ever: a task comes to the end of its handler, and a
\* connection that was superseded ends.
TasksGoOn == part = "hub" => (TaskComesBack /\ SupersededGoes)
\* A grant that was given up ends at the service, and a service that is gone is noticed.
ElevationSettles == part = "elevation" => E!ElevationSettles
=============================================================================
