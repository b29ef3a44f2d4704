----------------------------- MODULE MCSession -----------------------------
(***************************************************************************)
(* Three parts of a session side by side, each behaviour one of a single   *)
(* part: the session between its two sides, the task of a view, which      *)
(* connects and reconnects, and the way of its pictures through the        *)
(* viewer's shell and window.                                              *)
(***************************************************************************)
EXTENDS PeerSession

CONSTANTS v1, v2, h1, NoView

VARIABLES
    part,
    line, sends, events, online, current, made, pending, routes, jammed, at, answer, sess,
    after, ever, tries, leaving,
    pics, wanted, inflight, recent, torn, window, acks, canvas, awaiting, configured,
    configuring, chain, deltas, disturbed

tasks == <<line, sends, events, online, current, made, pending, routes, jammed, at, answer,
           sess, after, ever, tries, leaving>>
view == <<pics, wanted, inflight, recent, torn, window, acks, canvas, awaiting, configured,
          configuring, chain, deltas, disturbed>>
allVars == <<part, vars, tasks, view>>

\* Two views of one host, a session, a queue of one request (16 in the code), one try
\* to reconnect (8 in the code).
C == INSTANCE ViewerConnect WITH Views <- {v1, v2}, Targets <- {h1},
         TargetOf <- [v \in {v1, v2} |-> h1], OutRoom <- 1, MaxTries <- 1, MaxSessions <- 1,
         MaxEvents <- 1, net <- line, out <- sends, pc <- at

\* Two pictures may wait at the window (3 in the code), which acknowledges at the second.
W == INSTANCE VideoView WITH MaxInflight <- 2, AckBatch <- 2, LinkRoom <- 2, MaxDeltas <- 2,
         MaxTrouble <- 2, link <- pics, trouble <- disturbed

\* The part that is not looked at starts in one way only.
InitAll == /\ part \in {"peers", "tasks", "view"} /\ Init /\ C!Init /\ W!Init
           /\ part # "peers" => knows

OnPeers(Step) == part = "peers" /\ Step /\ UNCHANGED <<part, tasks, view>>
OnTasks(Step) == part = "tasks" /\ Step /\ UNCHANGED <<part, vars, view>>
OnView(Step) == part = "view" /\ Step /\ UNCHANGED <<part, vars, tasks>>

NextAll == OnPeers(Next) \/ OnTasks(C!Next) \/ OnView(W!Next)

\* The fairness of the three modules.  A behaviour stays in one part, so that a condition
\* on a disjunction of actions of several is the condition on each of them.
FairSpecAll ==
    /\ InitAll /\ [][NextAll]_allVars
    /\ WF_allVars(OnTasks(C!Connected) \/ OnPeers(Linking) \/ OnView(W!Key))
    /\ WF_allVars(OnTasks(C!Transmit) \/ OnPeers(Shaking) \/ OnView(W!Forward))
    /\ WF_allVars(OnTasks(C!Dispatch) \/ OnPeers(PermissionsChanged) \/ OnView(W!OnPacket))
    /\ WF_allVars(OnTasks(C!Trying(v1)) \/ OnPeers(Moving("v")) \/ OnView(W!Ack))
    /\ WF_allVars(OnTasks(C!Trying(v2)) \/ OnPeers(Moving("h")) \/ OnView(W!Configured))
    /\ \A v \in {v1, v2} : SF_allVars(OnTasks(C!Leaving(v))) /\ SF_allVars(OnTasks(C!Sending(v)))
    /\ \A s \in Sides : WF_allVars(OnPeers(Ending(s)))

\* Bound of the run: one mishap or one change of the permissions, which nobody has to make.
OneOfThem == trouble + changes <= 1

-----------------------------------------------------------------------------
(* Properties: those of the modules, of the part that is looked at (SidesAgree of *)
(* PeerSession by its own name, it holds of a session that has not begun).        *)

\* When one side of a session has ended, the other ends too.
OtherSideEnds == part = "peers" => BothEnd
\* A view whose user disconnects ends, or waits for the lock of a jammed engine.
DisconnectIsHeard == part = "tasks" => C!DisconnectIsHeard
\* A window that waits for a key picture gets one.
DecoderStarts == part = "view" => W!DecoderStarts
=============================================================================
