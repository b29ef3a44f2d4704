----------------------------- MODULE HostParts -----------------------------
(***************************************************************************)
(* Four parts of a host side by side, each behaviour one of a single part: *)
(* the grant of the service, the pictures of a session, what the device    *)
(* keeps on its disk, and its connection to the server.                    *)
(***************************************************************************)
EXTENDS Broker

CONSTANTS
    LaneRoom, MaxPics, MaxAsks,     \* as in VideoStream
    Devices, MaxCommands,           \* as in DeviceFiles
    MaxTrouble,                     \* bound of both
    OutRoom, LastStep, MaxMishaps, MaxIds, MaxEras, MaxChanges    \* as in Signaling

ASSUME PicturesAssumption == LaneRoom \in Nat \ {0} /\ MaxPics \in Nat \ {0}
ASSUME SignalingAssumption ==
    /\ OutRoom \in Nat /\ LastStep \in Nat
    /\ MaxMishaps \in Nat /\ MaxIds \in Nat /\ MaxEras \in Nat /\ MaxChanges \in Nat \ {0}

VARIABLES
    part,
    desk, host, ctl, news, th, src, lane, arrived, depth, untold, asks, disturbed,
    up, todo, mem, file, tmp, autostart, engine, page, saves, told, kept, gone, behind, commands,
    trouble,
    phase, creds, resetUsed, step, failures, shown, out, era, incoming, unseen, wire, known, issued,
    mishaps, fresh, accepts

pictures == <<desk, host, ctl, news, th, src, lane, arrived, depth, untold, asks, disturbed>>
files == <<up, todo, mem, file, tmp, autostart, engine, page, saves, told, kept, gone, behind,
           commands, trouble>>
signaling == <<phase, creds, resetUsed, step, failures, shown, out, era, incoming, unseen, wire,
               known, issued, mishaps, fresh, accepts>>
allVars == <<part, vars, pictures, files, signaling>>

\* Encoders with and without a delay.
V == INSTANCE VideoStream WITH Depths <- {0, 1}, stale <- untold, trouble <- disturbed
D == INSTANCE DeviceFiles
S == INSTANCE Signaling

InitAll == /\ part \in {"broker", "pictures", "files", "signaling"}
           /\ Init /\ V!Init /\ D!Init /\ S!Init

OnBroker(Step) == part = "broker" /\ Step /\ UNCHANGED <<part, pictures, files, signaling>>
OnPictures(Step) == part = "pictures" /\ Step /\ UNCHANGED <<part, vars, files, signaling>>
OnFiles(Step) == part = "files" /\ Step /\ UNCHANGED <<part, vars, pictures, signaling>>
OnSignaling(Step) == part = "signaling" /\ Step /\ UNCHANGED <<part, vars, pictures, files>>

NextAll == OnBroker(Next) \/ OnPictures(V!Next) \/ OnFiles(D!Next) \/ OnSignaling(S!Next)
SpecAll == InitAll /\ [][NextAll]_allVars

-----------------------------------------------------------------------------
(* Properties: those of the modules (those of Broker by their own names). *)

\* No unit of the stream refers to one that the viewer did not get.
StreamIsWhole == V!StreamIsWhole
\* The host's session loop knows the displays and the rate the video thread works with.
HostKnows == V!HostKnows
\* When the desktop comes to rest its last picture has arrived.
LastPictureArrives == V!LastPictureArrives
\* What is in force is what the user chose, and who was revoked stays out.
EverybodyFollows == D!EverybodyFollows
\* What was saved survives a process that dies while it saves.
SavedIsKept == D!SavedIsKept
\* Once nothing is on its way the server's copy of the switch is the user's.
SwitchAgrees == S!SwitchAgrees
\* A device that is refused registers once more at most before it is online again.
RegistersSparingly == S!RegistersSparingly
=============================================================================
