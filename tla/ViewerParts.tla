---------------------------- MODULE ViewerParts ----------------------------
(***************************************************************************)
(* Two parts of a viewer side by side, each behaviour one of a single      *)
(* part: the connections of its views, and the clipboards of a session.    *)
(***************************************************************************)
EXTENDS ViewerConnect

CONSTANTS
    Texts, Images, Unsent, Unwired, Invalid,    \* as in Clipboard
    MaxCopies, MaxTrouble

VARIABLES
    part,
    clip, fresh, suppressed, lastSent, sent, on, images, apart, botched, over, copies, trouble

clipboard == <<clip, fresh, suppressed, lastSent, sent, on, images, apart, botched,
               over, copies, trouble>>
allVars == <<part, vars, clipboard>>

C == INSTANCE Clipboard WITH net <- sent

InitAll == part \in {"viewer", "clipboard"} /\ Init /\ C!Init

OnViewer(Step) == part = "viewer" /\ Step /\ UNCHANGED <<part, clipboard>>
OnClipboard(Step) == part = "clipboard" /\ Step /\ UNCHANGED <<part, vars>>

NextAll == OnViewer(Next) \/ OnClipboard(C!Next)

SpecAll == InitAll /\ [][NextAll]_allVars

-----------------------------------------------------------------------------
(* Properties: those of the modules (those of ViewerConnect by their own names). *)

\* A content is never sent back to the side whose user copied it.
NoEcho == C!NoEcho
\* Two clipboards at rest hold the same.
ClipboardsAgree == C!ClipboardsAgree
=============================================================================
