---------------------------- MODULE VideoStream ----------------------------
(***************************************************************************)
(* Pictures of the host's desktop: the video thread (capture, encoder), the *)
(* part of the host's session loop that steers it and learns of its        *)
(* displays, and the lane of two pictures to the viewer.                   *)
(*                                                                         *)
(* A picture is the display it shows and a version of its content.  Rates, *)
(* sizes and bytes are left out: a target of the bitrate adapter is full   *)
(* or low, and what differs in frame rate or scale needs a new encoder.    *)
(* The pointer goes its own way (control lane) and is left out.            *)
(***************************************************************************)
EXTENDS Naturals, Sequences, FiniteSets

CONSTANTS
    LaneRoom,     \* pictures the video lane holds (2)
    Depths,       \* pictures an encoder may hold back: a set of numbers, 0 or 1
    MaxPics,      \* bound: versions of the desktop's content
    MaxAsks,      \* bound: orders of the host's session loop
    MaxTrouble    \* bound: what goes wrong outside the program

VARIABLES
    desk,         \* the PC: number of displays, version of the content, is the secure
                  \* desktop in front, does the service still honour the grant
    host,         \* session loop: active, list, level (its adapter), view, elevated
    ctl,          \* VideoCtl messages, in order
    news,         \* VideoEvent messages, in order
    th,           \* locals of run: pc, active, list, level, paused, enc, held, force,
                  \* service (elevated.is_some), use (use_service_picture), gap (history:
                  \* the lane refused the last unit)
    src,          \* Capturer: owed (force_next), kept (content of last_texture, 0: none)
    lane,         \* encoded units in the video lane
    arrived,      \* the last picture the viewer's session loop was given
    depth,        \* how many pictures the encoders of this PC hold back
    stale,        \* history: what the host was never told ("display", "level")
    asks, trouble

control == <<host, ctl, news, asks>>
vars == <<desk, host, ctl, news, th, src, lane, arrived, depth, stale, asks, trouble>>

Displays(n) == 0..(n - 1)
Least(m, n) == IF m < n THEN m ELSE n
NoPicture == [of |-> 0, v |-> 0]
FreshSource == [owed |-> TRUE, kept |-> 0]
Pic == 0..MaxPics
TheDesk == [count : {1, 2}, pic : Pic \ {0}, secure : BOOLEAN, grant : BOOLEAN]

\* The session starts: the host loop has listed the displays, the thread has selected one.
Init == /\ desk \in {d \in TheDesk : d.pic = 1 /\ ~d.secure}
        /\ \E a \in Displays(desk.count), view \in BOOLEAN :
              /\ host = [active |-> a, list |-> desk.count, level |-> "full", view |-> view,
                         elevated |-> desk.grant]
              /\ th = [pc |-> "loop", active |-> a, list |-> desk.count, level |-> "full",
                       paused |-> ~view, enc |-> "none", held |-> <<>>, force |-> TRUE,
                       service |-> FALSE, use |-> FALSE, gap |-> FALSE]
        /\ ctl = IF desk.grant THEN <<[kind |-> "elevated", on |-> TRUE]>> ELSE <<>>
        /\ news = <<>> /\ src = FreshSource /\ lane = <<>> /\ arrived = NoPicture
        /\ depth \in Depths /\ stale = {} /\ asks = 0 /\ trouble = 0

-----------------------------------------------------------------------------
(* The host's session loop: messages of the viewer, orders of the owner, the adapter *)

Running == th.pc \in {"loop", "lost"}
Order(m) == ctl' = Append(ctl, m)
Ask == Running /\ asks < MaxAsks /\ asks' = asks + 1
       /\ UNCHANGED <<desk, news, th, src, lane, arrived, depth, stale, trouble>>

SelectDisplay(i) ==
    /\ Ask /\ host.view /\ i < host.list
    /\ host' = [host EXCEPT !.active = i, !.level = "full"]
    /\ Order([kind |-> "select", i |-> i])

SetQuality ==
    /\ Ask /\ host.view
    /\ host' = [host EXCEPT !.level = "full"]
    /\ Order([kind |-> "quality"])

RequestKeyframe == Ask /\ host.view /\ Order([kind |-> "keyframe"]) /\ UNCHANGED host

SetView == Ask /\ host' = [host EXCEPT !.view = ~@] /\ Order([kind |-> "pause", on |-> host.view])

\* The owner switches elevated control: begin may be refused by the service, and then
\* nothing changes; a grant that ended is never begun again.
SetElevated ==
    /\ Ask /\ (~host.elevated => desk.grant)
    /\ host' = [host EXCEPT !.elevated = ~@]
    /\ Order([kind |-> "elevated", on |-> ~host.elevated])

\* adapt_tick: the adapter moves, or the service ended the grant.
AdaptTick ==
    /\ Ask
    /\ \E l \in {"full", "low"} \ {host.level} :
          host' = [host EXCEPT !.level = l] /\ Order([kind |-> "target", level |-> l])

GrantLost ==
    /\ Running /\ host.elevated /\ ~desk.grant
    /\ host' = [host EXCEPT !.elevated = FALSE]
    /\ Order([kind |-> "elevated", on |-> FALSE])
    /\ UNCHANGED <<desk, news, th, src, lane, arrived, depth, stale, asks, trouble>>

\* VideoEvent::Displays: the loop takes the list and the active display over.
HearNews ==
    /\ news # <<>>
    /\ host' = [host EXCEPT !.list = Head(news).list, !.active = Head(news).active]
    /\ news' = Tail(news)
    /\ UNCHANGED <<desk, ctl, th, src, lane, arrived, depth, stale, asks, trouble>>

-----------------------------------------------------------------------------
(* The video thread empties its control channel before anything else. *)

Tell(list, active) == news' = Append(news, [list |-> list, active |-> active])
Owe == src' = [src EXCEPT !.owed = TRUE]

\* source.select: there must be such a display, and duplication must be possible.
Selected(i) ==
    /\ i < th.list /\ i < desk.count /\ ~desk.secure
    /\ th' = [th EXCEPT !.active = i, !.level = "full", !.enc = "none", !.held = <<>>, !.force = TRUE]
    /\ src' = FreshSource /\ Tell(th.list, i) /\ stale' = {}

\* It failed: the old capturer goes on, and nobody is told.
NotSelected(i) ==
    /\ i >= th.list \/ i >= desk.count \/ desk.secure
    /\ stale' = stale \cup {"display", "level"}
    /\ UNCHANGED <<th, src, news>>

\* Mutant: the display that was selected is not reported.
SelectQuiet(i) ==
    \/ /\ i < th.list /\ i < desk.count /\ ~desk.secure
       /\ th' = [th EXCEPT !.active = i, !.level = "full", !.enc = "none", !.held = <<>>, !.force = TRUE]
       /\ src' = FreshSource /\ stale' = {} /\ UNCHANGED news
    \/ NotSelected(i)
Select(i) == Selected(i) \/ NotSelected(i)

Quality ==
    /\ th' = [th EXCEPT !.level = "full", !.enc = "none", !.held = <<>>, !.force = TRUE]
    /\ stale' = stale \ {"level"} /\ UNCHANGED <<src, news>>

Keyframe == th' = [th EXCEPT !.force = TRUE] /\ Owe /\ UNCHANGED <<news, stale>>

Target(l) ==
    /\ th' = IF l # th.level
             THEN [th EXCEPT !.level = l, !.enc = "none", !.held = <<>>, !.force = TRUE] ELSE th
    /\ stale' = stale \ {"level"} /\ UNCHANGED <<src, news>>

Elevated(on) ==
    /\ th' = [th EXCEPT !.service = on, !.use = FALSE, !.force = TRUE]
    /\ Owe /\ UNCHANGED <<news, stale>>

Pause(on) ==
    /\ th' = [th EXCEPT !.paused = on, !.force = @ \/ ~on]
    /\ src' = [src EXCEPT !.owed = @ \/ ~on] /\ UNCHANGED <<news, stale>>

HandleCtl ==
    /\ th.pc = "loop" /\ ctl # <<>> /\ ctl' = Tail(ctl)
    /\ LET m == Head(ctl) IN
          \/ m.kind = "select" /\ Select(m.i)
          \/ m.kind = "quality" /\ Quality
          \/ m.kind = "keyframe" /\ Keyframe
          \/ m.kind = "target" /\ Target(m.level)
          \/ m.kind = "elevated" /\ Elevated(m.on)
          \/ m.kind = "pause" /\ Pause(m.on)
    /\ UNCHANGED <<desk, host, lane, arrived, depth, asks, trouble>>

-----------------------------------------------------------------------------
(* One turn of the loop.  What happens between two of its reads is a step of *)
(* another actor before or after the turn: the thread alone fills the lane.  *)

Turn == /\ th.pc = "loop" /\ ctl = <<>> /\ ~th.paused
        /\ UNCHANGED <<desk, host, ctl, arrived, depth, asks>>
Works == UNCHANGED trouble
Fails == trouble < MaxTrouble /\ trouble' = trouble + 1

\* Every 3 s.
CheckDisplays ==
    /\ Turn /\ Works /\ desk.count # th.list
    /\ th' = [th EXCEPT !.list = desk.count]
    /\ Tell(desk.count, th.active) /\ stale' = stale \ {"display"}
    /\ UNCHANGED <<src, lane>>

\* The last turn: run returns an error, the host loop hears of it and the session is over.
GiveUp == th' = [th EXCEPT !.pc = "failed"] /\ UNCHANGED <<news, src, lane, stale>>

\* make_encoder tries the wanted codec and then H.264.
NeedsEncoder == th.enc # th.level
MakeEncoder ==
    /\ Turn /\ NeedsEncoder
    /\ \/ /\ Works /\ Owe
          /\ th' = [th EXCEPT !.enc = th.level, !.held = <<>>, !.force = TRUE]
          /\ UNCHANGED <<news, lane, stale>>
       \/ Fails /\ GiveUp

\* A service that ended the grant answers no.
SecureInFront == desk.secure /\ desk.grant

\* Every 250 ms.
Probe ==
    /\ Turn /\ Works /\ ~NeedsEncoder
    /\ th.service /\ th.use # SecureInFront
    /\ th' = [th EXCEPT !.use = ~@, !.force = TRUE]
    /\ Owe /\ UNCHANGED <<news, lane, stale>>

\* Units of one encode: what was held back and the new picture, in order; the encoder
\* keeps at most depth of them.
Units(p) == Append(th.held, [pic |-> p, key |-> th.force])

\* try_send_video for each of them: the lane takes what it has room for, the rest is lost.
\* Mutant: a unit that the lane refused asks for nothing.
AfterRefusalNothing(refused) == FALSE
AfterRefusal(refused) == refused

Send(units, kept) ==
    LET n == Least(Len(units), LaneRoom - Len(lane))
        refused == n < Len(units)
        sent == [k \in 1..n |-> [pic |-> units[k].pic, key |-> units[k].key, gap |-> k = 1 /\ th.gap]]
    IN /\ lane' = lane \o sent
       /\ th' = [th EXCEPT !.held = kept, !.force = AfterRefusal(refused),
                           !.gap = IF units = <<>> THEN @ ELSE refused]

\* Mutant: a picture skipped because the network is behind is not asked for again.
SkipForGood(after) == src' = after
Skip(after) == src' = [after EXCEPT !.owed = TRUE]

\* A picture was captured; after is what the capturer keeps of it.
Handle(p, after) ==
    \/ /\ Len(lane) = LaneRoom                       \* video_congested
       /\ Works /\ Skip(after) /\ UNCHANGED <<th, lane>>
    \/ /\ Len(lane) < LaneRoom /\ Works
       /\ \E back \in 0..depth :
             LET u == Units(p)
                 n == IF Len(u) > back THEN Len(u) - back ELSE 0
             IN Send(SubSeq(u, 1, n), SubSeq(u, n + 1, Len(u)))
       /\ src' = after
    \/ /\ Len(lane) < LaneRoom /\ Fails              \* encode failed: restart the encoder
       /\ th' = [th EXCEPT !.enc = "none", !.held = <<>>, !.force = FALSE]
       /\ src' = after /\ UNCHANGED lane

\* What the service, or the capturer, gives.
Picture == [of |-> th.active, v |-> desk.pic]

\* The secure desktop is in front and the service gives its pictures.
ServicePicture ==
    /\ Turn /\ ~NeedsEncoder /\ th.use /\ SecureInFront
    /\ Handle(Picture, src)
    /\ UNCHANGED <<news, stale>>

\* Capturer::next: a change of the desktop, or the kept picture again if one is owed.
HasFrame == src.owed \/ src.kept # desk.pic
OwnPicture ==
    /\ Turn /\ ~NeedsEncoder /\ ~th.use /\ ~desk.secure /\ th.active < desk.count /\ HasFrame
    /\ Handle(Picture, [owed |-> FALSE, kept |-> desk.pic])
    /\ UNCHANGED <<news, stale>>

\* Duplication is lost: the secure desktop is in front, the display is gone, or the
\* desktop was switched for a moment.
Lost ==
    /\ Turn /\ ~NeedsEncoder /\ ~th.use
    /\ IF desk.secure \/ th.active >= desk.count THEN Works ELSE Fails
    /\ th' = IF th.service /\ SecureInFront
             THEN [th EXCEPT !.use = TRUE, !.force = TRUE]
             ELSE [th EXCEPT !.pc = "lost"]
    /\ UNCHANGED <<news, src, lane, stale>>

\* 250 ms later: a new source, a new list, the same display or the last one.  The secure
\* desktop cannot be duplicated: if it is still there the thread gives up.
Recover ==
    /\ th.pc = "lost" /\ UNCHANGED <<desk, host, ctl, arrived, depth, asks, trouble>>
    /\ \/ /\ ~desk.secure
          /\ LET a == Least(th.active, desk.count - 1)
             IN /\ th' = [th EXCEPT !.pc = "loop", !.list = desk.count, !.active = a,
                                    !.enc = "none", !.held = <<>>]
                /\ stale' = IF a # th.active \/ desk.count # th.list
                            THEN stale \cup {"display"} ELSE stale
          /\ src' = FreshSource /\ UNCHANGED <<news, lane>>
       \/ desk.secure /\ GiveUp

-----------------------------------------------------------------------------
(* The writer, the link and the viewer's reader: in order, nothing is lost. *)

Deliver ==
    /\ lane # <<>>
    /\ arrived' = Head(lane).pic /\ lane' = Tail(lane)
    /\ UNCHANGED <<desk, host, ctl, news, th, src, depth, stale, asks, trouble>>

(* The PC *)
Change(d) == /\ desk' = d
             /\ UNCHANGED <<host, ctl, news, th, src, lane, arrived, depth, stale, asks>>
Paint == desk.pic < MaxPics /\ Change([desk EXCEPT !.pic = @ + 1]) /\ UNCHANGED trouble
Plug == Fails /\ Change([desk EXCEPT !.count = 3 - @])
SecureDesktop == Change([desk EXCEPT !.secure = ~@]) /\ (IF desk.secure THEN Works ELSE Fails)
GrantEnds == desk.grant /\ Fails /\ Change([desk EXCEPT !.grant = FALSE])

Host == \/ \E i \in {0, 1} : SelectDisplay(i)
        \/ SetQuality \/ RequestKeyframe \/ SetView \/ SetElevated \/ AdaptTick
        \/ GrantLost \/ HearNews
Thread == \/ HandleCtl \/ CheckDisplays \/ MakeEncoder \/ Probe
          \/ ServicePicture \/ OwnPicture \/ Lost \/ Recover
Environment == Paint \/ Plug \/ SecureDesktop \/ GrantEnds

Next == Host \/ Thread \/ Deliver \/ Environment

Spec == Init /\ [][Next]_vars

-----------------------------------------------------------------------------
(* Properties *)

\* No picture in the lane refers to one that the lane refused: after a refusal the next
\* unit is a key picture; and what an encoder held back goes with it when it is replaced.
StreamIsWhole ==
    /\ \A k \in DOMAIN lane : lane[k].gap => lane[k].key
    /\ th.enc = "none" => th.held = <<>>

\* When no message is under way, the session loop and the thread agree on the displays,
\* the active one (the one input is mapped to), the target, the pause and the grant, but
\* for the two cases in which nobody is told: a switch that failed, and a capture that
\* was recovered on other displays.
HostKnows ==
    (Running /\ ctl = <<>> /\ news = <<>>) =>
        /\ "display" \notin stale => (host.active = th.active /\ host.list = th.list)
        /\ "level" \notin stale => host.level = th.level
        /\ th.paused = ~host.view
        /\ th.service = host.elevated

\* The last picture arrives: when the thread has nothing left to do and the lane is empty,
\* the viewer was given the desktop as it is, if the encoder holds nothing back.
Settled == /\ th.pc = "loop" /\ ctl = <<>> /\ lane = <<>> /\ ~th.paused /\ ~NeedsEncoder
           /\ ~th.use /\ ~src.owed /\ src.kept = desk.pic
LastPictureArrives == (Settled /\ depth = 0) => arrived = Picture
=============================================================================
