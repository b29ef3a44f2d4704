---------------------------- MODULE Adaptation -----------------------------
(***************************************************************************)
(* The adapter of a session's picture quality: one sample of the link each *)
(* second, a quick cut when it is congested, a slow recovery when it is    *)
(* clean.  The numbers are those of the code (kbit/s, frames per second,   *)
(* percent); a sample is only what update makes of it, so the smoothed     *)
(* round trip and its thresholds are left out.                             *)
(***************************************************************************)
EXTENDS Naturals, Sequences

CONSTANTS
    Qualities,    \* the settings asked for: preset, fps, bitrate, height (0: automatic)
    Width, Height \* of the display

FPS_STEPS == <<60, 30, 15>>
SCALE_STEPS == <<100, 75, 50, 33>>

VARIABLES
    q,            \* the settings
    bitrate, fps, scale,   \* the two latter as positions in their steps
    streak,       \* good_streak
    hold,         \* seconds since the last change, 5 standing for more
    clear         \* from now on every sample is clean

vars == <<q, bitrate, fps, scale, streak, hold, clear>>

Greater(m, n) == IF m > n THEN m ELSE n
Lesser(m, n) == IF m < n THEN m ELSE n

\* Thousandths of a bit per pixel.
preset_bpp(p) == CASE p \in {"auto", "latency"} -> 40 [] p = "balanced" -> 60
                   [] p = "best" -> 100 [] p = "low" -> 15

StartFps(x) == LET cap == IF x.fps > 0 THEN x.fps ELSE IF x.preset = "low" THEN 30 ELSE 60
                   fit == {i \in DOMAIN FPS_STEPS : FPS_STEPS[i] <= cap}
               IN IF fit = {} THEN Len(FPS_STEPS) ELSE CHOOSE i \in fit : \A j \in fit : i <= j

\* Adapter::new: the budget for the pixels that are sent.
Pixels(x) ==
    LET Scaled(h) == (Width * h * h) \div Height
    IN IF x.height > 0 /\ x.height < Height THEN Scaled(x.height)
       ELSE IF x.preset = "low" /\ Height > 720 THEN Scaled(720)
       ELSE Width * Height
Ideal(x) == (((Pixels(x) * FPS_STEPS[StartFps(x)]) \div 100) * preset_bpp(x.preset)) \div 10000
MaxBitrate(x) == IF x.bitrate > 0 THEN x.bitrate ELSE Greater(500, Lesser(60000, Ideal(x)))
MinBitrate(x) == Greater(MaxBitrate(x) \div 8, 300)

AutoBitrate(x) == x.bitrate = 0
AutoFps(x) == x.fps = 0 /\ x.preset # "best"
AutoScale(x) == x.height = 0

Init == /\ q \in Qualities
        /\ bitrate = MaxBitrate(q) /\ fps = StartFps(q) /\ scale = 1
        /\ streak = 0 /\ hold = 0 /\ clear = FALSE

-----------------------------------------------------------------------------

\* max_bitrate_for_scale: a lower resolution needs proportionally fewer bits.
ForScale(s) == Lesser(bitrate, Greater((MaxBitrate(q) * SCALE_STEPS[s] * SCALE_STEPS[s]) \div 10000,
                                       MinBitrate(q)))

CutBitrate == bitrate' = Greater((bitrate * 3) \div 4, MinBitrate(q)) /\ UNCHANGED <<fps, scale>>
CutFps == fps' = fps + 1 /\ bitrate' = Greater(bitrate, MinBitrate(q)) /\ UNCHANGED scale
CutScale == scale' = scale + 1 /\ bitrate' = ForScale(scale + 1) /\ UNCHANGED fps
NoCut == UNCHANGED <<bitrate, fps, scale>>

Degrade == IF AutoBitrate(q) /\ bitrate > MinBitrate(q) THEN CutBitrate
           ELSE IF AutoFps(q) /\ fps < Len(FPS_STEPS) THEN CutFps
           ELSE IF AutoScale(q) /\ scale < Len(SCALE_STEPS) THEN CutScale
           ELSE NoCut

\* bitrate * 1.15 in floating point: a whole product may come out just below.
Grown == LET p == bitrate * 115
         IN {p \div 100} \cup (IF p % 100 = 0 THEN {p \div 100 - 1} ELSE {})

RaiseScale == scale' = scale - 1 /\ bitrate' = ForScale(scale - 1) /\ UNCHANGED fps
RaiseFps == fps' = fps - 1 /\ UNCHANGED <<bitrate, scale>>
RaiseBitrate == /\ \E g \in Grown : bitrate' = Lesser(g, MaxBitrate(q))
                /\ UNCHANGED <<fps, scale>>

\* Mutant: the bitrate is forgotten.
ImproveNoBitrate == IF scale > 1 /\ AutoScale(q) THEN RaiseScale
                    ELSE IF fps > 1 /\ AutoFps(q) /\ bitrate >= 2 * MinBitrate(q) THEN RaiseFps
                    ELSE NoCut
Improve == IF scale > 1 /\ AutoScale(q) THEN RaiseScale
           ELSE IF fps > 1 /\ AutoFps(q) /\ bitrate >= 2 * MinBitrate(q) THEN RaiseFps
           ELSE IF AutoBitrate(q) /\ bitrate < MaxBitrate(q) THEN RaiseBitrate
           ELSE NoCut

Changed == bitrate' # bitrate \/ fps' # fps \/ scale' # scale
Clock(s) == /\ streak' = s
            /\ hold' = IF Changed THEN 0 ELSE Lesser(hold + 1, 5)
            /\ UNCHANGED <<q, clear>>

\* update, one second after the last; 1.5 s are two of them.
Congested == /\ ~clear
             /\ IF hold + 1 >= 2 THEN Degrade /\ Clock(0) ELSE NoCut /\ Clock(0)
Clean == IF streak + 1 >= 6 /\ hold + 1 >= 5 THEN Improve /\ Clock(3)
         ELSE NoCut /\ Clock(Lesser(streak + 1, 6))
Neither == ~clear /\ NoCut /\ Clock(0)

LinkClears == ~clear /\ clear' = TRUE /\ UNCHANGED <<q, bitrate, fps, scale, streak, hold>>

Next == Congested \/ Clean \/ Neither \/ LinkClears

Spec == Init /\ [][Next]_vars

\* The session loop takes a sample every second.
FairSpec == Spec /\ WF_vars(Clean)

-----------------------------------------------------------------------------
(* Properties *)

\* On a link that stays clean the picture comes back to where it began (the test in
\* adapt.rs: "should fully recover on a clean link").
Full == bitrate = MaxBitrate(q) /\ fps = StartFps(q) /\ scale = 1
Recovers == []<>(clear => Full)

\* ARCHITECTURE.md: "manual FPS/bitrate/resolution pin that dimension".
ManualIsPinned == /\ q.bitrate > 0 => bitrate = q.bitrate
                  /\ q.fps > 0 => fps = StartFps(q)
                  /\ q.height > 0 => scale = 1
=============================================================================
