----------------------------- MODULE VideoView -----------------------------
(***************************************************************************)
(* The last stretch of a picture at the viewer: the session loop hands it  *)
(* to the shell, the shell to the window, the window to its decoder.  The  *)
(* window acknowledges what it took; with too many pictures on their way   *)
(* the shell drops deltas and asks the host for a key picture, at most     *)
(* once in 500 ms.  A decoder is configured at a key picture, which waits   *)
(* meanwhile; the pictures that follow do not.                             *)
(*                                                                         *)
(* The host is its promise, as VideoStream shows it: deltas in order, and  *)
(* a key picture for every request.  A delta refers to the picture before  *)
(* it, so what is dropped breaks the chain until the next key picture.     *)
(***************************************************************************)
EXTENDS Naturals, Sequences

CONSTANTS
    MaxInflight,  \* MAX_INFLIGHT_FRAMES (3)
    AckBatch,     \* acknowledgements that are sent together at the latest (4)
    LinkRoom,     \* bound: pictures between the host and the shell
    MaxDeltas,    \* bound: changes of the desktop
    MaxTrouble    \* bound: slow or failing decoders, other codecs, reloads, closed canvases

VARIABLES
    link,         \* pictures under way to the shell: "key" or "delta"
    wanted,       \* a request for a key picture is under way or at the host
    inflight,     \* AppState.inflight
    recent,       \* less than 500 ms since last_key_request
    torn,         \* history: the shell dropped the picture before the next one
    window,       \* pictures in the channel to the window, each with torn
    acks,         \* pictures the window took and did not acknowledge
    canvas,       \* a canvas is attached
    awaiting,     \* awaitingKey
    configured,   \* there is a decoder, and its state is "configured"
    configuring,  \* key pictures that wait for configure, each with: one was taken since
    chain,        \* history: "whole", or why what is decoded lacks its reference: "shed", "late"
    deltas, trouble

decoder == <<awaiting, configured, configuring, chain>>
vars == <<link, wanted, inflight, recent, torn, window, acks, canvas, decoder, deltas, trouble>>

Init == /\ link = <<"key">> /\ wanted = FALSE /\ inflight = 0 /\ recent = TRUE /\ torn = FALSE
        /\ window = <<>> /\ acks = 0 /\ canvas = TRUE /\ awaiting = TRUE /\ chain = "whole"
        /\ configured = FALSE /\ configuring = <<>> /\ deltas = 0 /\ trouble = 0

-----------------------------------------------------------------------------
(* The host *)

Delta == /\ deltas < MaxDeltas /\ Len(link) < LinkRoom
         /\ deltas' = deltas + 1 /\ link' = Append(link, "delta")
         /\ UNCHANGED <<wanted, inflight, recent, torn, window, acks, canvas, decoder, trouble>>

Key == /\ wanted /\ Len(link) < LinkRoom
       /\ wanted' = FALSE /\ link' = Append(link, "key")
       /\ UNCHANGED <<inflight, recent, torn, window, acks, canvas, decoder, deltas, trouble>>

-----------------------------------------------------------------------------
(* The shell: forward *)

Full == inflight >= MaxInflight

\* Shed load: drop a delta, and ask if the last request is old enough.
Sheddable(kind) == kind = "delta"

Shed == /\ torn' = TRUE
        /\ IF recent THEN UNCHANGED <<wanted, recent>> ELSE wanted' = TRUE /\ recent' = TRUE
        /\ UNCHANGED <<inflight, window>>

Pass(kind) == /\ window' = Append(window, [kind |-> kind, torn |-> torn])
              /\ inflight' = inflight + 1 /\ torn' = FALSE /\ UNCHANGED <<wanted, recent>>

Forward ==
    /\ link # <<>> /\ link' = Tail(link)
    /\ IF Full /\ Sheddable(Head(link)) THEN Shed ELSE Pass(Head(link))
    /\ UNCHANGED <<acks, canvas, decoder, deltas, trouble>>

HalfSecond == /\ recent /\ recent' = FALSE
              /\ UNCHANGED <<link, wanted, inflight, torn, window, acks, canvas, decoder, deltas, trouble>>

\* video_ack, saturating: after a reload the counter starts again at 0.
Ack == /\ acks > 0 /\ acks' = 0
       /\ inflight' = IF acks < inflight THEN inflight - acks ELSE 0
       /\ UNCHANGED <<link, wanted, recent, torn, window, canvas, decoder, deltas, trouble>>

-----------------------------------------------------------------------------
(* The window: onPacket *)

Trouble == trouble < MaxTrouble /\ trouble' = trouble + 1
NeedKeyframe == wanted' = TRUE

\* A picture is taken: those that wait for a decoder are no longer the latest.
Overtake == configuring' = [i \in DOMAIN configuring |-> TRUE]
Took == /\ window # <<>> /\ acks < AckBatch
        /\ window' = Tail(window) /\ acks' = acks + 1
        /\ UNCHANGED <<link, inflight, recent, torn, canvas, deltas>>
Next1 == Head(window)

NoCanvas == /\ ~canvas /\ Overtake /\ awaiting' = TRUE
            /\ UNCHANGED <<wanted, configured, chain, trouble>>

\* A key picture for the decoder that there is.
DecodeKey == /\ canvas /\ Next1.kind = "key" /\ configured /\ Overtake
             /\ awaiting' = FALSE /\ chain' = "whole" /\ UNCHANGED <<wanted, configured, trouble>>

\* Without one, or of another codec, it waits for configure; awaitingKey stays as it is.
AwaitDecoder == /\ canvas /\ Next1.kind = "key"
                /\ IF configured THEN Trouble ELSE UNCHANGED trouble
                /\ configuring' = Append([i \in DOMAIN configuring |-> TRUE], FALSE)
                /\ UNCHANGED <<wanted, awaiting, configured, chain>>

DropDelta == /\ canvas /\ Next1.kind = "delta" /\ (awaiting \/ ~configured)
             /\ Overtake /\ NeedKeyframe /\ UNCHANGED <<awaiting, configured, chain, trouble>>

DecoderIsBehind == /\ canvas /\ Next1.kind = "delta" /\ ~awaiting /\ configured /\ Trouble
                   /\ Overtake /\ awaiting' = TRUE /\ NeedKeyframe
                   /\ UNCHANGED <<configured, chain>>

DecodeDelta == /\ canvas /\ Next1.kind = "delta" /\ ~awaiting /\ configured /\ Overtake
               /\ chain' = IF Next1.torn THEN "shed" ELSE chain
               /\ UNCHANGED <<wanted, awaiting, configured, trouble>>

OnPacket == /\ Took
            /\ \/ NoCanvas \/ DecodeKey \/ AwaitDecoder \/ DropDelta
               \/ DecoderIsBehind \/ DecodeDelta

\* configure comes back, and the key picture that waited for it starts the new decoder.
Configured ==
    /\ configuring # <<>> /\ configuring' = Tail(configuring)
    /\ configured' = TRUE /\ awaiting' = FALSE /\ chain' = IF Head(configuring) THEN "late" ELSE "whole"
    /\ UNCHANGED <<link, wanted, inflight, recent, torn, window, acks, canvas, deltas, trouble>>

\* The codec is not supported: the picture is dropped, and the host is asked for H.264, whose
\* encoder begins with a key picture.
Unsupported ==
    /\ Trouble /\ configuring # <<>> /\ configuring' = Tail(configuring) /\ wanted' = TRUE
    /\ UNCHANGED <<link, inflight, recent, torn, window, acks, canvas, awaiting, configured, chain,
                   deltas>>

\* The decoder's error callback.
DecoderFails ==
    /\ Trouble /\ configured /\ configured' = FALSE /\ awaiting' = TRUE /\ NeedKeyframe
    /\ UNCHANGED <<link, inflight, recent, torn, window, acks, canvas, configuring, chain, deltas>>

Detach == /\ Trouble /\ canvas /\ canvas' = FALSE
          /\ UNCHANGED <<link, wanted, inflight, recent, torn, window, acks, decoder, deltas>>

\* Mutant: a canvas that is attached again shows what comes next.
AskOnAttachNot == UNCHANGED wanted
AskOnAttach == NeedKeyframe
Attach == /\ ~canvas /\ canvas' = TRUE
          /\ awaiting' = TRUE /\ AskOnAttach
          /\ UNCHANGED <<link, inflight, recent, torn, window, acks, configured, configuring, chain,
                         deltas, trouble>>

\* The page is loaded again: video_subscribe replaces the channel, a new pipeline
\* attaches its canvas.
Subscribe ==
    /\ Trouble
    /\ window' = <<>> /\ acks' = 0 /\ inflight' = 0
    /\ canvas' = TRUE /\ awaiting' = TRUE /\ NeedKeyframe /\ chain' = "whole"
    /\ configured' = FALSE /\ configuring' = <<>>
    /\ UNCHANGED <<link, recent, torn, deltas>>

Next == \/ Delta \/ Key \/ Forward \/ HalfSecond \/ Ack
        \/ OnPacket \/ Configured \/ Unsupported \/ DecoderFails
        \/ Detach \/ Attach \/ Subscribe

Spec == Init /\ [][Next]_vars

\* The host answers requests, the link delivers, the window takes pictures and sends its
\* acknowledgements after 40 ms, and isConfigSupported answers.
FairSpec == /\ Spec /\ WF_vars(Key) /\ WF_vars(Forward) /\ WF_vars(OnPacket) /\ WF_vars(Ack)
            /\ WF_vars(Configured)

-----------------------------------------------------------------------------
(* Properties *)

\* A window that waits for a key picture gets one, or its canvas is closed: what the shell
\* drops, and when it asks, never starves a decoder that cannot start, nor do other codecs,
\* failing decoders and pictures that overtake each other while one is configured.
DecoderStarts == awaiting ~> (~awaiting \/ ~canvas)

KeyUnderWay == wanted \/ "key" \in {link[i] : i \in DOMAIN link}
                      \/ "key" \in {window[i].kind : i \in DOMAIN window} \/ configuring # <<>>

\* lib.rs: the shell "sheds load and asks for a fresh keyframe": while the window decodes
\* pictures that lack what the shell dropped, a request or a key picture is under way.
SheddingAsks == chain = "shed" => KeyUnderWay

\* needKeyframe: "the stream needs a fresh keyframe (join, decoder overload or lost reference)":
\* also when a delta came while the decoder for its key picture was being configured.
LostReferenceAsks == canvas /\ chain = "late" => KeyUnderWay
=============================================================================
