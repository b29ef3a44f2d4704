----------------------------- MODULE Clipboard -----------------------------
(***************************************************************************)
(* The clipboards of the two PCs of a session.  Each side looks at its own *)
(* every 300 ms and sends what is new; what arrives is written to the      *)
(* clipboard and remembered, so that it is not sent back.  Texts go with   *)
(* the control lane, images with the bulk lane behind them.                *)
(*                                                                         *)
(* A content is a value, and the digests of the code are the values        *)
(* themselves.  A copy that the user makes between two calls of poll_local *)
(* is a copy before it and a second notification after it.                 *)
(***************************************************************************)
EXTENDS Naturals, Sequences

CONSTANTS
    Texts, Images,  \* what users copy
    Unsent,         \* the texts and images that are empty or exceed max_bytes
    Unwired,        \* those that exceed MAX_FRAME: the writer drops them
    Invalid,        \* texts that exceed MAX_TEXT: the reader of the other side refuses them
    MaxCopies,      \* bound: copies and notifications
    MaxTrouble      \* bound: writes that fail, switches

Sides == {"v", "h"}
Other(s) == IF s = "v" THEN "h" ELSE "v"
Contents == Texts \cup Images
Nothing == "nothing"

VARIABLES
    clip,           \* the clipboard: its content, and the side whose user copied it
    fresh,          \* its sequence number is not last_seq
    suppressed, lastSent,
    net,            \* what each side sent, in the order in which it was queued
    on,             \* the permission, at the viewer also the switch of the toolbar
    images,         \* SystemClipboard.images
    apart,          \* history: why the clipboards may differ since they last agreed
    botched,        \* history: sides whose clipboard refused a content
    over,           \* a reader closed the session
    copies, trouble

bounds == <<copies, trouble>>
vars == <<clip, fresh, suppressed, lastSent, net, on, images, apart, botched, over, bounds>>

\* ClipboardSync::new: what is in a clipboard when the session starts is not sent.
Init == /\ clip \in [Sides -> {[what |-> c, by |-> s] : c \in {Nothing} \cup Contents, s \in Sides}]
        /\ \A s \in Sides : clip[s].by = s
        /\ fresh = [s \in Sides |-> FALSE] /\ on = [s \in Sides |-> TRUE]
        /\ suppressed = [s \in Sides |-> Nothing] /\ lastSent = [s \in Sides |-> Nothing]
        /\ net = [s \in Sides |-> <<>>] /\ images \in [Sides -> BOOLEAN]
        /\ apart = {"start"} /\ botched = {} /\ over = FALSE /\ copies = 0 /\ trouble = 0

Trouble == trouble < MaxTrouble /\ trouble' = trouble + 1 /\ UNCHANGED copies

-----------------------------------------------------------------------------
(* The users *)

Copied == copies < MaxCopies /\ copies' = copies + 1 /\ UNCHANGED trouble

Copy(s, c) == /\ Copied /\ clip' = [clip EXCEPT ![s] = [what |-> c, by |-> s]]
              /\ fresh' = [fresh EXCEPT ![s] = TRUE]
              /\ UNCHANGED <<suppressed, lastSent, net, on, images, apart, botched, over>>

\* The number rises once more for the same content.
Again(s) == /\ Copied /\ ~fresh[s] /\ fresh' = [fresh EXCEPT ![s] = TRUE]
            /\ UNCHANGED <<clip, suppressed, lastSent, net, on, images, apart, botched, over>>

Switch(s) == /\ Trouble /\ on' = [on EXCEPT ![s] = ~@]
             /\ UNCHANGED <<clip, fresh, suppressed, lastSent, net, images, apart, botched, over>>

-----------------------------------------------------------------------------
(* clip_tick: poll_local *)

\* SystemClipboard::read gives an image only if images are synchronised.
Readable(s, c) == c \in Texts \/ (c \in Images /\ images[s])

Poll(s) ==
    LET c == clip[s].what IN
    /\ on[s] /\ fresh[s] /\ fresh' = [fresh EXCEPT ![s] = FALSE]
    /\ \/ /\ ~Readable(s, c) \/ c \in Unsent
          /\ apart' = apart \cup {"unsent"} /\ UNCHANGED <<suppressed, lastSent, net>>
       \/ /\ Readable(s, c) /\ c \notin Unsent /\ c = suppressed[s]
          /\ suppressed' = [suppressed EXCEPT ![s] = Nothing]
          /\ apart' = IF lastSent[s] = c THEN apart ELSE apart \cup {"swallowed"}
          /\ UNCHANGED <<lastSent, net>>
       \/ /\ Readable(s, c) /\ c \notin Unsent /\ c # suppressed[s] /\ c # lastSent[s]
          /\ lastSent' = [lastSent EXCEPT ![s] = c]
          /\ IF c \in Unwired
             THEN apart' = apart \cup {"dropped"} /\ UNCHANGED net
             ELSE net' = [net EXCEPT ![s] = Append(@, clip[s])] /\ UNCHANGED apart
          /\ UNCHANGED suppressed
       \/ /\ Readable(s, c) /\ c \notin Unsent /\ c # suppressed[s] /\ c = lastSent[s]
          /\ UNCHANGED <<suppressed, lastSent, net, apart>>
    /\ UNCHANGED <<clip, on, images, botched, over, bounds>>

-----------------------------------------------------------------------------
(* Msg::Clipboard: apply_remote *)

\* The next message, or a text that the writer took before the images queued ahead of it.
Deliverable(s) ==
    {i \in DOMAIN net[s] : i = 1 \/ (net[s][i].what \in Texts
                                     /\ \A j \in 1..(i - 1) : net[s][j].what \in Images)}
Take(s, i) == net' = [net EXCEPT ![s] = SubSeq(@, 1, i - 1) \o SubSeq(@, i + 1, Len(@))]

Ignored(s, i) ==
    /\ ~on[Other(s)] /\ net[s][i].what \notin Invalid /\ Take(s, i) /\ apart' = apart \cup {"ignored"}
    /\ UNCHANGED <<clip, fresh, suppressed, lastSent, on, images, botched, over, bounds>>

\* What apply_remote remembers before it writes.
\* Mutant: it does not count as the last content that the two exchanged.
RememberSuppressed(t, c) == suppressed' = [suppressed EXCEPT ![t] = c] /\ UNCHANGED lastSent
Remember(t, c) == /\ suppressed' = [suppressed EXCEPT ![t] = c]
                  /\ lastSent' = [lastSent EXCEPT ![t] = c]

\* History: t has what s has, or has not yet sent.
Agreed(s, m) == /\ net[Other(s)] = <<>> /\ Len(net[s]) = 1 /\ lastSent[s] = m.what
                /\ fresh[s] \/ clip[s].what = m.what

Applied(s, i) ==
    LET t == Other(s)
        m == net[s][i]
    IN /\ on[t] /\ m.what \notin Invalid /\ Take(s, i) /\ Remember(t, m.what)
       /\ \/ /\ Readable(t, m.what) /\ fresh' = [fresh EXCEPT ![t] = FALSE]
             /\ \/ /\ clip' = [clip EXCEPT ![t] = m] /\ UNCHANGED bounds
                   /\ apart' = IF Agreed(s, m) THEN {}
                               ELSE apart \cup (IF i > 1 THEN {"overtaken"} ELSE {})
                                          \cup (IF net[t] # <<>> THEN {"crossed"} ELSE {})
                \/ /\ Copied                     \* before the number is read again
                   /\ \E c \in Contents : clip' = [clip EXCEPT ![t] = [what |-> c, by |-> t]]
                   /\ apart' = apart \cup {"missed"}
             /\ UNCHANGED botched
          \/ /\ IF Readable(t, m.what) THEN Trouble ELSE UNCHANGED bounds
             /\ botched' = botched \cup {t} /\ apart' = apart \cup {"failed"}
             /\ UNCHANGED <<clip, fresh>>
       /\ UNCHANGED <<on, images, over>>

\* "invalid message from peer, closing session", before anybody looks at the permission.
Refused(s, i) ==
    /\ net[s][i].what \in Invalid /\ over' = TRUE
    /\ UNCHANGED <<clip, fresh, suppressed, lastSent, net, on, images, apart, botched, bounds>>

Receive(s) == \E i \in Deliverable(s) : Ignored(s, i) \/ Applied(s, i) \/ Refused(s, i)

Next == /\ ~over
        /\ \E s \in Sides : \/ \E c \in Contents : Copy(s, c)
                            \/ Again(s) \/ Switch(s) \/ Poll(s) \/ Receive(s)

Spec == Init /\ [][Next]_vars

-----------------------------------------------------------------------------
(* Properties *)

\* clipboard.rs, "Loop prevention": what is under way was copied by a user of the side that
\* sent it, never by the one it goes to, unless a clipboard had refused a content.
NoEcho == \A s \in Sides \ botched : \A i \in DOMAIN net[s] : net[s][i].by = s

\* When nothing is under way and nothing is new, both clipboards hold the same, but for
\* the reasons in "apart" since they last agreed.
Quiet == \A s \in Sides : on[s] /\ ~fresh[s] /\ net[s] = <<>>
ClipboardsAgree == (Quiet /\ apart = {}) => clip["v"].what = clip["h"].what

\* clipboard.rs, the test remote_update_does_not_echo: "A later genuine local copy still
\* flows".
LaterCopyFlows == "swallowed" \notin apart

\* README.md, "Clipboard synchronisation for text and images": a copy does not end the session.
CopyKeepsSession == ~over
=============================================================================
