--------------------------- MODULE InputPipeline ---------------------------
(***************************************************************************)
(* The path of one input event through a session: viewer_command and       *)
(* SecureTx::send_input on the viewer, the writer task of secure::spawn,   *)
(* the ordered link, the reader task of the host, and the host's input     *)
(* thread, together with the session loop of host::run where it touches    *)
(* that thread (permissions, displays, teardown).                          *)
(*                                                                         *)
(* Every task and thread is a process with a program counter of its own;   *)
(* the slot lock, the channels and the atomics are the points where they   *)
(* interleave.  A position is known by the sequence number of the move     *)
(* that carried it.  Video and bulk units, encryption and the elevated     *)
(* injector are not in this module.                                        *)
(***************************************************************************)
EXTENDS Naturals, Sequences, FiniteSets

CONSTANTS
    Keys,          \* keyboard keys the viewer presses
    Buttons,       \* mouse buttons the viewer presses
    NoItem,        \* "no item": an empty slot, no item in hand
    LinkCap,       \* frames the link buffers (OUT_DEPTH and the network)
    MaxDisplays,   \* displays the host may have
    MaxSeq,        \* bound: events the viewer makes
    MaxOther,      \* bound: other control messages the viewer sends
    MaxChanges     \* bound: permission and display changes on the host

Holds  == Keys \cup Buttons
Events == [kind : {"move", "releaseAll"}] \cup [kind : {"down", "up"}, hold : Holds]

\* InboundInput / Queued: an event and its stamp.  Stamps start at 1; 0 marks what
\* has none: other control messages, and the ReleaseAll the host makes itself.
Other  == [seq |-> 0, ev |-> [kind |-> "other"]]
Items  == [seq : Nat, ev : Events] \cup {Other}
Perms  == [mouse : BOOLEAN, keyboard : BOOLEAN]

ASSUME HoldsAssumption == Keys \cap Buttons = {}
ASSUME LinkCapAssumption == LinkCap \in Nat \ {0}
ASSUME DisplaysAssumption == MaxDisplays \in Nat \ {0}
ASSUME BoundsAssumption == MaxSeq \in Nat /\ MaxOther \in Nat /\ MaxChanges \in Nat
ASSUME NoItemAssumption == NoItem \notin Items

VARIABLES
    log,       \* history: the events made so far; the n-th was stamped n
    slot,      \* SecureTx.pending_move
    sending,   \* the item send_input still has to send while it holds the slot lock
    notifying, \* send_input has filled the slot, let go of it and still has to notify
    ctl,       \* the unbounded control channel
    wake,      \* permits stored in the Notify: 0 or 1
    others,    \* number of other control messages sent
    wpc,       \* writer task: where it is
    queue,     \* writer task: its local control queue
    link,      \* frames between the two machines, in order
    conn,      \* the connection between the machines: up or down
    route,     \* the channel from the reader to the input thread
    hpc,       \* input thread: where it is
    batch,     \* input thread: what is left of the batch it took
    cur,       \* input thread: the event it is applying
    lastMove,  \* input thread: last_move_seq
    handled,   \* history: stamps of the non-movement events it took over
    held,      \* keys and buttons the injector holds down
    spc,       \* session loop: where it is; InputThread.stop is set from "finish" on
    change,    \* session loop: the rest of the change it is making
    perms,     \* InputShared.mouse and .keyboard
    displays,  \* InputShared.displays: how many
    active,    \* InputShared.active
    changes    \* number of changes made

viewerVars  == <<log, slot, sending, notifying, others>>
writerVars  == <<wpc, queue>>
threadVars  == <<hpc, batch, cur, lastMove, handled, held>>
sessionVars == <<spc, change, perms, displays, active, changes>>
vars == <<viewerVars, ctl, wake, writerVars, link, conn, route, threadVars, sessionVars>>

-----------------------------------------------------------------------------
Up == conn = "up"
Stop == spc \in {"finish", "over"}

IsMove(it)  == it.ev.kind = "move"
IsMouse(e)  == e.kind = "move" \/ (e.kind \in {"down", "up"} /\ e.hold \in Buttons)
IsKeyboard(e) == e.kind \in {"down", "up"} /\ e.hold \in Keys
HostRelease == [seq |-> 0, ev |-> [kind |-> "releaseAll"]]

\* Permission for an event: mouse, keyboard, and always for ReleaseAll.
Allowed(e, p) == \/ IsMouse(e) /\ p.mouse
                 \/ IsKeyboard(e) /\ p.keyboard
                 \/ e.kind = "releaseAll"

\* Mutant: nothing is coalesced in the writer's queue.
PushCtlAppends(q, it) == Append(q, it)

\* A movement replaces the movement at the back of the queue.
PushCtl(q, it) ==
    IF IsMove(it) /\ q # <<>> /\ IsMove(q[Len(q)])
    THEN [q EXCEPT ![Len(q)] = it]
    ELSE Append(q, it)

Init ==
    /\ log = <<>> /\ slot = NoItem /\ sending = NoItem /\ notifying = FALSE
    /\ others = 0
    /\ ctl = <<>> /\ wake = 0
    /\ wpc = "gather" /\ queue = <<>>
    /\ link = <<>> /\ conn = "up" /\ route = <<>>
    /\ hpc = "recv" /\ batch = <<>> /\ cur = NoItem /\ lastMove = 0
    /\ handled = <<>> /\ held = {}
    /\ spc = "run" /\ change = [keyboard |-> FALSE, active |-> 0]
    /\ perms = [mouse |-> TRUE, keyboard |-> TRUE] /\ displays = MaxDisplays /\ active = 0
    /\ changes = 0

-----------------------------------------------------------------------------
(* Viewer: the command handler, holding the viewers lock *)

\* The command handler is in no other send_input: it holds the viewers lock.
Idle == sending = NoItem /\ ~notifying

\* send_input of a movement, first half: stamp, replace what is in the slot, and let
\* go of the slot lock.
SendMove ==
    /\ Len(log) < MaxSeq /\ Idle
    /\ log' = Append(log, [kind |-> "move"])
    /\ slot' = [seq |-> Len(log) + 1, ev |-> [kind |-> "move"]]
    /\ notifying' = TRUE
    /\ UNCHANGED <<sending, others, ctl, wake, writerVars, link, conn, route, threadVars,
                   sessionVars>>

\* Mutant: notify_waiters, which leaves no permit for a writer that is not waiting yet.
NotifyWaiters ==
    /\ notifying
    /\ wake' = IF wpc = "wait" THEN 1 ELSE wake
    /\ notifying' = FALSE
    /\ UNCHANGED <<log, slot, sending, others, ctl, writerVars, link, conn, route, threadVars,
                   sessionVars>>

\* Second half, without the lock: notify_one stores a permit.  The writer may have
\* taken the slot by now, or be about to look at it, or wait.
Notify ==
    /\ notifying
    /\ wake' = 1
    /\ notifying' = FALSE
    /\ UNCHANGED <<log, slot, sending, others, ctl, writerVars, link, conn, route, threadVars,
                   sessionVars>>

\* send_input of anything else, first half: stamp, take the slot lock, move the
\* pending position to the control channel.
SendEvent(e) ==
    /\ Len(log) < MaxSeq /\ Idle /\ e.kind # "move"
    /\ log' = Append(log, e)
    /\ sending' = [seq |-> Len(log) + 1, ev |-> e]
    /\ ctl' = IF slot = NoItem THEN ctl ELSE Append(ctl, slot)
    /\ slot' = NoItem
    /\ UNCHANGED <<notifying, others, wake, writerVars, link, conn, route, threadVars,
                   sessionVars>>

\* Second half: the event itself, then the lock is released.
SendEventItem ==
    /\ sending # NoItem
    /\ ctl' = Append(ctl, sending)
    /\ sending' = NoItem
    /\ UNCHANGED <<log, slot, notifying, others, wake, writerVars, link, conn, route,
                   threadVars, sessionVars>>

\* SecureTx::send of any other control message (chat, ping, display choice).
SendOther ==
    /\ others < MaxOther
    /\ ctl' = Append(ctl, Other)
    /\ others' = others + 1
    /\ UNCHANGED <<log, slot, sending, notifying, wake, writerVars, link, conn, route,
                   threadVars, sessionVars>>

-----------------------------------------------------------------------------
(* Viewer: the writer task *)

\* while let Ok(m) = ctl_rx.try_recv() { push_ctl(..) }, before and after reserve.
Drain ==
    /\ wpc \in {"gather", "regather"} /\ ctl # <<>>
    /\ queue' = PushCtl(queue, Head(ctl))
    /\ ctl' = Tail(ctl)
    /\ UNCHANGED <<viewerVars, wake, wpc, link, conn, route, threadVars, sessionVars>>

DrainDone ==
    /\ wpc \in {"gather", "regather"} /\ ctl = <<>>
    /\ wpc' = IF wpc = "gather" THEN "slot" ELSE "reslot"
    /\ UNCHANGED <<viewerVars, ctl, wake, queue, link, conn, route, threadVars, sessionVars>>

\* take_slot: waits for the slot lock.
TakeSlot ==
    /\ wpc \in {"slot", "reslot"} /\ sending = NoItem
    /\ queue' = IF slot = NoItem THEN queue ELSE PushCtl(queue, slot)
    /\ slot' = NoItem
    /\ wpc' = IF wpc = "reslot" THEN "send" ELSE IF queue' = <<>> THEN "select" ELSE "reserve"
    /\ UNCHANGED <<log, sending, notifying, others, ctl, wake, link, conn, route, threadVars,
                   sessionVars>>

\* select! finds nothing to do and registers with the channel and the Notify.
Poll ==
    /\ wpc = "select" /\ ctl = <<>> /\ wake = 0
    /\ wpc' = "wait"
    /\ UNCHANGED <<viewerVars, ctl, wake, queue, link, conn, route, threadVars, sessionVars>>

\* select!, biased: a control message first, then the wake permit.  The hourly
\* timer is left out: nothing may depend on it.
WaitCtl ==
    /\ wpc \in {"select", "wait"} /\ ctl # <<>>
    /\ queue' = PushCtl(queue, Head(ctl))
    /\ ctl' = Tail(ctl)
    /\ wpc' = "gather"
    /\ UNCHANGED <<viewerVars, wake, link, conn, route, threadVars, sessionVars>>

WaitWake ==
    /\ wpc \in {"select", "wait"} /\ ctl = <<>> /\ wake = 1
    /\ wake' = 0
    /\ wpc' = "gather"
    /\ UNCHANGED <<viewerVars, ctl, queue, link, conn, route, threadVars, sessionVars>>

Reserve ==
    /\ wpc = "reserve" /\ Up /\ Len(link) < LinkCap
    /\ wpc' = "regather"
    /\ UNCHANGED <<viewerVars, ctl, wake, queue, link, conn, route, threadVars, sessionVars>>

Transmit ==
    /\ wpc = "send" /\ Up /\ queue # <<>>
    /\ link' = Append(link, Head(queue))
    /\ queue' = Tail(queue)
    /\ wpc' = "gather"
    /\ UNCHANGED <<viewerVars, ctl, wake, conn, route, threadVars, sessionVars>>

Writer == Drain \/ DrainDone \/ TakeSlot \/ Poll \/ WaitCtl \/ WaitWake \/ Reserve \/ Transmit

-----------------------------------------------------------------------------
(* The connection, and the reader task of the host *)

LinkLost ==
    /\ Up
    /\ conn' = "down"
    /\ UNCHANGED <<viewerVars, ctl, wake, writerVars, link, route, threadVars, sessionVars>>

\* An input event goes to the input route; anything else to the session loop.
\* Once the thread is gone the route is closed and the reader ends.
Deliver ==
    /\ Up /\ link # <<>> /\ spc # "over"
    /\ link' = Tail(link)
    /\ \/ Head(link) = Other /\ UNCHANGED <<route, conn>>
       \/ /\ Head(link) # Other /\ hpc # "exited"
          /\ route' = Append(route, Head(link)) /\ UNCHANGED conn
       \/ /\ Head(link) # Other /\ hpc = "exited"
          /\ conn' = "down" /\ UNCHANGED route
    /\ UNCHANGED <<viewerVars, ctl, wake, writerVars, threadVars, sessionVars>>

-----------------------------------------------------------------------------
(* Host: the input thread *)

\* recv_timeout returned an event; try_recv takes the rest of the backlog.
Recv ==
    /\ hpc = "recv" /\ route # <<>>
    /\ batch' = route /\ route' = <<>>
    /\ hpc' = "loop"
    /\ UNCHANGED <<viewerVars, ctl, wake, writerVars, link, conn, cur, lastMove,
                   handled, held, sessionVars>>

\* Nothing for 50 ms.
Timeout ==
    /\ hpc = "recv" /\ route = <<>>
    /\ hpc' = "timeout"
    /\ UNCHANGED <<viewerVars, ctl, wake, writerVars, link, conn, route, batch, cur,
                   lastMove, handled, held, sessionVars>>

\* Mutant: the thread leaves without releasing.
CheckStopHolding ==
    /\ hpc = "timeout"
    /\ hpc' = IF Stop THEN "exited" ELSE "recv"
    /\ UNCHANGED <<viewerVars, ctl, wake, writerVars, link, conn, route, batch, cur,
                   lastMove, handled, held, sessionVars>>

\* Only now is the stop flag looked at; on the way out everything held is released.
CheckStop ==
    /\ hpc = "timeout"
    /\ hpc' = IF Stop THEN "exited" ELSE "recv"
    /\ held' = IF Stop THEN {} ELSE held
    /\ UNCHANGED <<viewerVars, ctl, wake, writerVars, link, conn, route, batch, cur,
                   lastMove, handled, sessionVars>>

\* Mutant: whatever a movement follows is dropped.
SupersededByMove == Len(batch) > 1 /\ IsMove(batch[2])

\* coalesce_moves: of movements that follow each other in a batch only the last
\* stays; and a movement older than one already applied is dropped.
Superseded == IsMove(Head(batch)) /\ Len(batch) > 1 /\ IsMove(batch[2])
Stale == IsMove(Head(batch)) /\ Head(batch).seq < lastMove

\* The next event of the batch: dropped, refused or about to be applied.
NextItem ==
    LET it == Head(batch) IN
    /\ hpc = "loop" /\ batch # <<>>
    /\ batch' = Tail(batch)
    /\ IF Superseded \/ Stale
       THEN UNCHANGED <<hpc, cur, lastMove, handled>>
       ELSE /\ lastMove' = IF IsMove(it) THEN it.seq ELSE lastMove
            /\ handled' = IF IsMove(it) \/ it.seq = 0 THEN handled
                          ELSE Append(handled, it.seq)
            /\ IF Allowed(it.ev, perms)
               THEN cur' = it /\ hpc' = "apply"
               ELSE UNCHANGED <<cur, hpc>>
    /\ UNCHANGED <<viewerVars, ctl, wake, writerVars, link, conn, route, held, sessionVars>>

\* The injector's bookkeeping.  Without a display only ReleaseAll has an effect.
HeldAfter(e, h) ==
    CASE e.kind = "releaseAll" -> {}
      [] e.kind = "down" /\ active < displays -> h \cup {e.hold}
      [] e.kind = "up" /\ active < displays -> h \ {e.hold}
      [] OTHER -> h

Apply ==
    /\ hpc = "apply"
    /\ held' = HeldAfter(cur.ev, held)
    /\ cur' = NoItem
    /\ hpc' = "loop"
    /\ UNCHANGED <<viewerVars, ctl, wake, writerVars, link, conn, route, batch,
                   lastMove, handled, sessionVars>>

BatchDone ==
    /\ hpc = "loop" /\ batch = <<>>
    /\ hpc' = "recv"
    /\ UNCHANGED <<viewerVars, ctl, wake, writerVars, link, conn, route, batch, cur,
                   lastMove, handled, held, sessionVars>>

InputThread == Recv \/ Timeout \/ CheckStop \/ NextItem \/ Apply \/ BatchDone

-----------------------------------------------------------------------------
(* Host: the session loop, where it touches the input thread *)

\* Mutant: only taking the mouse away releases.
SetPermissionsMouseOnly(new) ==
    /\ spc = "run" /\ changes < MaxChanges /\ new # perms
    /\ changes' = changes + 1
    /\ perms' = [perms EXCEPT !.mouse = new.mouse]
    /\ change' = [change EXCEPT !.keyboard = new.keyboard]
    /\ spc' = IF perms.mouse /\ ~new.mouse THEN "revoke" ELSE "grant"
    /\ UNCHANGED <<viewerVars, ctl, wake, writerVars, link, conn, route, threadVars,
                   displays, active>>

\* HostCmd::SetPermissions: the mouse flag, then the keyboard flag, then, if input
\* was taken away, a ReleaseAll through the input route.
SetPermissions(new) ==
    /\ spc = "run" /\ changes < MaxChanges /\ new # perms
    /\ changes' = changes + 1
    /\ perms' = [perms EXCEPT !.mouse = new.mouse]
    /\ change' = [change EXCEPT !.keyboard = new.keyboard]
    /\ spc' = IF (perms.mouse /\ ~new.mouse) \/ (perms.keyboard /\ ~new.keyboard)
              THEN "revoke" ELSE "grant"
    /\ UNCHANGED <<viewerVars, ctl, wake, writerVars, link, conn, route, threadVars,
                   displays, active>>

StoreKeyboard ==
    /\ spc \in {"revoke", "grant"}
    /\ perms' = [perms EXCEPT !.keyboard = change.keyboard]
    /\ spc' = IF spc = "revoke" THEN "release" ELSE "run"
    /\ UNCHANGED <<viewerVars, ctl, wake, writerVars, link, conn, route, threadVars,
                   change, displays, active, changes>>

RouteRelease ==
    /\ spc = "release"
    /\ route' = Append(route, HostRelease)
    /\ spc' = "run"
    /\ UNCHANGED <<viewerVars, ctl, wake, writerVars, link, conn, threadVars,
                   change, perms, displays, active, changes>>

\* VideoEvent::Displays: the list, then the index.  The capture thread reports the
\* index of the monitor it captures beside a list that may no longer have it.
SetDisplays(n, a) ==
    /\ spc = "run" /\ changes < MaxChanges
    /\ changes' = changes + 1
    /\ displays' = n
    /\ change' = [change EXCEPT !.active = a]
    /\ spc' = "active"
    /\ UNCHANGED <<viewerVars, ctl, wake, writerVars, link, conn, route, threadVars,
                   perms, active>>

StoreActive ==
    /\ spc = "active"
    /\ active' = change.active
    /\ spc' = "run"
    /\ UNCHANGED <<viewerVars, ctl, wake, writerVars, link, conn, route, threadVars,
                   change, perms, displays, changes>>

\* Msg::SelectDisplay: the index alone, checked against the session's own list.
SelectDisplay(i) ==
    /\ spc = "run" /\ changes < MaxChanges /\ i < displays
    /\ changes' = changes + 1
    /\ active' = i
    /\ UNCHANGED <<viewerVars, ctl, wake, writerVars, link, conn, route, threadVars,
                   spc, change, perms, displays>>

\* The loop breaks (goodbye, kick, silence, lost link) and calls InputThread::finish.
EndSession ==
    /\ spc = "run"
    /\ spc' = "finish"
    /\ UNCHANGED <<viewerVars, ctl, wake, writerVars, link, conn, route, threadVars,
                   change, perms, displays, active, changes>>

\* join returned: the session is reported as over and its link is dropped.
Joined ==
    /\ spc = "finish" /\ hpc = "exited"
    /\ spc' = "over"
    /\ conn' = "down"
    /\ UNCHANGED <<viewerVars, ctl, wake, writerVars, link, route, threadVars,
                   change, perms, displays, active, changes>>

SessionLoop ==
    \/ \E new \in Perms : SetPermissions(new)
    \/ StoreKeyboard \/ RouteRelease
    \/ \E n \in 1..MaxDisplays, a \in 0..(MaxDisplays - 1) : SetDisplays(n, a)
    \/ StoreActive
    \/ \E i \in 0..(MaxDisplays - 1) : SelectDisplay(i)
    \/ EndSession \/ Joined

-----------------------------------------------------------------------------
Next ==
    \/ SendMove \/ Notify \/ (\E e \in Events : SendEvent(e)) \/ SendEventItem \/ SendOther
    \/ Writer
    \/ LinkLost \/ Deliver
    \/ InputThread
    \/ SessionLoop

Spec == Init /\ [][Next]_vars

\* The runtime keeps polling tasks that are ready, a call of send_input that began
\* runs to its end, the system keeps scheduling the
\* input thread, and the transport moves frames while it is up.
Fairness ==
    /\ WF_vars(SendEventItem) /\ WF_vars(Notify) /\ WF_vars(Writer) /\ WF_vars(Deliver)
    /\ WF_vars(InputThread)
    /\ WF_vars(StoreKeyboard \/ RouteRelease \/ StoreActive \/ Joined)

FairSpec == Spec /\ Fairness

-----------------------------------------------------------------------------
(* Why the order holds: at every moment the kept events lie in the pipeline as  *)
(* consecutive intervals of the stamps, one interval for each stage.            *)

IsKept(it) == it.seq # 0 /\ ~IsMove(it)
KeptIn(lg, n) == n \in DOMAIN lg /\ lg[n].kind # "move"

\* s holds exactly the kept events stamped a + 1 to b, in order.
Carries(lg, s, a, b) ==
    /\ \A i \in DOMAIN s : IsKept(s[i]) =>
          a < s[i].seq /\ s[i].seq <= b /\ KeptIn(lg, s[i].seq)
    /\ \A i, j \in DOMAIN s :
          i < j /\ IsKept(s[i]) /\ IsKept(s[j]) => s[i].seq < s[j].seq
    /\ \A n \in (a + 1)..b : KeptIn(lg, n) => \E i \in DOMAIN s : IsKept(s[i]) /\ s[i].seq = n

\* The host has taken over exactly the kept events stamped 1 to h.
Taken(lg, hs, h) ==
    /\ \A i \in DOMAIN hs : hs[i] <= h
    /\ \A n \in 1..h : KeptIn(lg, n) => \E i \in DOMAIN hs : hs[i] = n

\* One interval a stage: handled up to h, the batch to b, the route to r, the link
\* to l, the writer's queue to q, the control channel to c.
Intervals(h, b, r, l, q, c) ==
    /\ h <= b /\ b <= r /\ r <= l /\ l <= q /\ q <= c
    /\ Taken(log, handled, h)
    /\ Carries(log, batch, h, b) /\ Carries(log, route, b, r)
    /\ Carries(log, link, r, l) /\ Carries(log, queue, l, q) /\ Carries(log, ctl, q, c)
    /\ IF sending = NoItem THEN c = Len(log)
       ELSE c + 1 = Len(log) /\ sending.seq = Len(log) /\ IsKept(sending)
            /\ KeptIn(log, Len(log))

\* Once the thread is gone the reader drops what arrives, and nothing is handled.
OrderInv ==
    /\ slot # NoItem => IsMove(slot)
    /\ hpc # "exited" => \E h, b, r, l, q, c \in Nat : Intervals(h, b, r, l, q, c)

-----------------------------------------------------------------------------
(* Correctness *)

TypeOK ==
    /\ log \in Seq(Events)
    /\ slot \in Items \cup {NoItem} /\ sending \in Items \cup {NoItem} /\ notifying \in BOOLEAN
    /\ ctl \in Seq(Items) /\ wake \in {0, 1} /\ others \in Nat
    /\ wpc \in {"gather", "slot", "select", "wait", "reserve", "regather", "reslot", "send"}
    /\ queue \in Seq(Items) /\ (wpc \in {"reserve", "regather", "reslot", "send"} => queue # <<>>)
    /\ link \in Seq(Items) /\ conn \in {"up", "down"} /\ route \in Seq(Items)
    /\ hpc \in {"recv", "timeout", "loop", "apply", "exited"}
    /\ batch \in Seq(Items) /\ (hpc \in {"recv", "timeout", "exited"} => batch = <<>>)
    /\ cur \in Items \cup {NoItem} /\ (hpc = "apply" <=> cur # NoItem)
    /\ lastMove \in Nat /\ handled \in Seq(Nat) /\ held \subseteq Holds
    /\ spc \in {"run", "grant", "revoke", "release", "active", "finish", "over"}
    /\ change \in [keyboard : BOOLEAN, active : Nat]
    /\ perms \in Perms /\ displays \in Nat /\ active \in Nat
    /\ changes \in Nat

\* input_thread.rs: clicks, keys and ReleaseAll reach the host in the order they
\* were made, none missing and none twice, whatever the tasks and threads do.
Order == INSTANCE InputOrder WITH Events <- Events, log <- log, handled <- handled
ImplementsInputOrder == Order!Spec

\* host.rs SetPermissions: what is still held on a device whose permission is gone
\* is about to be released, however the revocation met the event being applied.
Permitted(h) == IF h \in Keys THEN perms.keyboard ELSE perms.mouse
IsRelease(it) == it.ev.kind = "releaseAll"
ReleasePending ==
    \/ spc \in {"revoke", "release"}
    \/ \E i \in DOMAIN route : IsRelease(route[i])
    \/ \E i \in DOMAIN batch : IsRelease(batch[i])
    \/ hpc = "apply" /\ IsRelease(cur)
RevokedIsReleased == \A h \in held : Permitted(h) \/ ReleasePending

\* Why: the check of the permission and the event's effect are two steps, so the event
\* in hand counts as held already; "grant" takes nothing away.
ReleaseInv ==
    /\ RevokedIsReleased
    /\ hpc = "apply" /\ cur.ev.kind = "down" => Permitted(cur.ev.hold) \/ ReleasePending
    /\ spc = "grant" /\ perms.keyboard => change.keyboard
    /\ hpc = "exited" => held = {} /\ Stop
    /\ spc = "over" => hpc = "exited"

\* host.rs: the session is reported as over only with nothing held, and stays so.
OverIsReleased == spc = "over" => held = {}

\* secure.rs: a stalled network does not make the backlog of movement grow.  Beside
\* the movement that other waiting messages pin in its place, the viewer keeps at
\* most one position in the writer's queue and one in the slot.
Count(s, Test(_)) == Cardinality({i \in DOMAIN s : Test(s[i])})
NotMove(it) == ~IsMove(it)
MoveBacklogBounded ==
    Count(queue, IsMove) + Count(ctl, IsMove) + (IF slot = NoItem THEN 0 ELSE 1)
      <= Count(queue, NotMove) + Count(ctl, NotMove) + (IF sending = NoItem THEN 0 ELSE 1) + 2

\* While the session lives, every click, key and ReleaseAll reaches the injector's thread,
\* and a position left in the slot is picked up although nothing else may ever be sent:
\* secure.rs fills the slot, lets go of it and notifies, while the writer looks at the
\* slot, lets go of it, looks for something to do and waits.  After the last of the MaxSeq
\* events catching up means that none was left behind.
Owed == \/ slot # NoItem
        \/ \E n \in DOMAIN log : log[n].kind # "move" /\ \A i \in DOMAIN handled : handled[i] # n
EventuallyHandled == []<>(~Owed \/ Stop \/ ~Up)
=============================================================================
