------------------------------ MODULE Elevation ------------------------------
(***************************************************************************)
(* The application's end of elevated control: the session loop that begins *)
(* and ends it, the input thread that sends input through it, and, for     *)
(* each time it was begun, the pipe to the service with two threads of its *)
(* own (one hears the service, one sends heartbeats).                      *)
(*                                                                         *)
(* Of the service: the slot of the one grant, and the thread that serves   *)
(* each pipe in order (Broker has the rest).  The pipe for pictures ends   *)
(* with the other and is left out, as VideoStream has the video thread.    *)
(*                                                                         *)
(* The application opens the pipe as a synchronous handle and clones it,   *)
(* so Windows does one operation of reader and writers at a time: while    *)
(* the one thread waits in its read, every write waits.  The mutex of the  *)
(* writers is part of that wait.                                           *)
(***************************************************************************)
EXTENDS Naturals, SequencesExt

CONSTANTS
    MaxGrants,   \* bound: pipes that are opened
    PipeRoom,    \* requests a pipe holds (1 MiB in the code)
    MaxTrouble   \* bound: what goes wrong at the service

Pipes == 1..MaxGrants

VARIABLES
    elevated, may,   \* the session loop: perms.elevated, max_perms.elevated
    doing, current,  \* what it is in the middle of, and with which pipe
    guard,           \* elevated_guard: a pipe, or 0
    seat,            \* InputShared.elevated: a pipe, or 0
    lost,            \* InputShared.elevated_lost
    writing,         \* the pipe the input thread writes to, under the lock of seat, or 0
    begun,           \* pipes opened so far
    alive,           \* the flag that the holders of a pipe share
    beats,           \* its heartbeat thread: "off", at its "check" of the flag, or "asleep"
    ears,            \* its other thread: "off", "starting", or "reading", in its blocking read
    sent,            \* requests the service has not read
    said,            \* an answer is on its way to ears
    serving,         \* pipes whose thread at the service goes on
    slot,            \* Broker.grant: the pipe it was granted to, or 0
    forgot,          \* history: a loss whose flag was cleared
    cutShort,        \* history: grants that ended with the pipe of an earlier one
    trouble

loop == <<elevated, may, doing, current, guard>>
shared == <<seat, lost, writing, forgot>>
client == <<begun, alive, beats, ears>>
service == <<said, serving, slot, cutShort>>
vars == <<loop, shared, client, sent, service, trouble>>

Init == /\ elevated = FALSE /\ may = TRUE /\ doing = "select" /\ current = 0 /\ guard = 0
        /\ seat = 0 /\ lost = FALSE /\ writing = 0 /\ forgot = FALSE
        /\ begun = 0 /\ alive = [g \in Pipes |-> FALSE]
        /\ beats = [g \in Pipes |-> "off"] /\ ears = [g \in Pipes |-> "off"]
        /\ sent = [g \in Pipes |-> <<>>]
        /\ said = {} /\ serving = {} /\ slot = 0
        /\ cutShort = {} /\ trouble = 0

\* Handles of the pipe in the application: PipeInput, Guard, both threads, or begin itself.
Held(g) == \/ g \in {seat, guard, writing} \/ beats[g] # "off" \/ ears[g] # "off"
           \/ doing # "select" /\ g = current

\* A write to the pipe gets through: it has room, and the file object is not in a read.
Writable(g) == ears[g] # "reading" /\ Len(sent[g]) < PipeRoom

-----------------------------------------------------------------------------
(* The session loop.  It waits for begin, which is not async. *)

\* SetPermissions switches elevated control on: ServiceElevation::begin up to Granted.
Granted ==
    /\ doing = "select" /\ may /\ ~elevated /\ begun < MaxGrants /\ slot = 0
    /\ begun' = begun + 1 /\ current' = begun + 1 /\ slot' = begun + 1
    /\ serving' = serving \cup {begun + 1} /\ doing' = "attach"
    /\ UNCHANGED <<elevated, may, guard, shared, alive, beats, ears, sent, said, cutShort, trouble>>

\* The second pipe is attached, the threads start; or the grant has ended meanwhile.
Attach ==
    /\ doing = "attach"
    /\ IF slot = current
       THEN /\ doing' = "seat" /\ alive' = [alive EXCEPT ![current] = TRUE]
            /\ ears' = [ears EXCEPT ![current] = "starting"] /\ beats' = [beats EXCEPT ![current] = "check"]
            /\ UNCHANGED current
       ELSE doing' = "select" /\ current' = 0 /\ UNCHANGED <<alive, ears, beats>>
    /\ UNCHANGED <<elevated, may, guard, shared, begun, sent, service, trouble>>

\* SetPermissions switches it off.
SwitchOff ==
    /\ doing = "select" /\ elevated /\ doing' = "unseat" /\ current' = guard
    /\ UNCHANGED <<elevated, may, guard, shared, client, sent, service, trouble>>

\* set_elevated: the injector under its lock, and then the flag.
Seat ==
    /\ doing \in {"seat", "unseat"} /\ writing = 0
    /\ seat' = IF doing = "seat" THEN current ELSE 0
    /\ doing' = IF doing = "seat" THEN "keep" ELSE "drop"
    /\ UNCHANGED <<elevated, may, current, guard, lost, writing, forgot, client, sent, service,
                   trouble>>

\* Guard::drop.  Revoke waits like every write; on a pipe that the service closed it fails.
DropGuard(g) == /\ guard' = 0 /\ alive' = [alive EXCEPT ![g] = FALSE]
                /\ g \in serving => Writable(g)
                /\ sent' = IF g \in serving THEN [sent EXCEPT ![g] = Append(@, "revoke")] ELSE sent

\* The other half of set_elevated, and what SetPermissions does after it.
FlagCleared == lost' = FALSE /\ forgot' = (forgot \/ (doing = "keep" /\ lost))
Kept == /\ doing = "keep" /\ FlagCleared
        /\ doing' = "select" /\ current' = 0 /\ guard' = current /\ elevated' = TRUE
        /\ UNCHANGED <<may, seat, writing, client, sent, service, trouble>>
Off ==  /\ doing = "drop" /\ FlagCleared /\ DropGuard(guard)
        /\ doing' = "select" /\ current' = 0 /\ elevated' = FALSE
        /\ UNCHANGED <<may, seat, writing, begun, beats, ears, service, trouble>>

\* adapt_tick, every 500 ms.
HearLoss ==
    /\ doing = "select" /\ elevated /\ lost /\ lost' = FALSE
    /\ DropGuard(guard) /\ elevated' = FALSE /\ may' = FALSE
    /\ UNCHANGED <<doing, current, seat, writing, forgot, begun, beats, ears, service, trouble>>

-----------------------------------------------------------------------------
(* The input thread, at an event that the permissions allow *)

\* The injector is asked whether its grant is alive.
ToService == /\ writing = 0 /\ seat # 0 /\ alive[seat] /\ writing' = seat
             /\ UNCHANGED <<loop, seat, lost, forgot, client, sent, service, trouble>>
\* Mutant: the loss is not flagged.
ToDesktopSilently == /\ writing = 0 /\ (seat # 0 => ~alive[seat])
                     /\ seat' = 0
                     /\ UNCHANGED <<loop, lost, writing, forgot, client, sent, service, trouble>>
ToDesktop == /\ writing = 0 /\ (seat # 0 => ~alive[seat])
             /\ seat' = 0 /\ lost' = (lost \/ seat # 0)
             /\ UNCHANGED <<loop, writing, forgot, client, sent, service, trouble>>

\* PipeInput::apply: the write waits, under the lock of the seat, or fails.
Written == /\ writing # 0 /\ writing' = 0
           /\ IF writing \in serving
              THEN /\ Writable(writing)
                   /\ sent' = [sent EXCEPT ![writing] = Append(@, "input")] /\ UNCHANGED alive
              ELSE alive' = [alive EXCEPT ![writing] = FALSE] /\ UNCHANGED sent
           /\ UNCHANGED <<loop, seat, lost, forgot, begun, beats, ears, service, trouble>>

Input == ToService \/ ToDesktop

-----------------------------------------------------------------------------
(* The threads of a pipe *)

\* elevation-heartbeat: it looks at the flag, sleeps 3 s and sends one in any case.
Check(g) == /\ beats[g] = "check"
            /\ beats' = [beats EXCEPT ![g] = IF alive[g] THEN "asleep" ELSE "off"]
            /\ UNCHANGED <<alive, sent>>
Beat(g) ==  /\ beats[g] = "asleep" /\ beats' = [beats EXCEPT ![g] = "check"]
            /\ IF g \in serving
               THEN /\ Writable(g) /\ sent' = [sent EXCEPT ![g] = Append(@, "beat")]
                    /\ UNCHANGED alive
               ELSE alive' = [alive EXCEPT ![g] = FALSE] /\ UNCHANGED sent
Heartbeat(g) == /\ Check(g) \/ Beat(g)
                /\ UNCHANGED <<loop, shared, begun, ears, service, trouble>>

\* elevation-events begins to read, and goes on at an answer or the end of the pipe.
Listen(g) == /\ ears[g] = "starting" /\ ears' = [ears EXCEPT ![g] = "reading"]
             /\ UNCHANGED <<loop, shared, begun, alive, beats, sent, service, trouble>>
Hear(g) == /\ ears[g] = "reading" /\ (g \in said \/ g \notin serving)
           /\ ears' = [ears EXCEPT ![g] = "off"] /\ alive' = [alive EXCEPT ![g] = FALSE]
           /\ UNCHANGED <<loop, shared, begun, beats, sent, service, trouble>>

-----------------------------------------------------------------------------
(* The service *)

\* client(): Heartbeat and Input are answered only when they are denied.
Answered(g) == Head(sent[g]) = "revoke" \/ slot # g
Read(g) ==
    /\ g \in serving /\ sent[g] # <<>> /\ (Answered(g) => Held(g))
    /\ sent' = [sent EXCEPT ![g] = Tail(@)]
    /\ said' = IF Answered(g) THEN said \cup {g} ELSE said
    /\ slot' = IF Head(sent[g]) = "revoke" /\ slot = g THEN 0 ELSE slot
    /\ UNCHANGED <<loop, shared, client, serving, cutShort, trouble>>

\* Its other end was closed, which a read or an answer finds out: owner_gone ends the grant
\* of the process, whichever it is.
Closed(g) ==
    /\ g \in serving /\ ~Held(g) /\ (sent[g] # <<>> => Answered(g))
    /\ serving' = serving \ {g} /\ sent' = [sent EXCEPT ![g] = <<>>] /\ slot' = 0
    /\ cutShort' = IF slot \in {0, g} THEN cutShort ELSE cutShort \cup {slot}
    /\ UNCHANGED <<loop, shared, client, said, trouble>>

Trouble == trouble < MaxTrouble /\ trouble' = trouble + 1

\* GRANT_LAPSE_SECS pass and no heartbeat waits to be read: the watchdog ends the grant, and
\* nobody is told.  The model has no clock: the next heartbeat may always be too late.
Watchdog == /\ slot # 0 /\ ~Contains(sent[slot], "beat") /\ slot' = 0
            /\ UNCHANGED <<loop, shared, client, sent, said, serving, cutShort, trouble>>
\* The helper dies: input is denied from now on.
GrantEnds == /\ Trouble /\ slot # 0 /\ slot' = 0
             /\ UNCHANGED <<loop, shared, client, sent, said, serving, cutShort>>
\* The service stops, and is started again.
ServiceStops == /\ Trouble /\ slot' = 0 /\ serving' = {}
                /\ sent' = [g \in Pipes |-> <<>>]
                /\ UNCHANGED <<loop, shared, client, said, cutShort>>

Serve(g) == Read(g) \/ Closed(g)
LoopGoing == Attach \/ Seat \/ Kept \/ Off \/ HearLoss

Next == \/ Granted \/ SwitchOff \/ LoopGoing \/ Input \/ Written
        \/ Watchdog \/ GrantEnds \/ ServiceStops
        \/ \E g \in Pipes : Heartbeat(g) \/ Listen(g) \/ Hear(g) \/ Serve(g)

Spec == Init /\ [][Next]_vars

\* Threads run and timers fire; what waits for a lock or for room gets it in the end.  The
\* owner's orders are not due.
FairSpec ==
    /\ Spec
    /\ SF_vars(LoopGoing) /\ SF_vars(Written) /\ WF_vars(Watchdog)
    /\ \A g \in Pipes : SF_vars(Heartbeat(g)) /\ WF_vars(Listen(g) \/ Hear(g)) /\ WF_vars(Serve(g))

-----------------------------------------------------------------------------
(* Properties *)

\* A grant that the session loop does not hold any more, or is about to revoke.
GivenUp == slot # 0 /\ IF slot = guard THEN doing = "drop" ELSE doing = "select"
\* The service has closed its end, but the loop waits for the pipe, or relies on it.
Stranded == doing # "select" /\ current \notin serving
Deceived == elevated /\ guard \notin serving

\* Guard, "Dropping this ends the grant at the service": a grant that was given up ends, if
\* not by the revocation, which the pending read may hold back, then by the dead-man switch.
\* And when the service closes its end, by which every wait for the pipe is over, the session
\* loop goes on, and stops calling itself elevated if the viewer goes on using the PC, unless
\* set_elevated cleared the flag of the loss.
ElevationSettles ==
    /\ []<>~GivenUp
    /\ []<>~Stranded
    /\ SF_vars(Input) => []<>(~Deceived \/ forgot)

\* The service, server.rs, of input: "it must never make the caller wait".  Nobody waits for
\* the pipe for ever: the heartbeat is sent, the input thread and the session loop go on.
NobodyWaits ==
    /\ \A g \in Pipes : []<>(beats[g] # "asleep")
    /\ []<>(writing = 0)
    /\ []<>(doing = "select")

\* host.rs, "Elevated control can be switched off and on again during a session": the new
\* grant is not ended by what is left of the one before.
RenewedGrantLives == cutShort = {}

\* input_thread.rs, "Set when the service ended the grant underneath us": whenever the input
\* thread gave up an injector that the session loop still counts on, the flag says so.
LossIsFlagged == (elevated /\ doing = "select" /\ seat = 0) => lost
=============================================================================
