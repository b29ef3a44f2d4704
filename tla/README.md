# RemoteX in TLA+

RemoteX is a remote-desktop program: a desktop application that is both *viewer* and
*host*, an elevated Windows service for the secure desktop, and a signaling and relay
server. This directory holds TLA+ models of its concurrent core, TLC configurations that
check them on small instances, and proofs checked by TLAPS.

    tlc -config MCInputOrder.cfg MCInput      # any run: the cfg names, then the module
    tlapm InputPipelineProofs.tla             # proofs

Paths below are relative to `src/`.

## 1. The system: inventory

| Component | State | Operations | Talks to | What is hard |
|---|---|---|---|---|
| **Input path** `crates/session/src/{secure,input_thread,host}.rs`, `crates/input/src/injector.rs` | newest-position slot, control channel, writer queue, input route, injector's held keys, permission and display atomics, stop flag | `send_input`, `send`, writer loop, reader, input thread, `SetPermissions`, `Displays`, `SelectDisplay`, `finish` | viewer command handler, link, session loop | one lock, two channels, a Notify, five atomics and three tasks and a thread; order across coalescing; lost wakeups; revocation and teardown racing events |
| **Server hub** `server/src/{hub,ws}.rs` | presence table, session table, index by device, kick Notify and outbox of a connection | attach, detach, connect, relay, set mode, end, sweep, one writer and one handler task per socket | clients, database | lock released before awaits; sends to *other* connections' outboxes; superseded connections |
| **Server database** `server/src/db.rs` | SQLite tables | one statement per call, in a blocking task | hub tasks | rows written after the table changed |
| **AttemptLimiter** `crates/security/src/limiter.rs` | failures and lockout by key | record failure or success, locked, sweep | hub, engine host | boundaries in time |
| **Broker and agents** `crates/service/src/{broker,server,agent,launch,desktop}.rs` | the single grant slot, agent process with its input pipe, heartbeat time | grant, attach, revoke, heartbeat, inject, owner gone, watchdog sweep | session's elevated injector | check-then-act across locks, processes killed, keys left down |
| **Elevated injector** `crates/session/src/elevation.rs` | the pipe and its shared flag, the guard, the injector in its seat, the flag of a loss | begin, send input, heartbeat, hear the service, drop | broker, input thread, session loop | four threads and a flag for each thing they share |
| **Engine** `crates/session/src/engine.rs` | views, host session, pending connects | dispatch of signaling messages and commands | signaling client, shell | late answers to replaced requests |
| **Host access** `engine_host.rs` | busy flag, temporary password, resume grants | incoming, handshake, consent, session, release | engine, limiter | every early return must undo |
| **Viewer connection** `engine_viewer.rs`, `viewer.rs` | attempt state, reconnect budget | attempt, supervise, cancel | engine, link | timeouts racing answers, retries |
| **Signaling client** `signaling.rs` | connection state, outgoing queue, backoff | connect, authenticate, serve, reconnect | server, engine | frames of an old connection |
| **Handshake and channel** `handshake.rs`, `crates/security/src/{pake,channel}.rs` | transcript, counters | SPAKE2 messages, seal, open | link | order of messages |
| **Lanes** `secure.rs` | control, video and bulk queues, token bucket | send of each lane, writer's priority, reader | session loops, link | both readers may wait for both writers |
| **Link** `link.rs`, `tls.rs` | direct socket or relay | dial, accept, race | server | racing candidates |
| **Session loops** `host.rs`, `viewer.rs` | permissions, peer state | commands, messages, pings | all of the above | teardown order |
| **Video** `video.rs`, `adapt.rs`, `crates/{capture,codec}` | capture source, encoder, in-flight count, bitrate | frames, keyframe requests, display changes, adaptation | lanes | stale requests, bounds |
| **File transfer** `transfer.rs`, `bulk.rs`, `crates/files` | transfers, streaming tasks, approvals, partial files | offer, approve, accept, reject, chunk, complete, pause, cancel, retry | bulk lane, disk | cancel racing start, resumed streams, files known by name only |
| **Clipboard** `crates/input/src/{clipboard,system_clipboard}.rs` | sequence number last seen, digests of what was sent and of what arrived | poll, apply | session loop | echoes, copies that cross |
| **Store, settings, secrets** `store.rs`, `crates/security/src/{dpapi,password}.rs` | settings, trusted devices, password, identity: file, memory, engine's and page's copy | load, atomic save, the commands that change them | shell, engine | copies that drift apart, a process that dies half way |
| **Shell and UI** `apps/desktop` | view state, pictures in flight, decoder pipeline | Tauri commands, forwarding and shedding of pictures, React | engine | acknowledgements that do not come, order of async commands |
| **Server administration, service shells, scripts** | - | - | - | I/O and packaging |

What makes each of the central ones correct:

* *Input path*: clicks, keys and releases arrive exactly once and in order; movement never
  piles up and its last position is never left behind; nothing stays pressed on a machine
  whose owner took the permission away, or after the session.
* *Hub*: one session per device; a frame goes to the session's other peer or nowhere; the
  newest connection of a device wins and the old one leaves without damage; the end of a
  session is worked off exactly once; tasks that wait for each other's outboxes come free.
* *Broker*: one grant at a time, ended when its owner goes, never ended by somebody
  else's owner; nothing held after an agent is gone.
* *Host access*: one viewer at a time, let in by the owner, by the rules or by its last
  session; guesses are paced, a temporary password dies; no way out leaves the host busy.
* *Viewer connection*: a session has one view; every wait ends by an answer, a timeout or
  the user; nothing is left behind by an attempt.
* *Session between peers*: both sides are on one link, know the same password and permissions,
  and end together.
* *Signaling client*: it comes back, with its identity and the user's switch.
* *Pictures*: no unit refers to one that was dropped, the last picture arrives, the host knows
  what is shown, a decoder gets its key picture, the quality recovers.
* *Transfers*: what arrives is whole, what was cut continues where it stopped, nothing that
  exists is overwritten, nothing hangs at the sender.
* *Clipboard*: nothing is sent back, and two clipboards at rest agree.
* *Files of the device*: what was saved survives, and every copy follows the user.

`PROJECT.json` lists the hazards at their lines, each with the property that would catch
it or with the reason why none does yet.

## 2. Plan

| | Modules | State |
|---|---|---|
| 1 | `InputOrder`, `InputPipeline`, `MCInput`, `InputPipelineProofs` | done |
| 2 | `Hub`, `MCHub`, `MCHubLive`, `HubProofs` | done |
| 3 | `Broker`, `Elevation` | done |
| 4 | `AccessPolicy`, `HostAccess`, `MCAccess`, `HostAccessProofs` | done |
| 5 | `FileTransfer`, `MCTransfer`, `FileTransferProofs`, `TransferOutcomeProofs` | done |
| 6 | `ViewerConnect`, `PeerSession`, `Signaling`, `PeerSessionProofs` | done |
| 7 | `VideoStream`, `VideoView`, `Adaptation` | done |
| 8 | `Clipboard`, `DeviceFiles` | done |
| 9 | several parts in one run: `HostParts`, `MCHost`, `HostPartsProofs`; `ViewerParts`, `MCViewer`, `ViewerPartsProofs`; `MCSession`; `MCRecovery` | done |
| 10 | `SessionPipes`: both machines' lanes, readers and loops, for deadlock | open |

Two abstract specifications are implemented: `InputOrder` by `InputPipeline` (checked and
proved), `AccessPolicy` by `HostAccess` (checked and proved).

### Runs of several parts

Several runs look at more than one module: a variable `part` is chosen at the start, and a
behaviour is one of that part, while the others stand still in one initial state. The parts
do not interact there; the run is the union of their state spaces, and a property that is
violated in a part is violated in the run. An invariant holds trivially in the other parts;
a liveness property is stated as `part = ... => ...`. The fairness of an action is fairness
of a disjunction of actions of different parts, which, as `part` never changes, is the
fairness of each.

| Module, run | Parts |
|---|---|
| `HostParts`, `MCHost`: `host` | `Broker`, `VideoStream`, `DeviceFiles`, `Signaling` |
| `ViewerParts`, `MCViewer`: `viewer` | `ViewerConnect`, `Clipboard` |
| `MCSession`: `session` | `PeerSession`, `ViewerConnect`, `VideoView` |
| `MCRecovery`: `recovery` | `Signaling`, `Broker`, `Adaptation` |
| `MCHubLive`: `hub_live` | `Hub`, `Elevation` |

`HostParts` and `ViewerParts` join their parts for every value of the constants, so that the
proofs are about what the runs check; the MC modules add the instance. A part's invariant is
proved from the part's own steps: those of the others leave its variables alone.

### Refuted statements

Some definitions state what a comment or document says and what the code does not do. Two
are runs that end in a counterexample (`transfer_clash`, `peer_bye`). The others are defined
with the properties of their modules and checked by no run; name one as INVARIANT (or
PROPERTY) in the cfg of a run of that module to see its counterexample. `PROJECT.json`
describes each under `findings`.

## 3. The input path

`InputOrder.tla` says what the path promises: events are made one after the other; the
host takes over, in order, every event that is not a movement; movements may be dropped.

`InputPipeline.tla` is the path itself.

| Model | Code |
|---|---|
| `log` | history variable: the events, whose stamps (`InputClock::stamp`) are their positions |
| `slot`, `sending`, `notifying`, `wake` | `SecureTx.pending_move`, the part of `send_input` under its lock, the part after it, the `Notify` permit |
| `ctl`, `queue`, `wpc` | unbounded control channel; writer's local queue; where the writer loop is: `gather` (drain), `slot`, `select` (before `select!`), `wait` (registered in it), `reserve`, `regather`, `reslot`, `send` |
| `link`, `conn` | what the transport holds, bounded by `LinkCap`; whether it is up |
| `route` | the `std::sync::mpsc` from reader to input thread |
| `hpc`, `batch`, `cur`, `lastMove`, `held` | input thread: receive, 50 ms timeout, loop over the batch, about to apply; the injector's held sets |
| `spc`, `change`, `perms`, `displays`, `active` | session loop between the stores of the atomics in `InputShared`; its values |
| `SendMove`, `Notify` | `SecureTx::send_input` of a movement: the slot under its lock, then `notify_one` without it |
| `SendEvent`, `SendEventItem`, `SendOther` | `SecureTx::send_input` of anything else, which keeps the lock between the two, and `SecureTx::send` |
| `Drain` ... `Transmit` | writer task of `secure::spawn`, one action per channel operation or await |
| `Deliver`, `LinkLost` | reader task; failure of the link |
| `Recv` ... `BatchDone` | `input_thread::run`; the permission check (`NextItem`) and the effect (`Apply`) are separate steps |
| `SetPermissions` ... `Joined` | `host::run` |

Left out: encryption, video and bulk units (the writer prefers control), the elevated
injector, the timer of the writer's `select!` (5 ms with a bulk unit waiting for tokens, an hour
otherwise, so nothing may depend on it), and the wrap of
32-bit stamps.

Runs (`MCInput`):

* `input_order`: 3 events, one other message, a link of one frame. Three events suffice for
  move-click-move in every stage; `ReleaseAll` stands for every kept event, since clicks
  and keys take the same path. Checks that the path implements `InputOrder`
  (`ImplementsInputOrder`), that waiting movements are bounded by the other waiting
  messages plus two (`MoveBacklogBounded`), and that every kept event is handled and a
  position in the slot is taken unless the session or link ends (`EventuallyHandled`: no
  lost wakeup, with the writer anywhere between its look at the slot and its wait when the
  slot is filled, let go of and notified; `notify_waiters` in its place would lose one).
* `input_host`: one key, one button, two events, two changes, two displays: all
  interleavings of press, revocation, display change and teardown. `RevokedIsReleased`:
  what is held without permission has a release under way; `OverIsReleased`.

Refuted: `ClickFollowsItsPosition` (in `MCInput`). `send_input` documents that "a click always
follows the position it was made at". The writer drains the channel and then takes the
slot; a click entering between is queued after a position reported later, and is applied
there.

Fairness: weak fairness of the writer, the reader, the second half of `send_input` and the
steps of the session loop that follow each other without waiting (tokio polls ready tasks)
and of the input thread (the system schedules it). None for new events, changes, failure or
the end of a session. `LinkLost` may always happen and is why the properties except `~Up`.

Proofs (`InputPipelineProofs`), for every set of keys and buttons, capacity and bound:

* `TypeCorrect`: `Spec => []TypeOK`.
* `InputOrderHolds`: `Spec => ImplementsInputOrder`. The invariant is `OrderInv`: the kept
  events lie in the stages as consecutive intervals of stamps - handled up to `h`, the
  batch up to `b`, the route up to `r`, the link, the writer's queue, the control channel -
  and `Carries` says a stage holds exactly the kept events of its interval, in order. Each
  step moves one border or none. The mapped step is then `Taken`: the event handled next is
  the next kept one. The plain statement "handled is in order" is not inductive: it says
  nothing of what is still to come.
* `RevokedHolds`, `OverHolds`: by `ReleaseInv`, which adds the event in hand (it counts as
  held, since the permission was checked before) and the second store of a permission
  change that grants.
* `BacklogHolds`: `MoveBacklogBounded`, by `BacklogInv`: neither the channel nor the writer's
  queue holds two movements side by side, and the channel does not end in one unless
  `send_input` is between its two sends. A sequence whose movements stand apart has at most
  one more of them than of the rest (`Alternates`); two sequences make it two.

## 4. The server hub

`Hub.tla` models `Hub`, `connection` in `ws.rs` and the housekeeping task. A handler takes the
lock once and then goes through awaits. What is left of it is `todo[c]`, a sequence of
steps: `send` (waits for room in an outbox), `relay` (the same, with the 15 s timeout),
`notify` (`try_send` to the survivors), `openRow`, `closeRow`, `detach`, `leave`. Between two
steps any other task may run. Task 0 is the sweep.

| Model | Code |
|---|---|
| `devices`, `accepting` | `Inner.devices` and its `incoming_enabled` |
| `live`, `made`, `mode`, `inSession` | `Inner.sessions`, its records (kept as history after the end), `Inner.in_session` |
| `phase`, `dev`, `kicked`, `outbox`, `deaf` | connection task, its device, `kick` permit, the bounded outbox, writers that ended |
| `rows`, `reported` | rows of `sessions`; history: how often an end was worked off |
| `Attach`, `Kick`, `Close`, `StepDetach`, `StepLeave` | life of a connection; `detach` acts only for the connection that holds the place |
| `Connect`, `ConnectBusy`, `ConnectRefused` | `Hub::connect` by outcome: granted; refused after the viewer's old session was ended; refused before |
| `Relay`, `SessionMode`, `EndSession`, `SetIncomingEnabled` | requests; a request that changes nothing is a stutter |
| `Sweep` | `Hub::sweep`; ages are left open, so any sessions that are not direct may be swept |

A client names a session only after it was told of it (`Told`): ids are random. That is a
restriction on the environment, not a check in the code.

Runs, with outboxes of one frame where the code has 48, so that full ones happen:

* `hub` (`MCHub`): three devices, one session on three connections or two on two, one
  failing socket (with two connections and one session), at most two tasks inside handlers,
  and nothing further once a device that is online stops accepting (the constraints
  `OneOrTwo`, `TwoBusy`). Reconnects, superseded connections, relayed frames in flight.
  `RelayOnlyBetweenPeers`, `SupersededIsKicked`. `HubConsistent`: session table and index agree,
  both peers of a session are present. `ReportedOnce`: the end of a session is told and
  recorded once at most, and never while it lives.
* `hub_live` (`MCHubLive`): fair, without failure, every device accepting. `TasksGoOn`: two tasks that wait for each
  other's outboxes come free, because a separate task writes, and a superseded connection
  ends. The other part of the run is `Elevation`.

Refuted: `EndIsReported` (`connect` ends the viewer's previous session and then answers Busy;
the summary of the ended session is dropped, the other peer is not told and the row stays
open) and `EndIsRecorded` (the row is inserted after the session exists; an end in between
updates nothing and the row is never purged).

Fairness: weak fairness of every task's next step; strong fairness of sends (tokio's
semaphore is first come, first served) and of the kick (`select!` without `biased` picks
among ready branches at random); weak fairness of writers (clients read). The code has no
timeout on the host's Incoming, so `TasksGoOn` needs the last one.

Proofs (`HubProofs`), for every set of devices, number of connections and sessions, and
size of outboxes:

* `HubTypeCorrect`, by `TypeInv`: `TypeOK` and `ShapeOK` (a connection that has not come has
  nothing to do, and a relayed frame is alone in its handler).
* `HubConsistentHolds`: `HubConsistent` is inductive with `TypeInv`. `FreedAgrees` is the heart:
  `end_locked` keeps table and index in agreement whatever sessions it ends; `Connect` is
  that, followed by one new session of two free devices.
* `SupersededHolds`: needs `ShapeOK`, because `StepStalled` drops the rest of a handler - it
  must not drop a detach.
* `RelayHolds`, by `RelayInv`: the connection at a device's place is that device's (`PlaceOK`),
  every frame queued *or still to be sent* is in order, and sending nothing else carries a
  peer's frame. `Keeps` says why a frame in order stays so: sessions keep their peers, a
  relayed session stays relayed, a connection keeps its device.
* `ReportedOnceHolds`: `ReportedOnce`, by `OnceInv`: a step that tells or records the end of a
  session is in one handler only, the session is out of the table and was not worked off
  before. Whoever takes a session out of the table takes over that duty, and a handler that
  gives up after 15 s drops it for good.

## 5. The service broker

`Broker.tla` models `Broker` and its watchdog, the thread that serves each connection, and
the agents. A request that needs no more than the grant mutex is one step. Where a thread
blocks or leaves the mutex, `doing[t]` says how far it is.

| Model | Code |
|---|---|
| `slot`, `mutex`, `boundTo`, `stale` | `Broker.grant`; who holds its guard over several steps; `Grant.owner_pid`; whether `last_beat` is too old |
| `app`, `cutOff`, `token`, `owners` | the caller's process id, its end of the pipe closed, `token` and `is_owner` of `client()` |
| `doing`, `helper`, `why` | where a thread is, the agent (`Arc<Grant>` or `Agent`) it deals with there, whom to return to from `end_grant` and `shutdown` |
| `agent`, `inPipe`, `video`, `videoHeld` | the process (`released`: its input loop has returned); what its input pipe holds; its video loop; the guard of `Agent.video` |
| `AskGrant`, `AgentReady`, `AgentFails`, `Install`, `TooLate` | `Broker::grant` before, in and after `start_agent` |
| `AskInput`, `Relay`; `AskPicture`, `VideoSend`, `VideoAnswer` | `inject`; `capture` and `status`, from `current` to the pipe |
| `Sweep`, `Revoke`, `Leave`, then `TakeGrant` or `NothingToEnd` | the three ways to `end_grant`, which decide before they take the mutex for it |
| `StopInput`, `StopVideo`, `Kill` | `Agent::shutdown`, with the grant mutex held |
| `AgentReads` ... `AgentHangs` | `input_loop`, `video_loop`, `run`; what can befall the process |

Abstracted: the agent's number stands for the random token; time is `Lapse`, which may happen
at any moment; requests the code refuses without a change do not appear; picture contents,
the check of the caller, following the desktop, and the stop of the service are left out.
A killed agent is taken to do nothing more when `kill` returns (`TerminateProcess` only
starts the termination). The keys an agent holds are not modelled: the code kills it without
waiting for `release_all`. The application is the environment: any request in any order.

Runs, with a small input pipe, so that full ones happen:

* `host` (`MCHost`): two connections, two processes (interchangeable), two agents, a pipe of one message. A second grant can thus be
  asked for while the first is installed, used, or shut down by each of the other threads. A
  third connection adds nothing that the watchdog does not do: no property relates three
  threads. `OneExecutor`: no two agents that had a grant run at once. `NoStrayAgent`: every
  running agent has the grant, or a thread is about to install it or stopping it under the
  mutex.
* `recovery` (`MCRecovery`): one process and agent, two connections, and an input pipe of *two*
  messages, so that an agent may hang without `Shutdown` itself filling its pipe. `GrantsEnd`: a grant ends
  when the connection that holds it closes, even if its thread waits for the agent or the
  mutex, and when its heartbeats stop. Both except `Jammed`: an agent that hangs *and* owes a
  picture or has a full pipe. `shutdown` writes `Shutdown` to both pipes before it kills,
  holding the grant mutex, so such an agent is never killed.

Refuted: `OwnGrantOnly`. "The owner's connection dropped: the grant ends with it", but
`owner_gone` compares process ids, and a connection keeps `is_owner` after its grant has ended.
When it closes later (section 6), it takes the grant with it that its process got meanwhile.

Fairness: strong fairness of what a thread does once begun (a waiting thread gets the mutex
and the pipe in the end, though others come in between) and of `LoopEnds` (the data a closed
pipe still holds is finite); weak fairness of `Sweep` (it wakes every second, and the mutex
is always let go of) and of an agent that does not hang. None for requests, crashes, hangs,
lapses or closing.

Proofs (`HostPartsProofs`), for any number of connections, processes and agents:

* `BrokerTypeCorrect`: `TypeInv` adds to `TypeOK` what each place in the code knows of its agent.
* `NoStrayAgentHolds`, `OneExecutorHolds`, by `OwnInv`. `MutexOK`: a thread holds the mutex
  exactly while it shuts an agent down. `StartOK`: an agent that is starting belongs to one
  thread and is not granted. `StopOK`: the agent the holder stops is not in the slot and
  the slot is empty unless the holder came too late. `EndedOK`: a granted agent that runs
  outside the slot is the one being stopped for an ended grant. `OneExecutor` alone is not
  inductive: it does not say where an ended grant's agent can be when `Install` takes the
  free mutex.

## 6. Elevated control in the application

`Elevation.tla`: the session loop, the input thread and, for each time elevated control was
begun, a pipe with a reading and a heartbeat thread. Of the service it has the grant's slot
and the thread that serves each pipe; `Broker` has the rest.

| Model | Code |
|---|---|
| `elevated`, `may`, `guard`, `doing`, `current` | locals of `host::run`, and where it is inside `begin`, `set_elevated` or the drop of the guard |
| `seat`, `lost`, `writing` | `InputShared.elevated`, `elevated_lost`; the thread that holds the seat's lock while it writes |
| `alive`, `beats`, `ears`, `sent`, `said` | the flag a pipe's holders share, its two threads (`ears` is `reading` in the blocking read), requests and answers on their way |
| `slot`, `serving` | the service's grant and its connection threads |

A pipe is a synchronous handle (`pipe::connect`), cloned for its reader and its writers, and
Windows does one operation at a time on the file they share. So a write goes through only while
`elevation-events` is not in its read (`Writable`): once it reads (`Listen`), a heartbeat, input
or the revocation waits until the service answers or closes, and the service answers heartbeats
and input only when it denies them. An answer ends the reader (`Hear`). What waits may do so under
the writers' mutex, under the lock of the seat (`Written`) or in the session loop (`DropGuard`).
`Watchdog` is the service's dead-man switch; as no heartbeat has to get through, it may always fire
unless one waits to be read.

The run `hub_live` opens two pipes and has one mishap at the service. `ElevationSettles`: a grant
that the session loop gave up ends, be it by the dead-man switch; a loop that waits for a pipe goes
on when the service has closed it; and a loss is noticed then if the viewer goes on sending input
(the code looks for a loss only at input, so strong fairness of `Input` is a premise of that
half). Fairness: threads run, timers fire (`Watchdog` among them), a waiting thread gets the lock.

Refuted: `NobodyWaits`. As soon as the reader reads, the first heartbeat waits, and with it every
other writer; after 10 s the grant ends at the service, the application does not hear of it, and
the session loop blocks when elevated control is switched off. `RenewedGrantLives`: a pipe that
`begin` gave up, because its grant had ended before the picture channel was attached, closes after
a new grant was given, and ends it. `LossIsFlagged`.

## 7. Getting into a host

`AccessPolicy.tla` is the promise to the owner: one viewer at a time, who comes in by an
answer of the owner, by the rule for unattended access, or because its session was lost a
short time ago; a session never has more than it was given; permissions change only by the
owner or by loss.

`HostAccess.tla` is `handle_incoming` as a task that moves through `link`, `hello`, `confirm`,
`decide`, `prompt`, `session`, `rotate`, `leave`, beside the two limiters, the temporary
password with its expiry and rotation, the resume grants, the rules and the clock. A
password is a number, so that an old one is told from the current one. The viewer may know
it, guess, or fall silent anywhere. `update_config` is left out.

The run `access`: two viewers, two tasks, three permissions, three sessions announced, two
changes by the owner, a clock of two ticks with windows of two, which is enough for a
failure to leave the window and a lockout of two ticks to end (`Together` bounds changes
with sessions and guesses, so that the product stays small). Its properties:

* `Consistent`: the host is busy exactly while one task has it - no way out forgets the flag or
  frees it twice.
* `GuessesArePaced`: of one viewer, no more than `MaxFailures` wrong passwords fall into a window,
  whatever success, lockout and clock do. `wrong` records every guess that was looked at.
* `PasswordDies`: a temporary password is not guessed at more often than all viewers together
  may, and once a session it opened was closed it opens no other.
* `ImplementsPolicy`: `HostAccess` implements `AccessPolicy`. What a viewer may come back with is
  stated there as what its session was begun with: the code keeps that and not what was
  left after revocations (a finding).

Proofs (`HostAccessProofs`), for any viewers, permissions and tasks and
any limits. Of the constants they need `Window <= Lockout`: a lockout is not shorter than the
window in which failures count (10 minutes each, but 30 for a viewer's lockout, in
`crates/session/src/engine.rs:190`). A lockout empties the record of failures, so after a
shorter one a viewer could guess as often again within the window.

* `HostConsistent`: `Consistent`, by `TypeInv`. `HostOK` joins the flag, the set of running
  sessions and what each task has in hand at each place (`ShapeOf`), so that every way out of
  `handle_incoming` is one of two lemmas: the one task goes on, or it frees the host.
* `UsedPasswordStaysDead`, by `UsedUp`: a password looked up is not newer than the current one,
  and whoever still holds one that was spent is the task that spent it.
* `GuessesStayPaced`, `PasswordsDie`, by `Remembered`. The limiter forgets - on success, on
  lockout, with time - and the property speaks of guesses that were made. `Remembered` ties
  the two: while a viewer is not locked out, its guesses of the window that no right password
  has forgiven are among its recorded failures (`Kept`), of which there are fewer than the
  limit; and whoever is asked to confirm is not locked out. A lockout empties the record, but
  lasts until the window has passed.
* `PolicyHolds`: `Spec => ImplementsPolicy`, step by step. In the policy only the one task that is
  served exists; `OneSession` finds it, and each action of the host is named with the action
  of the policy it is, or with none.

## 8. Views of other hosts

`ViewerConnect.tla`: per view the task `supervise` (attempt, backoff, waiting for the user),
the engine that hands answers over (`pending`, `routes`), the queue to the server, which
outlives a connection, and the server's side of this device's requests. Frames are not
modelled; timeouts may fire at any moment the code waits.

A refusal whose target is not pending (it came after the timeout, or after a `SessionReady` that
drained them all) makes `dispatch` lock `pending_connect` while it holds it: the guard of the
first `if let` lives to the end of its `else if` in edition 2021. `jammed` is that state: the engine
reads no event any more, and a view in `attempt` or `wait` cannot get the lock (`NeedsTheLock`); in
the other places a view goes on.

The run `viewer` has two views of two hosts, a queue of one request, one retry, two
sessions and three events the engine has not seen, which is enough for a refusal after a
`SessionReady` for another view. `Consistent`: a stored sender belongs to a view
that waits, a route to a view that uses it. `SessionHasOneView`: an answer may reach the view
of another host, but no session serves two views.

Proofs (`ViewerPartsProofs`), for any views, hosts, retries and queue:

* `ViewsConsistent`: `Consistent`, with `Progress` (what a view has at each place of its attempt)
  and `Tried`.
* `OneViewPerSession`: `SessionHasOneView`, with `OneOwner`: the sessions that views were given,
  in the receiver of an answer or in the attempt, differ. `Undelivered` makes that inductive:
  a `SessionReady` still on its way names a session nobody has, and no second one names it.

The run `session` has two views of *one*
host, with fairness: `DisconnectIsHeard`, wherever the attempt is, unless the engine is jammed and
the view needs its lock. The branches of a `select!`
are tried in random order, which is the strong fairness of `Leaving`; the queue to the server
is first come, first served, which is that of `Sending`. Refuted: `AnswerIsItsOwn`, and
`DisconnectEnds`, the same without the exception.

## 9. One session between two machines

`PeerSession.tla`: from the server's announcement to the end on both sides. Viewer and host
each have a control state `pc`; frames wait in the queue of a link (`out`), travel in order
(`net`) and wait to be read (`rx`). The direct attempt, its acknowledgement, the fallback to
the relay, the handshake message by message, the owner's decision, changes of permissions,
`Bye`, closed links and the server's end of the session are actions. When the host chooses the
direct stream it drops its end of the relay with what arrived there. A timeout fires when
nothing can arrive any more, or earlier, counted in `MaxTrouble`.

The run `session` allows one trouble or one change. `SidesAgree`: a viewer inside knows the
password and meets a host on the same link that let it in; a viewer told that its password
is wrong was counted; permissions agree when no news is under way. `OtherSideEnds`: nobody is
left alone. Fairness: weak fairness of what each side does next, of the links and the server, and
of the timers that end a side (`Ending`): tasks are scheduled, and none waits without a timer
or a peer. Refuted: `GoodbyeIsHeard` (the run `peer_bye`, no trouble and no change), `RelayOtherwise`.

Proof (`PeerSessionProofs`), for any number of troubles and changes: `SidesStayAgreed`, that is
`SidesAgree`. What a side believes is what a frame told it, so the inductive invariant `Inv` says
what the frames under way mean. `PlaceOK`: where a side is on its way in says what it has of a
link, and one that is past the handshake has the same as the other. `FrameOK`: a frame is on the
link of the side that sent it, and a frame of the session only exists once both have met.
`TalkOK`: a reply, a confirmation or an abort under way was sent by a host that is that far, that
verified the password or counted the attempt. `NewsOK`: the last news of the permissions, in the
host's queue, on the link or at the viewer, is what the host grants, as long as its frames get
through. `SidesAgree` alone says nothing of the frame that will make a viewer believe something.

## 10. The connection to the server

`Signaling.tla`: connect, register, authenticate, serve, sleep; the queue of outgoing frames,
each marked with the connection it was queued in; the switch for incoming connections, as
the user set it, on the wire and at the server; and a server that may lose its database.

The server says "invalid credentials" to a device it does not know (`UnknownRefused`), and in the
same words to one it does know when its database fails or what came with the identity is not
well-formed (`KnownRefused`); the client cannot tell these apart and gives its identity up.

Two such mishaps or lost databases, three identities, two connections that are numbered, two changes
of the switch. In the run `host`: `SwitchAgrees` (the server believes what the user chose when
nothing is on its way, and the user is told the truth about being online) and `RegistersSparingly`
(one new identity between two connections, two before the first: a device registers again
without a pause, so a server that refuses it for ever would otherwise be flooded). In the run
`recovery`: `DeviceComesBack` (a device that is offline comes online, unless it keeps an identity
nobody knows, refused a second time before it got there). Fairness: the task runs; a server that
can be reached again and again answers in the end (strong fairness of its answers `Registered`,
`AuthOk` and `UnknownRefused`). Strong fairness of `AuthOk` excludes a device whose own name or
candidates are never well-formed, and a database that fails every time. Refuted:
`NothingStaleGoesOut`; `IdentityIsKept` (an identity the server knows is never thrown away).

Proofs (`HostPartsProofs`), for any number of changes, identities and connections:

* `SwitchStaysTrue`: `SwitchAgrees`, by `SwitchInv`. `WireOK`: a value of the switch is under way
  only while the task identifies itself or serves, the last one under way (or, if none is, what
  the server has) is the switch as it is, unless the task has yet to read its last change.
  `OnlineOK`: the state shown is the task's.
* `RegistersAtMostOnce`: `RegistersSparingly`, by `FreshInv`. Of the identities taken since the last
  connection (`fresh`) there is at most one for the reset that was spent and one for the identity
  that is held; of a device that was served before, at most one of the two, because it registers
  only after a reset. The property alone does not say why a further one is impossible.

## 11. Pictures

`VideoStream.tla`: the video thread with capture and encoder, the session loop's knowledge of
it, and the lane to the viewer. A picture is a display and a version of its content. The
environment paints, plugs displays, shows the secure desktop and ends grants.
`VideoView.tla` is the rest of the way: shell, window, decoder and their acknowledgements, with
the host as `VideoStream` shows it. `Adaptation.tla` is `adapt.rs` with its numbers; a sample
is clean, bad or neither.

* `host`: a lane of one picture (2 in the code), so that it is refused; encoders that hold back
  none or one; two orders and mishaps together. `StreamIsWhole`, `HostKnows` (but for a switch
  that failed and a recovery on other displays, of which nobody is told: findings),
  `LastPictureArrives` (for encoders without delay: what others hold back is pushed out by
  the next picture only).
* `session`: `DecoderStarts`, with two pictures in flight (3 in the code), two deltas and two of: a
  slow or failing decoder, a codec that is not supported, another codec string, a reload, a closed
  canvas. `configure` is an await: a key picture waits in `configuring` for a decoder (`Configured`,
  `Unsupported`) while later pictures are taken. After `Unsupported` the host goes over to H.264,
  which is taken to be supported in the end. Refuted: `SheddingAsks`; `LostReferenceAsks` (a delta
  that is taken while the decoder for its key picture is made goes to the old decoder, and nobody
  asks for another key picture).
* `recovery`: `Recovers`, from every state a congestion can lead to, on a display of 640 x 400
  with automatic settings. For presets whose bitrate never reaches twice the least one it is
  false (a finding); so is `ManualIsPinned`.

Proofs (`HostPartsProofs`), for a lane of any room and any number of orders, pictures and mishaps,
by `PicturesInv`:

* `StreamsStayWhole`: `StreamIsWhole`, by `Whole`: while a gap is open, the next unit the encoder
  gives, held back or to come, is a key picture, or a new encoder is needed. The property speaks of
  units in the lane only, the reason lies in the encoder.
* `HostAlwaysKnows`: `HostKnows`, by `Obeyed` and `Reported`: the last order on its way to the thread
  is what the session loop believes, and the last report on its way back is what the thread works
  with. With two queues between them the property alone says nothing of what comes next.
* `LastPictureShown`: `LastPictureArrives`, by `Shows`: a thread that owes no picture has sent the
  one the capturer kept last, so that it is the last in the lane or has arrived.

## 12. Files

`FileTransfer.tla`: the two `FileManager`s, the streaming tasks, the download directory and both
directions of the connection. A chunk is the source and the version it was read from, a hash
is the sequence of these, an open file is an inode that may lose its name. Sources change, a
permission is taken and given back, the session is cut and made again.

The run `transfer`: an upload to a host that asks or not, or a download; two sources of two
and one chunks, two offers, one trouble (where the owner is asked, with one offer), one active
transfer and a bulk lane of one unit, so that queueing and waiting happen. `FilesAreWhole`, `ChunksContinueTheFile`,
`RevokedStopsReceiving`, `QuietMeansSettled` (of transfers that the sender takes for running; one
that is queued at the receiver and never started is pending there, a finding),
`NeverOverwrites`. In it the viewer does not send,
ask for or retry a name while a transfer of it is open at the sender (`Careful`, `Sending`; the
code does not look). Without that, `transfer_clash` finds that two offers share a partial file,
and that a finished file is still written to.

The model has as many inodes as paths, and a transfer is started only while one of them is
free; that is a bound. `unique_path` tries 9999 names and then overwrites; `NamesLeft` assumes that
all transfers of all sessions together are fewer than the names. `NoFileAssumption` only says that
the constant `None` is not an open file.

Proofs, for any sources, sizes, numbers of transfers and bulk lane, and for any viewer where
`Careful` is not named:

In `FileTransferProofs`:

* `TransfersStayInOrder`: the inductive invariant `Inv`. `Numbers`: an id is offered once, and is
  then waiting for the owner or in the receiver's table, never both. `Stage(id)`: until the
  receiver accepts there are no chunks and no stream; while the acceptance travels the sender
  is idle; afterwards `Awaited` says that the acceptance, the chunks in the lane and the
  stream's position continue the file one after the other. `Perms`: without
  the permission nothing runs, but for what an asking host approves afterwards: its
  acceptance follows the news of the withdrawal on the way back, so the sender ignores it.
  `Off` and `Blocked` say that, message by message.
* `ChunksHold`: `ChunksContinueTheFile`. It is not inductive by itself: of a transfer that was just
  accepted it says nothing that would stop an old stream of the same id from writing.
* `RevokedHolds`: `RevokedStopsReceiving`. The receiver cancels what runs; the invariant adds that
  its loop over the queue is not running then and that nothing waits for an owner.

Most steps start and offer nothing; `Keeps` says what such a step leaves alone, `Kept` that it
preserves `Inv`, and the lemmas on sequences (`FwdTail`, `FwdInserted`, `BackReplied`, ...) that
taking a message, or letting one overtake the bulk lane, is such a step.

In `TransferOutcomeProofs`, on top of `Inv`:

* `TransfersStayApart`: three more parts of the invariant. `Orders`: the steps of a transfer come in
  order (offered, decided on, open, ended), at the sender, on the way and at the receiver. `Agree`:
  everybody who speaks of a transfer means the same source. `Alone`, of a careful viewer: at the
  sender one transfer of a name runs at a time; of one that the receiver still takes chunks for
  beside it nothing more will be sent, or its cancellation is ahead of the other's offer.
* `FilesStayWhole` (`Careful`): `FilesAreWhole`, by `Files`. `Labelled`: an inode has one name, partial
  or final. `OwnName`: an open file lies under the name it was opened for. `LeftAlone`: when another
  transfer took over a partial file and finished it, no chunk comes for the first any more.
  `Hashed`: a hash under way is that of the source at one moment, so that a file which passes the
  check is one version, whatever its chunks are. `Delivered`: what completed, or was reported
  verified, is there. `Enough` counts the names taken, so that `unique_path` finds a free one.
  `FilesAreWhole` alone does not say who may still write to a file, which is what could break it.
* `NothingIsOverwritten` (`Careful`): `NeverOverwrites`, from the same invariant: only an open
  partial file is written to, and none of these has a final name and a chunk under way.
* `QuietIsSettled`: `QuietMeansSettled`, for any viewer, by `Endings`. `Awake`: what the sender takes
  for running has a stream, or its hash, or its end on the way. `Told`: of what the receiver decided on
  and does not receive, the end has reached the sender or is on its way, behind the acceptance.
  `Excused`: a streaming task is told to stop only with its transfer. The way from the property to
  the invariant is that a system which is not quiet must owe the sender something for every
  transfer that is still running.

## 13. Clipboard and the files of the device

`Clipboard.tla`: both clipboards, `poll_local` and `apply_remote`, the two lanes, switches, a
write that fails. The run `viewer` has texts and pictures of every size the code tells apart and
three copies. `NoEcho`; `ClipboardsAgree` at rest, but for the reasons that are named in `apart`
(two copies that cross, a copy that was swallowed, a content that is too large, ...).
Refuted: `LaterCopyFlows`, `CopyKeepsSession`.

Proofs (`ViewerPartsProofs`), for contents of any kind and any number of copies, by `ClipboardInv`:
`NothingGoesBack` is `NoEcho`, by `Remembered` (a content that came from the other side is the one
the side remembers, so `poll_local` does not send it); `ClipboardsStayEqual` is `ClipboardsAgree`,
by `Mirrored` (what a side has is what it remembers or is new; what it remembers is the last it
sent, and, once all has arrived, what the other one remembers).

`DeviceFiles.tla`: settings, trusted devices, password and identity, each as file, temporary
file, memory, and as engine and page have them; and the entry that starts the program with Windows
(`autostart`). A command is a list of steps; each may fail and the process may die between any two.
`settings_save` touches the entry only when its switch has changed (`Effects`), and when that fails
(`AutostartFails`) it returns an error after everything else was done; the page, which takes the
settings from the answer, keeps its copy (`behind`). The run `host`: three commands, two failures
or deaths. `SavedIsKept`; `EverybodyFollows`: engine and page go by memory, the page but for a save
that it was told has failed. A loss of power is not modelled (the code does not flush its files).

Refuted: `PageShowsSettings` (the page after such a failure shows what is not in force) and
`StartsWithWindows` (after a failure or a death between save and entry the entry stays wrong, and
asking again changes nothing, because the switch in memory is already as asked).

Proofs (`HostPartsProofs`), for any devices, commands, failures and deaths, by `FilesInv`. `Script`
says what may be left of a command, in which order, and that a save carries what is in memory.
`SavedStaysKept` is `SavedIsKept`, by `Kept`: a file has what it must have, and a temporary file that
is about to replace it is complete. `EverybodyAlwaysFollows` is `EverybodyFollows`, by `Follows` (the
engine and the page go by memory and password, or a step that tells them is left, which a failing
entry must not cut off for the engine) and `Outside` (who was revoked is in no copy, also not in the
one a restart would read).

## 14. What is checked only, and what is not modelled

Proved, for every value of the constants: every safety property of the passing runs, and the two
refinements (`ImplementsInputOrder`, `ImplementsPolicy`). `PROJECT.json` lists them under `theorems`,
with the type invariants of the input path, the hub and the broker, which appear in no run.

Model-checked only: the liveness properties (`EventuallyHandled`, `TasksGoOn`, `ElevationSettles`,
`GrantsEnd`, `DeviceComesBack`, `Recovers`, `DisconnectIsHeard`, `OtherSideEnds`, `DecoderStarts`).
They need fairness and so ENABLED, which the prover does not handle.

What the theorems assume beyond the ranges of the bounds: `Window <= Lockout` (section 7), and for
the files `NamesLeft` and, of two of the theorems, `Careful` (section 12).

Partly modelled: `PROJECT.json` says of each component what is missing. The largest gaps are
the lanes as a whole (both readers waiting for both writers), chat and statistics in the
session loops, the keys an agent holds, and the server's authentication and rate limits.

Not modelled and not planned: pixel work and codecs, cryptographic primitives and DPAPI,
Windows API wrappers, the pacing of the bulk lane (rates only), configuration,
administration pages, packaging and the presentation part of the user interface. They hold
little control of their own.
