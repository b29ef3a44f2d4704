-------------------------------- MODULE Hub --------------------------------
(***************************************************************************)
(* The signaling and relay server: the presence and session tables of the  *)
(* Hub, the task that serves each WebSocket connection, the writer task    *)
(* behind each connection's outbox, the periodic sweep, and the rows of    *)
(* the session history.                                                    *)
(*                                                                         *)
(* A handler takes the lock of the Hub once and then works through awaits: *)
(* what it still has to do is the sequence todo[c], one element for each   *)
(* point where other tasks may run.  Task 0 is the sweep.  Sessions are    *)
(* numbered in the order they are made.  Rate limits appear as refusals,   *)
(* device names, addresses and byte counts not at all.                     *)
(***************************************************************************)
EXTENDS Naturals, Sequences, FiniteSets

CONSTANTS
    Ids,           \* device ids
    NoId,          \* no device: a connection that has not authenticated
    MaxConn,       \* bound: connections ever made
    MaxMade,       \* bound: sessions ever made
    MaxFail,       \* bound: sockets that fail
    MaxSessions,   \* Config.max_sessions
    OutCap         \* frames an outbox holds (48 in the code)

Conns == 1..MaxConn
Tasks == 0..MaxConn
Modes == {"pending", "relay", "direct"}

ASSUME IdsAssumption == NoId \notin Ids /\ IsFiniteSet(Ids)
ASSUME BoundsAssumption == /\ MaxConn \in Nat /\ MaxMade \in Nat /\ MaxFail \in Nat
                           /\ MaxSessions \in Nat \ {0} /\ OutCap \in Nat \ {0}

\* ServerToClient, as far as anything depends on it; "reply" is AuthOk, Error and
\* ConnectFailed.
Msgs == [kind : {"reply"}]
        \cup [kind : {"incoming", "ready", "ended"}, session : Nat]
        \cup [kind : {"relay"}, session : Nat, from : Ids]

\* What a task still has to do, one await after the other.
Steps == [do : {"send"}, to : Conns, msg : Msgs]       \* Sender::send: waits for room
         \cup [do : {"relay"}, to : Conns, msg : Msgs] \* the same, for at most 15 seconds
         \cup [do : {"notify"}, session : Nat, to : SUBSET Conns]
         \cup [do : {"openRow", "closeRow"}, session : Nat]
         \cup [do : {"detach", "leave"}]

VARIABLES
    dev,        \* the device a connection authenticated as
    phase,      \* connection task: new, open or gone
    todo,       \* tasks: what is left of the current handler
    outbox,     \* frames waiting for a connection's writer
    deaf,       \* connections whose writer has ended
    kicked,     \* connections with a permit in their kick Notify
    devices,    \* Inner.devices: the connection of a device, 0 if there is none
    accepting,  \* devices whose connection has incoming_enabled
    made,       \* history: viewer and host of every session made
    mode,       \* Session.mode, kept after the session has ended
    live,       \* keys of Inner.sessions
    inSession,  \* Inner.in_session: the session of a device, 0 if there is none
    rows,       \* the row of a session in the history: none, open or closed
    reported    \* history: how often the end of a session was worked off

connVars  == <<dev, phase, kicked>>
tableVars == <<devices, accepting, made, mode, live, inSession>>
vars == <<connVars, todo, outbox, deaf, tableVars, rows, reported>>

-----------------------------------------------------------------------------
Viewer(s) == made[s].viewer
Host(s)   == made[s].host
Peers(s)  == {Viewer(s), Host(s)}
PeerOf(s, i) == IF Viewer(s) = i THEN Host(s) ELSE Viewer(s)

\* The connection serves its client: no handler is under way.
Serving(c) == phase[c] = "open" /\ todo[c] = <<>>

Send(c, m)   == [do |-> "send", to |-> c, msg |-> m]
Reply        == [kind |-> "reply"]
About(k, s)  == [kind |-> k, session |-> s]

\* Ended: whom to tell is read under the lock, the telling and the row come later.
Notify(s, devs) == [do |-> "notify", session |-> s, to |-> {devs[i] : i \in Peers(s)} \ {0}]

\* Mutant: only the viewer's entry goes.
FreedOfViewer(S) == [i \in Ids |-> IF \E s \in S : i = Viewer(s) THEN 0 ELSE inSession[i]]

\* end_locked, for a set of sessions: the session and both its devices' entries go.
Freed(S) == [i \in Ids |-> IF \E s \in S : i \in Peers(s) THEN 0 ELSE inSession[i]]
EndLocked(S) == live' = live \ S /\ inSession' = Freed(S)

Init ==
    /\ dev = [c \in Conns |-> NoId] /\ phase = [c \in Conns |-> "new"]
    /\ todo = [t \in Tasks |-> <<>>] /\ outbox = [c \in Conns |-> <<>>]
    /\ deaf = {} /\ kicked = {} /\ accepting = {}
    /\ devices = [i \in Ids |-> 0] /\ inSession = [i \in Ids |-> 0]
    /\ made = <<>> /\ mode = <<>> /\ live = {}
    /\ rows = <<>> /\ reported = <<>>

-----------------------------------------------------------------------------
(* A connection comes, is superseded, and goes *)

\* Mutant: the connection that held the device's place is not kicked.
AttachQuietly(c, i, enabled) ==
    /\ phase[c] = "new" /\ \A d \in Conns : d < c => phase[d] # "new"
    /\ phase' = [phase EXCEPT ![c] = "open"]
    /\ dev' = [dev EXCEPT ![c] = i]
    /\ devices' = [devices EXCEPT ![i] = c]
    /\ accepting' = IF enabled THEN accepting \cup {i} ELSE accepting \ {i}
    /\ todo' = [todo EXCEPT ![c] = <<Send(c, Reply)>>]
    /\ UNCHANGED <<kicked, outbox, deaf, made, mode, live, inSession, rows, reported>>

\* Auth succeeded: Hub::attach, then AuthOk.  Connection ids are given in order.
Attach(c, i, enabled) ==
    /\ phase[c] = "new" /\ \A d \in Conns : d < c => phase[d] # "new"
    /\ phase' = [phase EXCEPT ![c] = "open"]
    /\ dev' = [dev EXCEPT ![c] = i]
    /\ devices' = [devices EXCEPT ![i] = c]
    /\ kicked' = kicked \cup ({devices[i]} \ {0})
    /\ accepting' = IF enabled THEN accepting \cup {i} ELSE accepting \ {i}
    /\ todo' = [todo EXCEPT ![c] = <<Send(c, Reply)>>]
    /\ UNCHANGED <<outbox, deaf, made, mode, live, inSession, rows, reported>>

\* kick.notified(): an Error to the client, then out of the loop.
Kick(c) ==
    /\ Serving(c) /\ c \in kicked
    /\ kicked' = kicked \ {c}
    /\ todo' = [todo EXCEPT ![c] = <<Send(c, Reply), [do |-> "detach"]>>]
    /\ UNCHANGED <<dev, phase, outbox, deaf, tableVars, rows, reported>>

\* The stream ended, was idle, sent something malformed, or the service stops.
Close(c) ==
    /\ Serving(c)
    /\ todo' = [todo EXCEPT ![c] = <<[do |-> "detach"]>>]
    /\ UNCHANGED <<connVars, outbox, deaf, tableVars, rows, reported>>

\* The socket of a connection failed: its writer ends and the outbox is closed.
WriterEnds(c) ==
    /\ phase[c] # "new" /\ c \notin deaf /\ Cardinality(deaf) < MaxFail
    /\ deaf' = deaf \cup {c}
    /\ outbox' = [outbox EXCEPT ![c] = <<>>]
    /\ UNCHANGED <<connVars, todo, tableVars, rows, reported>>

\* Mutant: the task that handles the requests also writes the frames.
WriteWhenServing(c) ==
    /\ outbox[c] # <<>> /\ Serving(c)
    /\ outbox' = [outbox EXCEPT ![c] = Tail(@)]
    /\ UNCHANGED <<connVars, todo, deaf, tableVars, rows, reported>>

\* The writer hands one frame to the client.
Write(c) ==
    /\ outbox[c] # <<>>
    /\ outbox' = [outbox EXCEPT ![c] = Tail(@)]
    /\ UNCHANGED <<connVars, todo, deaf, tableVars, rows, reported>>

-----------------------------------------------------------------------------
(* Requests of a client *)

SetIncomingEnabled(c, enabled) ==
    /\ Serving(c)
    /\ accepting' = IF devices[dev[c]] # c THEN accepting
                    ELSE IF enabled THEN accepting \cup {dev[c]} ELSE accepting \ {dev[c]}
    /\ UNCHANGED <<connVars, todo, outbox, deaf, devices, made, mode, live, inSession,
                   rows, reported>>

\* The session a new Connect of device v replaces: its own, if it is the viewer there.
Replaced(v) == {s \in live : inSession[v] = s /\ Viewer(s) = v}

\* Hub::connect grants the session.  The replaced session is ended first; then its
\* peers are told, the row is opened, and only then the two peers hear of the new one.
Connect(c, t) ==
    LET v == dev[c]
        n == Len(made) + 1
        free == Freed(Replaced(v))
    IN
    /\ Serving(c) /\ n <= MaxMade
    /\ devices[v] # 0 /\ t # v /\ devices[t] # 0 /\ t \in accepting
    /\ free[t] = 0 /\ free[v] = 0
    /\ Cardinality(live \ Replaced(v)) < MaxSessions
    /\ made' = Append(made, [viewer |-> v, host |-> t])
    /\ mode' = Append(mode, "pending")
    /\ live' = (live \ Replaced(v)) \cup {n}
    /\ inSession' = [free EXCEPT ![v] = n, ![t] = n]
    /\ rows' = Append(rows, "none") /\ reported' = Append(reported, 0)
    /\ todo' = [todo EXCEPT ![c] =
          (IF Replaced(v) = {} THEN <<>> ELSE <<Notify(inSession[v], devices)>>)
          \o <<[do |-> "openRow", session |-> n],
               Send(devices[t], About("incoming", n)), Send(c, About("ready", n))>>]
    /\ UNCHANGED <<connVars, outbox, deaf, devices, accepting>>

\* Hub::connect refuses after it ended the viewer's previous session: the target is
\* busy (or the table is full), and the summary of the ended session is dropped.
ConnectBusy(c, t) ==
    LET v == dev[c]
        free == Freed(Replaced(v))
    IN
    /\ Serving(c)
    /\ devices[v] # 0 /\ t # v /\ devices[t] # 0 /\ t \in accepting
    /\ free[t] # 0 \/ free[v] # 0 \/ Cardinality(live \ Replaced(v)) >= MaxSessions
    /\ EndLocked(Replaced(v))
    /\ todo' = [todo EXCEPT ![c] = <<Send(c, Reply)>>]
    /\ UNCHANGED <<connVars, outbox, deaf, devices, accepting, made, mode, rows, reported>>

\* Hub::connect refuses before that: rate limit, ban, unknown or own id, offline, not
\* accepting.
ConnectRefused(c) ==
    /\ Serving(c)
    /\ todo' = [todo EXCEPT ![c] = <<Send(c, Reply)>>]
    /\ UNCHANGED <<connVars, outbox, deaf, tableVars, rows, reported>>

\* Mutant: whoever names a session may send into it.
RelayByAnyone(c, s) ==
    LET to == devices[PeerOf(s, dev[c])] IN
    /\ Serving(c) /\ s \in live /\ mode[s] # "direct"
    /\ mode' = [mode EXCEPT ![s] = "relay"]
    /\ todo' = [todo EXCEPT ![c] =
          IF to = 0 THEN <<>>
          ELSE <<[do |-> "relay", to |-> to,
                  msg |-> [kind |-> "relay", session |-> s, from |-> dev[c]]]>>]
    /\ UNCHANGED <<connVars, outbox, deaf, devices, accepting, made, live, inSession, rows, reported>>

\* Hub::relay_route: only between the peers, and never in a direct session.  The first
\* frame settles the mode even if the peer is offline.  The frame is sent later.
Relay(c, s) ==
    LET to == devices[PeerOf(s, dev[c])] IN
    /\ Serving(c) /\ s \in live /\ dev[c] \in Peers(s) /\ mode[s] # "direct"
    /\ mode' = [mode EXCEPT ![s] = "relay"]
    /\ todo' = [todo EXCEPT ![c] =
          IF to = 0 THEN <<>>
          ELSE <<[do |-> "relay", to |-> to,
                  msg |-> [kind |-> "relay", session |-> s, from |-> dev[c]]]>>]
    /\ UNCHANGED <<connVars, outbox, deaf, devices, accepting, made, live, inSession, rows, reported>>

\* Hub::set_mode: the viewer's report counts once.
SessionMode(c, s, m) ==
    /\ Serving(c) /\ s \in live /\ Viewer(s) = dev[c] /\ mode[s] = "pending"
    /\ mode' = [mode EXCEPT ![s] = m]
    /\ UNCHANGED <<connVars, todo, outbox, deaf, devices, accepting, made, live, inSession, rows, reported>>

\* Hub::end_by, then finish.
EndSession(c, s) ==
    /\ Serving(c) /\ s \in live /\ dev[c] \in Peers(s)
    /\ EndLocked({s})
    /\ todo' = [todo EXCEPT ![c] = <<Notify(s, devices)>>]
    /\ UNCHANGED <<connVars, outbox, deaf, devices, accepting, made, mode, rows, reported>>

\* Hub::sweep, in the housekeeping task: sessions too long pending or too long without
\* a relayed frame, whichever these are; in the order of the hash map.  They are a minute
\* old at least, so their row has been inserted.
Sweep ==
    /\ todo[0] = <<>>
    /\ \E S \in (SUBSET {s \in live : mode[s] # "direct" /\ rows[s] # "none"}) \ {{}} :
          /\ EndLocked(S)
          /\ \E order \in [1..Cardinality(S) -> S] :
                /\ \A s \in S : \E k \in DOMAIN order : order[k] = s
                /\ todo' = [todo EXCEPT ![0] = [k \in DOMAIN order |-> Notify(order[k], devices)]]
    /\ UNCHANGED <<connVars, outbox, deaf, devices, accepting, made, mode, rows, reported>>

-----------------------------------------------------------------------------
(* One await of a handler *)

Rest(t) == [todo EXCEPT ![t] = Tail(@)]

\* Sender::send: waits for room; a closed outbox takes the frame nowhere.
StepSend(t) ==
    LET x == Head(todo[t]) IN
    /\ todo[t] # <<>> /\ x.do \in {"send", "relay"}
    /\ \/ x.to \in deaf /\ UNCHANGED outbox
       \/ /\ x.to \notin deaf /\ Len(outbox[x.to]) < OutCap
          /\ outbox' = [outbox EXCEPT ![x.to] = Append(@, x.msg)]
    /\ todo' = Rest(t)
    /\ UNCHANGED <<connVars, deaf, tableVars, rows, reported>>

\* Mutant: the end is worked off even if the session had ended already.
StepStalledAgain(t) ==
    LET x == Head(todo[t])
        s == x.msg.session
    IN
    /\ todo[t] # <<>> /\ x.do = "relay"
    /\ x.to \notin deaf /\ Len(outbox[x.to]) = OutCap
    /\ EndLocked({s} \cap live)
    /\ todo' = [todo EXCEPT ![t] = <<Notify(s, devices)>>]
    /\ UNCHANGED <<connVars, outbox, deaf, devices, accepting, made, mode, rows, reported>>

\* A relayed frame found no room for 15 seconds: the session is ended.
StepStalled(t) ==
    LET x == Head(todo[t])
        s == x.msg.session
    IN
    /\ todo[t] # <<>> /\ x.do = "relay"
    /\ x.to \notin deaf /\ Len(outbox[x.to]) = OutCap
    /\ EndLocked({s} \cap live)
    /\ todo' = [todo EXCEPT ![t] = IF s \in live THEN <<Notify(s, devices)>> ELSE <<>>]
    /\ UNCHANGED <<connVars, outbox, deaf, devices, accepting, made, mode, rows, reported>>

\* Ended::notify: try_send, so a full outbox does not get the message.
StepNotify(t) ==
    LET x == Head(todo[t]) IN
    /\ todo[t] # <<>> /\ x.do = "notify"
    /\ outbox' = [c \in Conns |-> IF c \in x.to \ deaf /\ Len(outbox[c]) < OutCap
                                  THEN Append(outbox[c], About("ended", x.session))
                                  ELSE outbox[c]]
    /\ todo' = [todo EXCEPT ![t] = <<[do |-> "closeRow", session |-> x.session]>> \o Tail(@)]
    /\ UNCHANGED <<connVars, deaf, tableVars, rows, reported>>

\* Db::session_start inserts the row.
StepOpenRow(t) ==
    LET x == Head(todo[t]) IN
    /\ todo[t] # <<>> /\ x.do = "openRow"
    /\ rows' = [rows EXCEPT ![x.session] = "open"]
    /\ todo' = Rest(t)
    /\ UNCHANGED <<connVars, outbox, deaf, tableVars, reported>>

\* Db::session_end updates the row, if there is one.
StepCloseRow(t) ==
    LET x == Head(todo[t]) IN
    /\ todo[t] # <<>> /\ x.do = "closeRow"
    /\ rows' = [rows EXCEPT ![x.session] = IF @ = "none" THEN "none" ELSE "closed"]
    /\ reported' = [reported EXCEPT ![x.session] = @ + 1]
    /\ todo' = Rest(t)
    /\ UNCHANGED <<connVars, outbox, deaf, tableVars>>

\* Hub::detach: only the connection that holds the device's place removes it and ends
\* its session.
StepDetach(c) ==
    LET i == dev[c]
        S == {inSession[i]} \cap live
        devs == [devices EXCEPT ![i] = 0]
    IN
    /\ todo[c] # <<>> /\ Head(todo[c]).do = "detach"
    /\ IF devices[i] = c
       THEN /\ devices' = devs /\ accepting' = accepting \ {i}
            /\ EndLocked(S)
            /\ todo' = [todo EXCEPT ![c] = IF S = {} THEN <<[do |-> "leave"]>>
                                           ELSE <<Notify(inSession[i], devs), [do |-> "leave"]>>]
       ELSE /\ UNCHANGED <<devices, accepting, live, inSession>>
            /\ todo' = [todo EXCEPT ![c] = <<[do |-> "leave"]>>]
    /\ UNCHANGED <<connVars, outbox, deaf, made, mode, rows, reported>>

\* The task drops its sender and ends.
StepLeave(c) ==
    /\ todo[c] # <<>> /\ Head(todo[c]).do = "leave"
    /\ phase' = [phase EXCEPT ![c] = "gone"]
    /\ todo' = Rest(c)
    /\ UNCHANGED <<dev, kicked, outbox, deaf, tableVars, rows, reported>>

Step(t) == \/ StepSend(t) \/ StepStalled(t) \/ StepNotify(t)
           \/ StepOpenRow(t) \/ StepCloseRow(t)
           \/ t \in Conns /\ (StepDetach(t) \/ StepLeave(t))

-----------------------------------------------------------------------------
\* Session ids are random: a peer names one only once it has read it on this connection,
\* or knows it from an earlier one.
Told(c, s) ==
    /\ \A t \in Tasks : \A k \in DOMAIN todo[t] :
          todo[t][k].do = "send" /\ todo[t][k].to = c
            => todo[t][k].msg \notin {About("incoming", s), About("ready", s)}
    /\ \A k \in DOMAIN outbox[c] :
          outbox[c][k] \notin {About("incoming", s), About("ready", s)}

Request(c) ==
    \/ \E b \in BOOLEAN : SetIncomingEnabled(c, b)
    \/ \E t \in Ids : Connect(c, t) \/ ConnectBusy(c, t)
    \/ ConnectRefused(c)
    \/ \E s \in live :
          /\ Told(c, s)
          /\ Relay(c, s) \/ EndSession(c, s) \/ \E m \in {"relay", "direct"} : SessionMode(c, s, m)

Next ==
    \/ \E c \in Conns : \/ \E i \in Ids, b \in BOOLEAN : Attach(c, i, b)
                        \/ Kick(c) \/ Close(c) \/ WriterEnds(c) \/ Write(c) \/ Request(c)
    \/ Sweep
    \/ \E t \in Tasks : Step(t)

Spec == Init /\ [][Next]_vars

\* The runtime polls every ready task.  Waiting for room in an outbox is first come,
\* first served, and select! takes its ready branches in random order, so neither a
\* busy peer nor a busy client shuts a task out for good.  Clients read what is sent.
Fairness ==
    /\ WF_vars(Step(0)) /\ \A c \in Conns : WF_vars(Step(c)) /\ SF_vars(StepSend(c))
    /\ \A c \in Conns : WF_vars(Write(c)) /\ SF_vars(Kick(c))

FairSpec == Spec /\ Fairness

-----------------------------------------------------------------------------
(* Correctness *)

TypeOK ==
    /\ dev \in [Conns -> Ids \cup {NoId}] /\ phase \in [Conns -> {"new", "open", "gone"}]
    /\ \A c \in Conns : phase[c] = "new" <=> dev[c] = NoId
    /\ todo \in [Tasks -> Seq(Steps)] /\ outbox \in [Conns -> Seq(Msgs)]
    /\ deaf \subseteq Conns /\ kicked \subseteq Conns /\ accepting \subseteq Ids
    /\ devices \in [Ids -> Conns \cup {0}] /\ inSession \in [Ids -> Nat]
    /\ made \in Seq([viewer : Ids, host : Ids]) /\ mode \in Seq(Modes)
    /\ Len(mode) = Len(made) /\ live \subseteq 1..Len(made)
    /\ rows \in Seq({"none", "open", "closed"}) /\ Len(rows) = Len(made)
    /\ reported \in Seq(Nat) /\ Len(reported) = Len(made)

\* hub.rs, "all rules about who may talk to whom live here": the session table and the
\* index by device always agree, a device is in one session at most and never in one
\* with itself, both peers of a session are online, and the table is never too full.
HubConsistent ==
    /\ \A s \in live : /\ Viewer(s) # Host(s)
                      /\ \A i \in Peers(s) : inSession[i] = s /\ devices[i] # 0
    /\ \A i \in Ids : inSession[i] # 0 => inSession[i] \in live /\ i \in Peers(inSession[i])
    /\ Cardinality(live) <= MaxSessions

\* A relayed frame only ever waits for the other peer of its session, and only if that
\* session was settled as relayed, even if it or a connection has ended meanwhile.
Relayed(m, c) == /\ m.session \in DOMAIN made /\ mode[m.session] = "relay"
                 /\ dev[c] # m.from /\ Peers(m.session) = {dev[c], m.from}
RelayOnlyBetweenPeers ==
    /\ \A c \in Conns : \A k \in DOMAIN outbox[c] :
          outbox[c][k].kind = "relay" => Relayed(outbox[c][k], c)
    /\ \A t \in Tasks : \A k \in DOMAIN todo[t] :
          todo[t][k].do = "relay" => Relayed(todo[t][k].msg, todo[t][k].to)

\* A connection that serves its client holds its device's place, or a kick waits for it.
Leaving(c) == \E k \in DOMAIN todo[c] : todo[c][k].do \in {"detach", "leave"}
SupersededIsKicked ==
    \A c \in Conns : phase[c] = "open" => devices[dev[c]] = c \/ c \in kicked \/ Leaving(c)

\* The end of a session is told and recorded by one task only, and never while it lives.
Pending(s) == {x \in UNION {{t} \X DOMAIN todo[t] : t \in Tasks} :
                  LET y == todo[x[1]][x[2]]
                  IN y.do \in {"notify", "closeRow"} /\ y.session = s}
ReportedOnce ==
    \A s \in DOMAIN made : Cardinality(Pending(s)) + reported[s] <= (IF s \in live THEN 0 ELSE 1)

\* Tasks that wait for each other's outboxes never block each other for good.
TaskComesBack == \A c \in Conns : []<>(todo[c] = <<>>)

\* A connection that was superseded ends, however busy its client keeps it.
SupersededGoes == \A c \in Conns : []<>~(phase[c] = "open" /\ devices[dev[c]] # c)

\* hub.rs, "A viewer reconnecting replaces its own previous session", and "Tells the
\* surviving peers the session is over": no session ends unreported.
EndIsReported ==
    \A s \in DOMAIN made : s \notin live => Pending(s) # {} \/ reported[s] # 0

\* docs/PRIVACY.md, sessions are kept until "90 days after end": once every task is done,
\* the row of a session that is over has its end time, without which it is never purged.
EndIsRecorded ==
    (\A t \in Tasks : todo[t] = <<>>) => \A s \in DOMAIN made \ live : rows[s] = "closed"
=============================================================================
