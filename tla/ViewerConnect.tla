--------------------------- MODULE ViewerConnect ---------------------------
(***************************************************************************)
(* The connections a device makes as a viewer: one supervising task per    *)
(* view, which tries, reconnects and waits for its user; the engine, which *)
(* hands the server's answers to the tasks; the queue to the server, which *)
(* outlives a connection; and, of the server, what it does with the        *)
(* requests of this device.                                                *)
(*                                                                         *)
(* Frames are not modelled, only whether a session still carries them.     *)
(* The host is the environment: it may refuse, accept or fall silent, but  *)
(* the handshake binds its id, so a view cannot get through to a host that *)
(* it did not ask for.                                                     *)
(***************************************************************************)
EXTENDS Naturals, Sequences

CONSTANTS
    Views,         \* supervising tasks, each started once
    Targets,       \* hosts
    TargetOf,      \* the host a view connects to
    NoView,        \* nobody
    OutRoom,       \* requests the queue to the server holds (16 in the code)
    MaxTries,      \* MAX_RECONNECT_ATTEMPTS (8)
    MaxSessions,   \* bound: sessions the server makes
    MaxEvents      \* bound: changes of the connection the engine has not seen yet

Sessions == 1..MaxSessions

ASSUME ViewAssumption == /\ TargetOf \in [Views -> Targets] /\ NoView \notin Views
                         /\ OutRoom \in Nat \ {0} /\ MaxTries \in Nat
                         /\ MaxSessions \in Nat /\ MaxEvents \in Nat

VARIABLES
    net,       \* whether the signaling task is in serve, or sleeps and connects
    out,       \* the queue of requests
    events,    \* SigEvents the engine has not dispatched
    online,    \* server_online
    current,   \* the session the server has for this device, or 0
    made,      \* the target of each session the server made
    pending,   \* pending_connect: the view whose sender is stored for a target
    routes,    \* sessions whose relayed frames have somewhere to go
    jammed,    \* the engine waits for ever for pending_connect, which it holds itself
    pc,        \* where a supervising task is
    answer,    \* what its receiver holds
    sess,      \* the session of its attempt
    after,     \* where it goes when its attempt is cleaned up
    ever,      \* ever_connected
    tries,     \* attempt_no
    leaving    \* a Disconnect is in its command queue

signal == <<net, out, events, online>>
server == <<current, made>>
engine == <<pending, routes, jammed>>
view == <<pc, answer, sess, after, ever, tries>>
vars == <<net, out, events, online, current, made, pending, routes, jammed,
          pc, answer, sess, after, ever, tries, leaving>>

Waiting == [kind |-> "none", session |-> 0]
Ready(s) == [kind |-> "ready", session |-> s]
Refused == [kind |-> "failed", session |-> 0]
Dropped == [kind |-> "dropped", session |-> 0]   \* the sender is gone

Init == /\ net = "down" /\ out = <<>> /\ events = <<>> /\ online = FALSE
        /\ current = 0 /\ made = <<>>
        /\ pending = [t \in Targets |-> NoView] /\ routes = {} /\ jammed = FALSE
        /\ pc = [v \in Views |-> "idle"] /\ answer = [v \in Views |-> Waiting]
        /\ sess = [v \in Views |-> 0] /\ after = [v \in Views |-> "gone"]
        /\ ever = [v \in Views |-> FALSE] /\ tries = [v \in Views |-> 0]
        /\ leaving = [v \in Views |-> FALSE]

-----------------------------------------------------------------------------
(* The server, as far as this device sees it *)

\* The channel to the engine has no limit; nobody reads it when the engine is jammed.
Tell(ms) == IF jammed THEN UNCHANGED events
            ELSE Len(events) + Len(ms) <= MaxEvents /\ events' = events \o ms
EndOf(s) == IF s = 0 THEN <<>> ELSE <<[t |-> "ended", session |-> s]>>

\* Hub::connect: the previous session of this viewer is ended, then a new one is made.
Grant(t) == /\ Len(made) < MaxSessions
            /\ made' = Append(made, t) /\ current' = Len(made) + 1
            /\ Tell(EndOf(current) \o <<[t |-> "ready", session |-> Len(made) + 1]>>)

\* Refused at once, or (the host is busy) after the previous session was ended.
Refuse(t) == /\ current' \in {current, 0} /\ Tell(<<[t |-> "refused", target |-> t]>>)
             /\ UNCHANGED made

Serve(m) == \/ m.t = "connect" /\ (Grant(m.target) \/ Refuse(m.target))
            \/ /\ m.t = "end" /\ m.session = current
               /\ current' = 0 /\ Tell(EndOf(current)) /\ UNCHANGED made
            \/ /\ m.t = "end" /\ m.session # current
               /\ UNCHANGED <<current, made, events>>

-----------------------------------------------------------------------------
(* The connection to the server *)

Connected == /\ net = "down" /\ net' = "up" /\ Tell(<<[t |-> "online"]>>)
             /\ UNCHANGED <<out, online, server, engine, view, leaving>>

\* serve: a request goes out.  What the server says to it waits in events.
Transmit == /\ net = "up" /\ out # <<>> /\ out' = Tail(out)
            /\ Serve(Head(out))
            /\ UNCHANGED <<net, online, engine, view, leaving>>

\* serve returns, and what is queued is dropped; the server ends the session of a
\* device that is gone.
ConnectionLost == /\ net = "up" /\ net' = "down" /\ Tell(<<[t |-> "offline"]>>)
                  /\ out' = <<>> /\ current' = 0
                  /\ UNCHANGED <<online, made, engine, view, leaving>>

\* The server cannot be reached: again what is queued is dropped.  What is queued while
\* the task sleeps and connects is sent on the next connection.
ConnectFails == /\ net = "down" /\ out' = <<>>
                /\ UNCHANGED <<net, events, online, server, engine, view, leaving>>

\* The host, or the sweep of the server, ends the session.
EndedByOthers == /\ current # 0 /\ current' = 0 /\ Tell(EndOf(current))
                 /\ UNCHANGED <<net, out, online, made, engine, view, leaving>>

-----------------------------------------------------------------------------
(* The engine *)

Owners == {pending[t] : t \in Targets} \ {NoView}
NoPending == [t \in Targets |-> NoView]

\* The senders of views are dropped, and with them their receivers get an error.
AnswerOne(v, a) == answer' = [u \in Views |-> IF u = v THEN a
                                              ELSE IF u \in Owners THEN Dropped ELSE answer[u]]
DropOthers(v) == answer' = [u \in Views |-> IF u = v THEN Waiting
                                            ELSE IF u \in Owners THEN Dropped ELSE answer[u]]

\* Mutant: every pending connect is told of the session.
OnReadyAll(s) == /\ pending' = NoPending
                 /\ answer' = [u \in Views |-> IF u \in Owners THEN Ready(s) ELSE answer[u]]

\* SessionReady names no target: one of the pending connects gets it, the others fail.
OnReady(s) == /\ pending' = NoPending
              /\ IF Owners = {} THEN UNCHANGED answer
                 ELSE \E v \in Owners : AnswerOne(v, Ready(s))

\* ConnectFailed names one.  When that is not pending any more, another is meant to fail;
\* but the guard of the first look lives to the end of the `else if', whose lock of the
\* same std mutex then never returns.
OnRefused(t) ==
    IF pending[t] # NoView
    THEN /\ pending' = [pending EXCEPT ![t] = NoView]
         /\ answer' = [answer EXCEPT ![pending[t]] = Refused] /\ UNCHANGED jammed
    ELSE jammed' = TRUE /\ UNCHANGED <<pending, answer>>

Dispatch ==
    /\ ~jammed /\ events # <<>> /\ events' = Tail(events)
    /\ LET m == Head(events)
       IN \/ m.t = "online" /\ online' = TRUE /\ UNCHANGED <<engine, answer>>
          \/ m.t = "offline" /\ online' = FALSE /\ UNCHANGED <<engine, answer>>
          \/ m.t = "ready" /\ OnReady(m.session) /\ UNCHANGED <<online, routes, jammed>>
          \/ m.t = "refused" /\ OnRefused(m.target) /\ UNCHANGED <<online, routes>>
          \/ m.t = "ended" /\ routes' = routes \ {m.session} /\ UNCHANGED <<online, pending, jammed, answer>>
    /\ UNCHANGED <<net, out, server, pc, sess, after, ever, tries, leaving>>

-----------------------------------------------------------------------------
(* supervise, when an attempt is over *)

Goto(v, p) == pc' = [pc EXCEPT ![v] = p]

\* What follows an attempt: "peer", "lost" and "local" end one that was live.  A first
\* attempt is not repeated; after MaxTries of them in a row the user decides.
NextTry(v, how) ==
    LET n == (IF how = "lost" THEN 0 ELSE tries[v]) + 1
    IN IF how \in {"local", "peer", "final"} \/ (how = "retry" /\ ~ever[v])
       THEN [pc |-> "gone", tries |-> tries[v]]
       ELSE [pc |-> IF n > MaxTries THEN "user" ELSE "backoff", tries |-> n]

Decide(v, how) == Goto(v, NextTry(v, how).pc) /\ tries' = [tries EXCEPT ![v] = NextTry(v, how).tries]

\* The same, after the session of the attempt is ended.
Gives(v, how) == /\ Goto(v, "clean") /\ after' = [after EXCEPT ![v] = NextTry(v, how).pc]
                 /\ tries' = [tries EXCEPT ![v] = NextTry(v, how).tries]

\* The sleep before the next attempt is over.
BackoffOver(v) == /\ pc[v] = "backoff" /\ Goto(v, "attempt")
                  /\ UNCHANGED <<signal, server, engine, answer, sess, after, ever, tries, leaving>>

\* Mutant: the wait for the user hears the button only.
LeaveBackoff(v) == /\ pc[v] = "backoff" /\ leaving[v] /\ Goto(v, "gone")
                   /\ UNCHANGED <<signal, server, engine, answer, sess, after, ever, tries, leaving>>

\* A Disconnect while the task sleeps or waits for its user ends it.
Leave(v) == /\ pc[v] \in {"backoff", "user"} /\ leaving[v] /\ Goto(v, "gone")
            /\ UNCHANGED <<signal, server, engine, answer, sess, after, ever, tries, leaving>>

\* The button Reconnect, which is a request for a keyframe.
PressReconnect(v) == /\ pc[v] = "user" /\ ~leaving[v]
                     /\ tries' = [tries EXCEPT ![v] = 0] /\ Goto(v, "attempt")
                     /\ UNCHANGED <<signal, server, engine, answer, sess, after, ever, leaving>>

-----------------------------------------------------------------------------
(* attempt *)

\* A sender is stored under the target, which needs the lock; one that was there is dropped.
Attempt(v) ==
    /\ pc[v] = "attempt"
    /\ IF ~online THEN Decide(v, "retry") /\ UNCHANGED <<pending, answer>>
       ELSE /\ LET t == TargetOf[v]
               IN /\ ~jammed /\ pending' = [pending EXCEPT ![t] = v]
                  /\ answer' = [u \in Views |-> IF u = v THEN Waiting
                                                ELSE IF u = pending[t] THEN Dropped ELSE answer[u]]
            /\ Goto(v, "ask") /\ UNCHANGED tries
    /\ UNCHANGED <<signal, server, routes, jammed, sess, after, ever, leaving>>

\* sig.send waits for room in the queue.
Send(v, p, m, next) ==
    /\ pc[v] = p /\ Len(out) < OutRoom
    /\ out' = Append(out, m) /\ Goto(v, next)

Ask(v) == /\ Send(v, "ask", [t |-> "connect", target |-> TargetOf[v]], "wait")
          /\ UNCHANGED <<net, events, online, server, engine, answer, sess, after, ever, tries, leaving>>

\* An answer of the server within 12 s.
TakeAnswer(v) ==
    /\ pc[v] = "wait" /\ answer[v].kind \in {"ready", "failed"}
    /\ IF answer[v].kind = "ready"
       THEN Goto(v, "dial") /\ sess' = [sess EXCEPT ![v] = answer[v].session] /\ UNCHANGED tries
       ELSE Decide(v, "final") /\ UNCHANGED sess
    /\ answer' = [answer EXCEPT ![v] = Waiting]
    /\ UNCHANGED <<signal, server, engine, after, ever, leaving>>

\* Mutant: the pending connects are left as they are.
NoAnswerKeeping(v) ==
    /\ pc[v] = "wait" /\ answer[v].kind \in {"none", "dropped"}
    /\ Decide(v, "retry")
    /\ UNCHANGED <<signal, server, engine, answer, sess, after, ever, leaving>>

\* No answer, or the sender was dropped: every pending connect is forgotten.
NoAnswer(v) ==
    /\ pc[v] = "wait" /\ answer[v].kind \in {"none", "dropped"}
    /\ Decide(v, "retry")
    /\ ~jammed /\ pending' = NoPending /\ DropOthers(v)
    /\ UNCHANGED <<signal, server, routes, jammed, sess, after, ever, leaving>>

\* The frames travel on a direct link, or on the relay, which needs a route to this view.
\* The server is told which; that message changes nothing here and is left out.
Dial(v) ==
    /\ pc[v] = "dial" /\ Goto(v, "hello")
    /\ \E relayed \in BOOLEAN : routes' = IF relayed THEN routes \cup {sess[v]} ELSE routes
    /\ UNCHANGED <<signal, server, pending, jammed, answer, sess, after, ever, tries, leaving>>

RightHost(v) == made[sess[v]] = TargetOf[v]

\* viewer_handshake and the wait for approval: they end well only with the host that
\* was meant.
Handshake(v) ==
    /\ pc[v] = "hello"
    /\ \/ /\ RightHost(v) /\ Goto(v, "live") /\ ever' = [ever EXCEPT ![v] = TRUE]
          /\ UNCHANGED <<after, tries>>
       \/ (\E how \in {"final", "retry"} : Gives(v, how)) /\ UNCHANGED ever
    /\ UNCHANGED <<signal, server, engine, answer, sess, leaving>>

\* viewer::run ends: the peer says goodbye, the link breaks, or nothing comes for 15 s.
LiveEnds(v) ==
    /\ pc[v] = "live" /\ (\E how \in {"peer", "lost"} : Gives(v, how))
    /\ UNCHANGED <<signal, server, engine, answer, sess, ever, leaving>>

\* viewer::run takes the Disconnect of the user.
LiveLeaves(v) ==
    /\ pc[v] = "live" /\ leaving[v] /\ Gives(v, "local")
    /\ UNCHANGED <<signal, server, engine, answer, sess, ever, leaving>>

\* The session of the attempt is over for this view, whatever the server thinks of it.
Forget(v) == /\ Send(v, "clean", [t |-> "end", session |-> sess[v]], after[v])
             /\ sess' = [sess EXCEPT ![v] = 0] /\ after' = [after EXCEPT ![v] = "gone"]
             /\ UNCHANGED <<net, events, online, server, pending, jammed, answer, ever, tries, leaving>>

CleanUp(v) == Forget(v) /\ routes' = routes \ {sess[v]}

-----------------------------------------------------------------------------

\* The user connects, and disconnects at any time.
Start(v) == /\ pc[v] = "idle" /\ Goto(v, "attempt")
            /\ UNCHANGED <<signal, server, engine, answer, sess, after, ever, tries, leaving>>

Disconnect(v) == /\ pc[v] \notin {"idle", "gone"} /\ ~leaving[v]
                 /\ leaving' = [leaving EXCEPT ![v] = TRUE]
                 /\ UNCHANGED <<signal, server, engine, view>>

Trying(v) == Attempt(v) \/ TakeAnswer(v) \/ NoAnswer(v) \/ Dial(v)
             \/ Handshake(v) \/ BackoffOver(v)
Leaving(v) == LiveLeaves(v) \/ Leave(v)
Sending(v) == Ask(v) \/ CleanUp(v)

Next == \/ \E v \in Views : \/ Trying(v) \/ Leaving(v) \/ Sending(v) \/ LiveEnds(v)
                            \/ Start(v) \/ Disconnect(v) \/ PressReconnect(v)
        \/ Connected \/ ConnectFails \/ Transmit \/ ConnectionLost \/ EndedByOthers \/ Dispatch

Spec == Init /\ [][Next]_vars

\* Tasks run, timeouts fire, and the first in the line for the queue gets its room.  The
\* branches of select! are tried in random order, so a Disconnect is not passed over
\* for ever.
Fairness == /\ WF_vars(Connected) /\ WF_vars(Transmit) /\ WF_vars(Dispatch)
            /\ \A v \in Views : /\ WF_vars(Trying(v)) /\ SF_vars(Leaving(v))
                                /\ SF_vars(Sending(v))

FairSpec == Spec /\ Fairness

-----------------------------------------------------------------------------
(* Properties *)

Requests == [t : {"connect"}, target : Targets] \cup [t : {"end"}, session : Sessions]
Events == [t : {"online", "offline"}] \cup [t : {"ready", "ended"}, session : Sessions]
          \cup [t : {"refused"}, target : Targets]

TypeOK ==
    /\ net \in {"up", "down"}
    /\ out \in Seq(Requests) /\ events \in Seq(Events)
    /\ online \in BOOLEAN /\ current \in 0..Len(made) /\ made \in Seq(Targets)
    /\ pending \in [Targets -> Views \cup {NoView}] /\ routes \subseteq Sessions
    /\ jammed \in BOOLEAN
    /\ pc \in [Views -> {"idle", "attempt", "ask", "wait", "dial", "hello",
                         "live", "clean", "backoff", "user", "gone"}]
    /\ answer \in [Views -> [kind : {"none", "ready", "failed", "dropped"}, session : 0..MaxSessions]]
    /\ sess \in [Views -> 0..MaxSessions] /\ after \in [Views -> {"gone", "user", "backoff"}]
    /\ ever \in [Views -> BOOLEAN] /\ tries \in [Views -> 0..(MaxTries + 1)]
    /\ leaving \in [Views -> BOOLEAN]

\* A stored sender belongs to a view that asks for that target and waits for the
\* answer: an answer never goes to a view that is already at something else.
PendingIsAwaited ==
    \A t \in Targets : LET v == pending[t]
                       IN v # NoView => /\ TargetOf[v] = t /\ pc[v] \in {"ask", "wait"}
                                        /\ answer[v] = Waiting

\* A route leads to a view that uses it; none is left behind by an attempt.
RoutesInUse ==
    \A s \in routes : \E v \in Views : /\ sess[v] = s
                                       /\ pc[v] \in {"hello", "live", "clean"}

Consistent == TypeOK /\ PendingIsAwaited /\ RoutesInUse

\* SessionReady may reach the view of another host, but no session serves two views:
\* neither would know that the other ends it, or takes its frames.
Holds(v) == IF pc[v] = "wait" THEN answer[v].session ELSE sess[v]
SessionHasOneView == \A u, v \in Views : u # v /\ Holds(u) # 0 => Holds(u) # Holds(v)

\* A view whose user disconnects ends, wherever its attempt is at that moment; unless the
\* engine is jammed, and the view needs the lock that it holds.
NeedsTheLock(v) == pc[v] \in {"attempt", "wait"}
DisconnectIsHeard ==
    \A v \in Views : []<>(leaving[v] => pc[v] = "gone" \/ (jammed /\ NeedsTheLock(v)))

\* What the user is owed: it ends in any case.
DisconnectEnds == \A v \in Views : []<>(leaving[v] => pc[v] = "gone")

\* What the engine says of SessionReady: it resolves the connect that was asked for.
AnswerIsItsOwn == \A v \in Views : pc[v] = "dial" => made[sess[v]] = TargetOf[v]
=============================================================================
