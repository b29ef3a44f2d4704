---------------------------- MODULE PeerSession ----------------------------
(***************************************************************************)
(* One session between the viewer "v" and the host "h", from the moment    *)
(* the server has announced it to the end on both sides: the viewer dials  *)
(* the host directly or takes the relay, the host waits for either, both   *)
(* shake hands over the link that was chosen, the owner decides, both run  *)
(* their session loops, and the end of one reaches the other.              *)
(*                                                                         *)
(* Frames of a side wait in the queue of its link ("out"), travel in order *)
(* ("net") and wait to be processed ("rx").  Time is not modelled: a       *)
(* timeout fires when nothing can arrive any more, or, within MaxTrouble,  *)
(* before that.  The password and the rights of the viewer are HostAccess. *)
(***************************************************************************)
EXTENDS Naturals, Sequences

CONSTANTS
    MaxTrouble,     \* bound: broken connections and timeouts that come early
    MaxChanges      \* bound: changes of the permissions

Sides == {"v", "h"}
Other(s) == IF s = "v" THEN "h" ELSE "v"
Links == {"direct", "relay"}

VARIABLES
    pc,             \* what each side is doing
    link,           \* the link it uses, or "none"
    out,            \* frames in the queue of its link
    net,            \* per link and side: what it sent and has not arrived
    rx,             \* frames that arrived
    closed,         \* the reader of the side has seen the end
    route,          \* engine.rs routes: relayed frames of the session are taken
    pendingDirect,  \* engine.rs pending_direct: a direct connection is taken
    served,         \* the server knows the session
    knows,          \* the viewer has the password the host will look up
    perms,          \* the permissions as each side has them
    counted,        \* the host counted a wrong password
    reason,         \* how each side ended
    trouble, changes

traffic == <<out, net, rx, closed>>
engines == <<route, pendingDirect, served>>
outcome == <<counted, reason>>
bounds == <<trouble, changes>>
vars == <<pc, link, traffic, engines, knows, perms, outcome, bounds>>

F(t) == [t |-> t, p |-> "none"]
FP(t, p) == [t |-> t, p |-> p]
Rights == {"all", "view"}

Init == /\ pc = [s \in Sides |-> "start"] /\ link = [s \in Sides |-> "none"]
        /\ out = [s \in Sides |-> <<>>] /\ rx = [s \in Sides |-> <<>>]
        /\ net = [k \in Links |-> [s \in Sides |-> <<>>]]
        /\ closed = [s \in Sides |-> FALSE] /\ route = [s \in Sides |-> FALSE]
        /\ pendingDirect = FALSE /\ served = TRUE /\ knows \in BOOLEAN
        /\ perms = [s \in Sides |-> "none"] /\ counted = FALSE
        /\ reason = [s \in Sides |-> "none"] /\ trouble = 0 /\ changes = 0

Goto(s, p) == pc' = [pc EXCEPT ![s] = p]
Put(s, fs) == out' = [out EXCEPT ![s] = @ \o fs]
Travel(k, s, fs) == net' = [net EXCEPT ![k][s] = @ \o fs]
Trouble == trouble < MaxTrouble /\ trouble' = trouble + 1 /\ UNCHANGED changes

-----------------------------------------------------------------------------
(* The end of one side: its pipe is dropped, EndSession goes to the server  *)
(* and the route is forgotten.  The writer sends what is queued; a direct   *)
(* connection is then shut down.  EndSession does not wait for the queue.   *)

EndSession == <<F("end")>>

Over(s, why) ==
    /\ Goto(s, "over") /\ reason' = [reason EXCEPT ![s] = why]
    /\ Travel("relay", s, EndSession)
    /\ route' = [route EXCEPT ![s] = FALSE]
    /\ pendingDirect' = (pendingDirect /\ s # "h")

Leave(s, fs) == Put(s, IF link[s] = "direct" THEN fs \o <<F("eof")>> ELSE fs)

\* Forward, the writer of a direct link or the task that feeds the relay.
Forward(s) ==
    /\ out[s] # <<>> /\ out' = [out EXCEPT ![s] = Tail(@)]
    /\ Travel(link[s], s, <<Head(out[s])>>)
    /\ UNCHANGED <<pc, link, rx, closed, engines, knows, perms, outcome, bounds>>

\* What the end of a session at the server or of a stream does to side t.
Cut(t, k) == closed' = [closed EXCEPT ![t] = @ \/ link[t] = k \/ (k = "relay" /\ pc[t] = "await" /\ route[t])]

\* engine.rs dispatch Relay and SessionEnded; the reader of the pipe.
Arrive(k, s) ==
    LET t == Other(s)
        m == Head(net[k][s])
        Taken == IF k = "relay" THEN served /\ route[t] /\ link[t] # "direct"
                                ELSE link[t] = k /\ ~closed[t]
    IN /\ net[k][s] # <<>> /\ m.t # "preamble" /\ ~(m.t = "ack" /\ pc.v = "dial")
       /\ net' = [net EXCEPT ![k][s] = Tail(@)]
       /\ \/ /\ m.t \notin {"end", "eof"}
             /\ rx' = IF Taken THEN [rx EXCEPT ![t] = Append(@, m)] ELSE rx
             /\ UNCHANGED <<closed, engines>>
          \/ /\ m.t = "end" /\ served' = FALSE /\ UNCHANGED <<rx, pendingDirect>>
             /\ IF served THEN route' = [route EXCEPT ![t] = FALSE] /\ Cut(t, k)
                          ELSE UNCHANGED <<route, closed>>
          \/ /\ m.t = "eof" /\ Cut(t, k) /\ UNCHANGED <<rx, engines>>
       /\ UNCHANGED <<pc, link, out, knows, perms, outcome, bounds>>

\* A TCP connection breaks; or one of the two loses the server, which tells the other.
BreakDirect ==
    /\ Trouble /\ \E s \in Sides : link[s] = "direct"
    /\ net' = [net EXCEPT !.direct = [s \in Sides |-> <<F("eof")>>]]
    /\ UNCHANGED <<pc, link, out, rx, closed, engines, knows, perms, outcome>>

BreakRelay(s) ==
    /\ Trouble /\ served /\ served' = FALSE
    /\ net' = [net EXCEPT !.relay = [x \in Sides |-> <<>>]]
    /\ route' = [route EXCEPT ![Other(s)] = FALSE] /\ Cut(Other(s), "relay")
    /\ UNCHANGED <<pc, link, out, rx, pendingDirect, knows, perms, outcome>>

-----------------------------------------------------------------------------
(* The link *)

\* handle_incoming: the host is busy or switched off, or it waits for a link.
HostRefuses == /\ pc.h = "start" /\ Over("h", "refused")
               /\ UNCHANGED <<link, out, rx, closed, served, knows, perms, counted, bounds>>

HostWaits == /\ pc.h = "start" /\ Goto("h", "await")
             /\ route' = [route EXCEPT !.h = TRUE] /\ pendingDirect' = TRUE
             /\ UNCHANGED <<link, traffic, served, knows, perms, outcome, bounds>>

\* connect_direct, if both are in the same network and it is enabled.
Dial == /\ pc.v = "start" /\ Goto("v", "dial") /\ Travel("direct", "v", <<F("preamble")>>)
        /\ UNCHANGED <<link, out, rx, closed, engines, knows, perms, outcome, bounds>>

\* accept_direct: a connection is taken once, for a session that is announced; when
\* await_link has chosen the relay meanwhile, the stream is dropped.  When it chooses the
\* stream, its end of the relay is dropped with what arrived there.
TakeDirect ==
    LET m == net.direct.v IN
    /\ m # <<>> /\ Head(m).t = "preamble"
    /\ net' = [net EXCEPT !.direct.v = Tail(m),
                          !.direct.h = IF ~pendingDirect THEN <<F("eof")>>
                                       ELSE IF pc.h = "await" THEN <<F("ack")>>
                                       ELSE <<F("ack"), F("eof")>>]
    /\ pendingDirect' = FALSE
    /\ IF pendingDirect /\ pc.h = "await"
       THEN /\ Goto("h", "hello") /\ link' = [link EXCEPT !.h = "direct"]
            /\ rx' = [rx EXCEPT !.h = <<>>]
       ELSE UNCHANGED <<pc, link, rx>>
    /\ UNCHANGED <<out, closed, route, served, knows, perms, outcome, bounds>>

Acknowledged == pc.v = "dial" /\ net.direct.h # <<>> /\ Head(net.direct.h).t = "ack"

DirectWorks ==
    /\ Acknowledged
    /\ net' = [net EXCEPT !.direct.h = IF @ = <<>> THEN @ ELSE Tail(@)]
    /\ Goto("v", "hello") /\ link' = [link EXCEPT !.v = "direct"]
    /\ UNCHANGED <<out, rx, closed, engines, knows, perms, outcome, bounds>>

\* Nothing came of it in 1.5 s, or direct connections are off: the relay, where the
\* route is made only now; the attempt is aborted.
TakeRelay ==
    /\ pc.v \in {"start", "dial"} /\ Goto("v", "hello")
    /\ link' = [link EXCEPT !.v = "relay"] /\ route' = [route EXCEPT !.v = TRUE]
    /\ net' = IF pc.v = "dial" THEN [net EXCEPT !.direct.v = Append(@, F("eof")),
                                                !.direct.h = <<>>] ELSE net
    /\ UNCHANGED <<out, rx, closed, pendingDirect, served, knows, perms, outcome, bounds>>

NoRelay == /\ pc.v \in {"start", "dial"} /\ Over("v", "offline")
           /\ UNCHANGED <<link, out, rx, closed, served, knows, perms, counted, bounds>>

\* await_link: the first relayed frame chooses the relay, and is kept for the handshake.
RelayChosen ==
    /\ pc.h = "await" /\ rx.h # <<>> /\ Goto("h", "hello") /\ link' = [link EXCEPT !.h = "relay"]
    /\ UNCHANGED <<traffic, engines, knows, perms, outcome, bounds>>

-----------------------------------------------------------------------------
(* The handshake: viewer_handshake, host_handshake, and the answer *)

\* Both have the same keys when they used the same password and saw the same messages.
SameKeys == knows

SayHello == /\ pc.v = "hello" /\ Goto("v", "reply") /\ Put("v", <<F("hello")>>)
            /\ UNCHANGED <<link, net, rx, closed, engines, knows, perms, outcome, bounds>>

Got(s, m) == rx[s] # <<>> /\ Head(rx[s]).t = m /\ rx' = [rx EXCEPT ![s] = Tail(@)]

\* The answer of the host, or its refusal: no unattended access, or locked out.
Reply ==
    /\ pc.h = "hello" /\ Got("h", "hello")
    /\ \/ Goto("h", "confirm") /\ Put("h", <<F("reply")>>)
       \/ Goto("h", "drain") /\ Put("h", <<F("abort")>>)
    /\ UNCHANGED <<link, net, closed, engines, knows, perms, outcome, bounds>>

Confirm == /\ pc.v = "reply" /\ Got("v", "reply") /\ Goto("v", "confirm")
           /\ Put("v", <<F("confirm")>>)
           /\ UNCHANGED <<link, net, closed, engines, knows, perms, outcome, bounds>>

\* Mutant: the host confirms before it has looked at the viewer's confirmation.
VerifyNothing == TRUE
Verify == SameKeys

Verified == /\ pc.h = "confirm" /\ Verify /\ Got("h", "confirm")
            /\ Goto("h", "decide") /\ Put("h", <<F("confirm")>>)
            /\ UNCHANGED <<link, net, closed, engines, knows, perms, outcome, bounds>>

\* Link.drain comes before EndSession, up to half a second.
BadPassword == /\ pc.h = "confirm" /\ ~Verify /\ Got("h", "confirm")
               /\ Goto("h", "drain") /\ Put("h", <<F("abort")>>) /\ counted' = TRUE
               /\ UNCHANGED <<link, net, closed, engines, knows, perms, reason, bounds>>

\* Whatever the confirmation is worth, a viewer without the password finds it wrong.
Confirmed == /\ pc.v = "confirm" /\ Got("v", "confirm")
             /\ IF SameKeys
                THEN Goto("v", "approval") /\ UNCHANGED <<net, out, route, pendingDirect, reason>>
                ELSE Over("v", "wrongPassword") /\ Leave("v", <<>>)
             /\ UNCHANGED <<link, closed, served, knows, perms, counted, bounds>>

Aborted == /\ pc.v \in {"reply", "confirm"} /\ Got("v", "abort")
           /\ Over("v", IF pc.v = "confirm" THEN "wrongPassword" ELSE "aborted")
           /\ Leave("v", <<>>)
           /\ UNCHANGED <<link, closed, served, knows, perms, counted, bounds>>

\* The owner, a rule or a resume grant lets the viewer in: host::run says so first.
Accept == /\ pc.h = "decide" /\ Goto("h", "live")
          /\ \E p \in Rights : /\ perms' = [perms EXCEPT !.h = p]
                               /\ Put("h", <<FP("accepted", p)>>)
          /\ UNCHANGED <<link, net, rx, closed, engines, knows, outcome, bounds>>

\* host::reject, which waits 200 ms; also when the owner does not answer.
Reject == /\ pc.h = "decide" /\ Goto("h", "drain") /\ Put("h", <<F("rejected")>>)
          /\ UNCHANGED <<link, net, rx, closed, engines, knows, perms, outcome, bounds>>

Answered ==
    /\ pc.v = "approval"
    /\ \/ /\ Got("v", "accepted") /\ Goto("v", "live")
          /\ perms' = [perms EXCEPT !.v = Head(rx.v).p]
          /\ UNCHANGED <<out, net, route, pendingDirect, reason>>
       \/ /\ Got("v", "rejected") /\ Over("v", "rejected") /\ Leave("v", <<>>)
          /\ UNCHANGED perms
    /\ UNCHANGED <<link, closed, served, knows, counted, bounds>>

Waits == {"await", "hello", "confirm", "reply", "approval"}
Awaited(s) == pc[s] \in Waits /\ ~(s = "v" /\ pc.v = "hello")

\* The link ends while a side waits: what arrived before is looked at first.
LinkEnds(s) == /\ Awaited(s) /\ rx[s] = <<>> /\ closed[s] /\ Over(s, "protocol") /\ Leave(s, <<>>)
               /\ UNCHANGED <<link, rx, closed, served, knows, perms, counted, bounds>>

\* Nothing more will come to s: nothing is on its way, and the other side has ended
\* or itself waits for s.
Flying(s) == {k \in Links : net[k][Other(s)] # <<>>}
Silent(s) == /\ rx[s] = <<>> /\ Flying(s) = {} /\ out[Other(s)] = <<>>
             /\ \/ pc[Other(s)] = "over" /\ out[s] = <<>>
                \/ Awaited(Other(s)) /\ out[s] = <<>> /\ Flying(Other(s)) = {} /\ rx[Other(s)] = <<>>
                \/ pc[Other(s)] = "live" /\ (link[s] # link[Other(s)] \/ ~served)

\* Mutant: the host waits for a link as long as it takes.
GivesUpLater(s) == Awaited(s) /\ pc[s] # "await"
GivesUp(s) == Awaited(s)

\* 20 s for a link, 15 s for a step of the handshake, 15 s more than the owner has.
StepTimeout(s) ==
    /\ GivesUp(s) /\ rx[s] = <<>>
    /\ IF Silent(s) THEN UNCHANGED bounds ELSE Trouble
    /\ Over(s, "protocol") /\ Leave(s, <<>>)
    /\ UNCHANGED <<link, rx, closed, served, knows, perms, counted>>

-----------------------------------------------------------------------------
(* The session loops *)

\* SetPermissions; the service ending elevated control does the same.
SetPermissions ==
    /\ pc.h = "live" /\ changes < MaxChanges /\ changes' = changes + 1
    /\ \E p \in Rights \ {perms.h} : /\ perms' = [perms EXCEPT !.h = p]
                                     /\ Put("h", <<FP("perms", p)>>)
    /\ UNCHANGED <<pc, link, net, rx, closed, engines, knows, outcome, trouble>>

PermissionsChanged ==
    /\ pc.v = "live" /\ Got("v", "perms")
    /\ perms' = [perms EXCEPT !.v = Head(rx.v).p]
    /\ UNCHANGED <<pc, link, out, net, closed, engines, knows, outcome, bounds>>

\* Disconnect and Kick: Bye, 150 ms, and the end.
SayBye(s) == /\ pc[s] = "live" /\ Goto(s, "drain") /\ Put(s, <<F("bye")>>)
             /\ reason' = [reason EXCEPT ![s] = "local"]
             /\ UNCHANGED <<link, net, rx, closed, engines, knows, perms, counted, bounds>>

\* The wait is over: what was queued is on its way, unless the network is stuck.
Drained(s) ==
    /\ pc[s] = "drain" /\ IF out[s] = <<>> THEN UNCHANGED bounds ELSE Trouble
    /\ Over(s, IF reason[s] = "local" THEN "local" ELSE "refused") /\ Leave(s, <<>>)
    /\ UNCHANGED <<link, rx, closed, served, knows, perms, counted>>

HearBye(s) == /\ pc[s] = "live" /\ Got(s, "bye") /\ Over(s, "peerClosed") /\ Leave(s, <<>>)
              /\ UNCHANGED <<link, closed, served, knows, perms, counted, bounds>>

\* The end of the pipe, a failed video thread or 15 s without a message: the host
\* still says Bye.  "select!" may look at the end before it looks at a message.
Lost(s) == /\ Over(s, "lost") /\ Leave(s, IF s = "h" THEN <<F("bye")>> ELSE <<>>)
           /\ UNCHANGED <<link, rx, closed, served, knows, perms, counted>>

PipeEnds(s) == pc[s] = "live" /\ closed[s] /\ Lost(s) /\ UNCHANGED bounds
PingTimeout(s) == /\ pc[s] = "live" /\ Lost(s)
                  /\ IF Silent(s) THEN UNCHANGED bounds ELSE Trouble
VideoFails == pc.h = "live" /\ Lost("h") /\ Trouble

-----------------------------------------------------------------------------
Linking == \/ HostRefuses \/ HostWaits \/ Dial \/ TakeDirect \/ DirectWorks
           \/ TakeRelay \/ NoRelay \/ RelayChosen
Shaking == \/ SayHello \/ Reply \/ Confirm \/ Verified \/ BadPassword \/ Confirmed \/ Aborted
           \/ Accept \/ Reject \/ Answered
Moving(s) == Forward(s) \/ \E k \in Links : Arrive(k, s)
Ending(s) == \/ LinkEnds(s) \/ StepTimeout(s) \/ Drained(s) \/ HearBye(s) \/ PipeEnds(s)
             \/ PingTimeout(s)

Next == \/ Linking \/ Shaking \/ PermissionsChanged \/ SetPermissions
        \/ VideoFails \/ BreakDirect
        \/ \E s \in Sides : Moving(s) \/ Ending(s) \/ SayBye(s) \/ BreakRelay(s)

Spec == Init /\ [][Next]_vars

\* Tasks are scheduled, the network and the server move on, timers fire; nobody has
\* to disconnect, and nothing has to break.
Fairness == /\ WF_vars(Linking) /\ WF_vars(Shaking) /\ WF_vars(PermissionsChanged)
            /\ \A s \in Sides : WF_vars(Moving(s)) /\ WF_vars(Ending(s))
FairSpec == Spec /\ Fairness

-----------------------------------------------------------------------------
(* Properties *)

Inside == {"approval", "live"}

\* A viewer that got through the handshake knows the password and is met by a host
\* that got through it too, on the same link; one that learnt that its password is
\* wrong was counted; and both have the same permissions once the news has arrived.
SidesAgree ==
    /\ pc.v \in Inside => /\ knows /\ link.v = link.h
                          /\ pc.h \in {"decide", "live", "drain", "over"}
    /\ reason.v = "wrongPassword" => counted
    /\ (pc.v = "live" /\ pc.h = "live" /\ rx.v = <<>> /\ out.h = <<>> /\ net[link.h].h = <<>>
          /\ served /\ ~closed.v)
       => perms.v = perms.h

\* No side is left alone: when one has ended, the other ends too, whatever was lost.
BothEnd == \A s \in Sides : pc[s] = "over" ~> pc[Other(s)] = "over"

\* README.md: "When the session ends, the temporary password rotates".  A session
\* that the viewer closed in good order is not a lost connection for the host.
GoodbyeIsHeard == (reason.v = "local" /\ pc.h = "over" /\ trouble = 0) => reason.h # "lost"

\* engine_viewer.rs: "Direct first (same network), relay otherwise".  With the right
\* password and nothing broken, the handshake is not cut short.
RelayOtherwise == (knows /\ trouble = 0 /\ reason.h = "none") => reason.v # "protocol"
=============================================================================
