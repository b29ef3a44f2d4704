-------------------------- MODULE ViewerPartsProofs --------------------------
(***************************************************************************)
(* Proofs about ViewerConnect, for any number of views and hosts, any size *)
(* of the queue to the server, any number of attempts, sessions and        *)
(* undelivered events: type correctness, that an answer goes only to a     *)
(* view that waits for it, that a route is in use, and that no session     *)
(* serves two views.  Then about Clipboard, for contents of any kind and   *)
(* any number of copies and failures: no content goes back to the side     *)
(* that copied it, and clipboards at rest hold the same.                   *)
(***************************************************************************)
EXTENDS ViewerParts, SequenceTheorems, TLAPS

\* Where a view has the session it was given.
Using == {"dial", "hello", "live", "clean"}

\* The session that is a view's: the one its receiver holds, or the one of its attempt.
Owned(v) == IF answer[v].kind = "ready" THEN answer[v].session ELSE sess[v]

\* A receiver holds a session only while its view waits for one; a view has a session
\* exactly while it uses it, and knows where to go next only when it cleans up.
Progress ==
    \A v \in Views : /\ (answer[v].kind = "ready") => (pc[v] \in {"ask", "wait"})
                     /\ (answer[v].session # 0) <=> (answer[v].kind = "ready")
                     /\ (sess[v] # 0) <=> (pc[v] \in Using)
                     /\ (pc[v] # "clean") => (after[v] = "gone")

\* A view that tries once more has tries left.
Tried == \A v \in Views : \/ tries[v] <= MaxTries
                          \/ pc[v] \in {"user", "gone"}
                          \/ pc[v] = "clean" /\ after[v] = "user"

\* A session that was handed out is one the server made, and is handed out once.
OneOwner == /\ Len(made) <= MaxSessions
            /\ \A v \in Views : Owned(v) <= Len(made)
            /\ \A u, v \in Views : u # v /\ Owned(u) # 0 => Owned(u) # Owned(v)

\* A session that is still to be handed out is one the server made, nobody has it, and
\* it is announced once.
Undelivered ==
    \A i \in DOMAIN events : events[i].t = "ready" =>
        /\ events[i].session \in 1..Len(made)
        /\ \A v \in Views : Owned(v) # events[i].session
        /\ \A j \in DOMAIN events :
              events[j].t = "ready" /\ events[j].session = events[i].session => i = j

Inv == Consistent /\ Progress /\ Tried /\ OneOwner /\ Undelivered

-----------------------------------------------------------------------------
(* Lemmas *)

LEMMA InitInv == Init => Inv
<1>. SUFFICES ASSUME Init PROVE Inv
  OBVIOUS
<1>1. /\ out \in Seq(Requests) /\ events \in Seq(Events) /\ made \in Seq(Targets)
      /\ Len(made) = 0 /\ DOMAIN events = {}
  BY EmptySeq DEF Init
<1>2. TypeOK
  <2>1. 0 \in 0..MaxSessions /\ 0 \in 0..(MaxTries + 1) /\ current \in 0..Len(made)
    BY <1>1, ViewAssumption DEF Init
  <2>2. answer \in [Views -> [kind : {"none", "ready", "failed", "dropped"}, session : 0..MaxSessions]]
    BY <2>1 DEF Init, Waiting
  <2>3. /\ sess \in [Views -> 0..MaxSessions] /\ tries \in [Views -> 0..(MaxTries + 1)]
        /\ pending \in [Targets -> Views \cup {NoView}]
    BY <2>1 DEF Init
  <2>. QED  BY <1>1, <2>1, <2>2, <2>3 DEF Init, TypeOK
<1>3. PendingIsAwaited /\ RoutesInUse
  BY DEF Init, PendingIsAwaited, RoutesInUse
<1>4. Progress /\ Tried /\ Undelivered
  BY <1>1, ViewAssumption DEF Init, Progress, Tried, Undelivered, Waiting, Using
<1>5. OneOwner
  BY <1>1, ViewAssumption DEF Init, OneOwner, Owned, Waiting
<1>. QED  BY <1>2, <1>3, <1>4, <1>5 DEF Inv, Consistent

\* What a Disconnect changes is no part of the invariant.
LEMMA StutterKeeps == ASSUME Inv, UNCHANGED vars PROVE Inv'
BY DEF vars, Inv, Consistent, TypeOK, PendingIsAwaited, RoutesInUse, Progress, Tried, OneOwner,
       Undelivered, Owned, Using

\* No event about a session is among ms but those of ended ones.
LEMMA QuietTell ==
    ASSUME Inv, NEW ms \in Seq(Events), \A i \in DOMAIN ms : ms[i].t # "ready", Tell(ms),
           UNCHANGED <<made, answer, sess>>
    PROVE  events' \in Seq(Events) /\ Undelivered'
<1>1. /\ events \in Seq(Events) /\ Len(events) \in Nat /\ Len(ms) \in Nat
      /\ DOMAIN events = 1..Len(events) /\ DOMAIN ms = 1..Len(ms)
  BY LenProperties DEF Inv, Consistent, TypeOK
<1>2. \A v \in Views : Owned(v)' = Owned(v)
  BY DEF Owned
<1>3. CASE events' = events
  BY <1>1, <1>2, <1>3 DEF Undelivered, Inv
<1>4. CASE events' = events \o ms
  <2>1. /\ events' \in Seq(Events) /\ Len(events') = Len(events) + Len(ms)
        /\ DOMAIN events' = 1..Len(events')
        /\ \A i \in 1..Len(events') : events'[i] = IF i <= Len(events) THEN events[i]
                                                   ELSE ms[i - Len(events)]
    BY <1>1, <1>4, ConcatProperties, LenProperties
  <2>2. ASSUME NEW i \in DOMAIN events', events'[i].t = "ready"
        PROVE  i \in DOMAIN events /\ events'[i] = events[i]
    <3>1. CASE i <= Len(events)
      BY <1>1, <2>1, <3>1
    <3>2. CASE ~(i <= Len(events))
      <4>1. i - Len(events) \in DOMAIN ms /\ events'[i] = ms[i - Len(events)]
        BY <1>1, <2>1, <3>2
      <4>. QED  BY <2>2, <4>1
    <3>. QED  BY <3>1, <3>2
  <2>. QED  BY <1>2, <2>1, <2>2 DEF Undelivered, Inv
<1>. QED  BY <1>3, <1>4 DEF Tell

LEMMA EndOfType ==
    ASSUME Inv
    PROVE  EndOf(current) \in Seq(Events) /\ \A i \in DOMAIN EndOf(current) : EndOf(current)[i].t # "ready"
<1>1. CASE current = 0
  BY <1>1, EmptySeq DEF EndOf
<1>2. CASE current # 0
  <2>1. Len(made) \in Nat
    BY LenProperties DEF Inv, Consistent, TypeOK
  <2>2. current \in Sessions
    BY <1>2, <2>1, ViewAssumption DEF Inv, Consistent, TypeOK, OneOwner, Sessions
  <2>3. [t |-> "ended", session |-> current] \in Events
    BY <2>2 DEF Events
  <2>. QED  BY <1>2, <2>3 DEF EndOf
<1>. QED  BY <1>1, <1>2

\* A step of the server and the signaling task leaves the views alone: what it has to
\* keep are the types, and what is said of the sessions.
LEMMA ServerKeeps ==
    ASSUME Inv, UNCHANGED <<engine, view, leaving>>,
           net' \in {"up", "down"}, out' \in Seq(Requests), events' \in Seq(Events),
           online' \in BOOLEAN, current' \in 0..Len(made'), made' \in Seq(Targets),
           OneOwner', Undelivered'
    PROVE  Inv'
<1>1. TypeOK'
  BY DEF Inv, Consistent, TypeOK, engine, view
<1>2. PendingIsAwaited' /\ RoutesInUse'
  BY DEF Inv, Consistent, PendingIsAwaited, RoutesInUse, engine, view
<1>3. Progress' /\ Tried'
  BY DEF Inv, Progress, Tried, view
<1>. QED  BY <1>1, <1>2, <1>3 DEF Inv, Consistent

LEMMA OwnersKept ==
    ASSUME Inv, UNCHANGED <<made, answer, sess>>
    PROVE  OneOwner'
BY DEF Inv, OneOwner, Owned

\* The same, when no session is made.
LEMMA NoneMade ==
    ASSUME Inv, UNCHANGED <<made, engine, view, leaving>>,
           net' \in {"up", "down"}, out' \in Seq(Requests), online' \in BOOLEAN,
           current' \in {0, current},
           NEW ms \in Seq(Events), \A i \in DOMAIN ms : ms[i].t # "ready", Tell(ms)
    PROVE  Inv'
<1>1. UNCHANGED <<made, answer, sess>>
  BY DEF view
<1>2. events' \in Seq(Events) /\ Undelivered'
  BY <1>1, QuietTell
<1>3. OneOwner'
  BY <1>1, OwnersKept
<1>4. Len(made) \in Nat /\ current \in 0..Len(made) /\ made' \in Seq(Targets) /\ made' = made
  BY LenProperties DEF Inv, Consistent, TypeOK
<1>5. current' \in 0..Len(made')
  BY <1>4
<1>. QED  BY <1>2, <1>3, <1>4, <1>5, ServerKeeps

-----------------------------------------------------------------------------
(* The server and the connection to it *)

LEMMA OneEvent ==
    ASSUME NEW m \in Events, m.t # "ready"
    PROVE  <<m>> \in Seq(Events) /\ \A i \in DOMAIN <<m>> : <<m>>[i].t # "ready"
OBVIOUS

LEMMA NamedEvents ==
    /\ [t |-> "online"] \in Events /\ [t |-> "offline"] \in Events
    /\ \A t \in Targets : [t |-> "refused", target |-> t] \in Events
BY DEF Events

LEMMA ConnectedKeeps == Inv /\ Connected => Inv'
<1>. SUFFICES ASSUME Inv, Connected PROVE Inv'
  OBVIOUS
<1>1. <<[t |-> "online"]>> \in Seq(Events) /\ \A i \in DOMAIN <<[t |-> "online"]>> : <<[t |-> "online"]>>[i].t # "ready"
  BY OneEvent, NamedEvents
<1>2. /\ Tell(<<[t |-> "online"]>>) /\ UNCHANGED <<made, engine, view, leaving>>
      /\ net' = "up" /\ out' = out /\ online' = online /\ current' = current
  BY DEF Connected, server
<1>. QED  BY <1>1, <1>2, NoneMade DEF Inv, Consistent, TypeOK

LEMMA ConnectionLostKeeps == Inv /\ ConnectionLost => Inv'
<1>. SUFFICES ASSUME Inv, ConnectionLost PROVE Inv'
  OBVIOUS
<1>1. <<[t |-> "offline"]>> \in Seq(Events) /\ \A i \in DOMAIN <<[t |-> "offline"]>> : <<[t |-> "offline"]>>[i].t # "ready"
  BY OneEvent, NamedEvents
<1>2. /\ Tell(<<[t |-> "offline"]>>) /\ UNCHANGED <<made, engine, view, leaving>>
      /\ net' = "down" /\ out' \in Seq(Requests) /\ online' = online /\ current' = 0
  BY EmptySeq DEF ConnectionLost
<1>. QED  BY <1>1, <1>2, NoneMade DEF Inv, Consistent, TypeOK

LEMMA ConnectFailsKeeps == Inv /\ ConnectFails => Inv'
<1>. SUFFICES ASSUME Inv, ConnectFails PROVE Inv'
  OBVIOUS
<1>1. UNCHANGED <<made, answer, sess, events, current>> /\ out' \in Seq(Requests)
  BY EmptySeq DEF ConnectFails, server, view
<1>2. OneOwner' /\ Undelivered'
  BY <1>1, OwnersKept DEF Inv, Undelivered, Owned
<1>. QED
  BY <1>1, <1>2, ServerKeeps DEF ConnectFails, Inv, Consistent, TypeOK

LEMMA EndedByOthersKeeps == Inv /\ EndedByOthers => Inv'
<1>. SUFFICES ASSUME Inv, EndedByOthers PROVE Inv'
  OBVIOUS
<1>. DEFINE ms == EndOf(current)
<1>1. ms \in Seq(Events) /\ \A i \in DOMAIN ms : ms[i].t # "ready"
  BY EndOfType
<1>2. /\ Tell(ms) /\ UNCHANGED <<made, engine, view, leaving>>
      /\ net' = net /\ out' = out /\ online' = online /\ current' = 0
  BY DEF EndedByOthers
<1>. HIDE DEF ms
<1>. QED  BY <1>1, <1>2, NoneMade DEF Inv, Consistent, TypeOK

\* A session the server makes is a new one, whatever it has to say besides.
LEMMA GrantHeard ==
    ASSUME Inv, NEW t \in Targets, Grant(t), UNCHANGED <<online, engine, view, leaving>>,
           net' \in {"up", "down"}, out' \in Seq(Requests), ~jammed
    PROVE  Inv'
<1>. DEFINE s == Len(made) + 1
            m == [t |-> "ready", session |-> s]
            ms == EndOf(current)
<1>1. /\ Len(made) \in Nat /\ Len(made) < MaxSessions /\ made \in Seq(Targets)
      /\ made' \in Seq(Targets) /\ Len(made') = s /\ current' = s
  BY LenProperties, AppendProperties DEF Grant, Inv, Consistent, TypeOK
<1>2. s \in Sessions /\ m \in Events
  BY <1>1, ViewAssumption DEF Sessions, Events
<1>3. ms \in Seq(Events) /\ \A i \in DOMAIN ms : ms[i].t # "ready"
  BY EndOfType
<1>4. events' = events \o (ms \o <<m>>)
  BY DEF Grant, Tell
<1>5. events \in Seq(Events) /\ Len(events) \in Nat /\ Len(ms) \in Nat
  BY <1>3, LenProperties DEF Inv, Consistent, TypeOK
<1>6. /\ ms \o <<m>> \in Seq(Events) /\ Len(ms \o <<m>>) = Len(ms) + 1
      /\ \A i \in 1..Len(ms) : (ms \o <<m>>)[i] = ms[i]
      /\ (ms \o <<m>>)[Len(ms) + 1] = m
  <2>1. <<m>> \in Seq(Events) /\ Len(<<m>>) = 1 /\ <<m>>[1] = m
    BY <1>2
  <2>. HIDE DEF m, ms
  <2>. QED  BY <2>1, <1>3, <1>5, ConcatProperties
<1>7. m.t = "ready" /\ m.session = s
  OBVIOUS
<1>. HIDE DEF m, ms
<1>8. /\ events' \in Seq(Events) /\ Len(events') = Len(events) + Len(ms) + 1
      /\ DOMAIN events' = 1..Len(events') /\ DOMAIN events = 1..Len(events)
      /\ \A i \in 1..Len(events) : events'[i] = events[i]
      /\ \A i \in 1..Len(ms) : events'[Len(events) + i] = ms[i]
      /\ events'[Len(events')] = m
  BY <1>4, <1>5, <1>6, ConcatProperties, LenProperties
<1>9. ASSUME NEW i \in DOMAIN events', events'[i].t = "ready"
      PROVE  \/ i \in DOMAIN events /\ events'[i] = events[i]
             \/ i = Len(events') /\ events'[i].session = s
  <2>1. CASE i <= Len(events)
    BY <1>5, <1>8, <2>1
  <2>2. CASE Len(events) < i /\ i < Len(events')
    <3>1. i - Len(events) \in 1..Len(ms) /\ i = Len(events) + (i - Len(events))
      BY <1>5, <1>8, <2>2
    <3>2. events'[i] = ms[i - Len(events)] /\ DOMAIN ms = 1..Len(ms)
      BY <1>3, <1>8, <3>1, LenProperties
    <3>. QED  BY <1>3, <1>9, <3>1, <3>2
  <2>3. CASE i = Len(events')
    BY <1>7, <1>8, <2>3
  <2>. QED  BY <1>5, <1>8, <2>1, <2>2, <2>3
<1>10. \A v \in Views : Owned(v)' = Owned(v)
  BY DEF Owned, view
<1>11. \A v \in Views : Owned(v) \in Nat /\ Owned(v) <= Len(made)
  BY ViewAssumption DEF Owned, Inv, Consistent, TypeOK, OneOwner
<1>12. OneOwner'
  <2>1. Len(made') <= MaxSessions
    BY <1>1, ViewAssumption
  <2>2. \A v \in Views : Owned(v)' <= Len(made')
    BY <1>1, <1>10, <1>11
  <2>. QED  BY <1>10, <2>1, <2>2 DEF OneOwner, Inv
<1>. HIDE DEF s
<1>13. s \in Nat /\ s = Len(made) + 1 /\ s = Len(made')
  BY <1>1 DEF s
<1>14. ASSUME NEW i \in DOMAIN events', events'[i].t = "ready"
       PROVE  /\ events'[i].session \in 1..Len(made')
              /\ \A v \in Views : Owned(v)' # events'[i].session
  BY <1>1, <1>9, <1>10, <1>11, <1>13, <1>14 DEF Undelivered, Inv
<1>15. ASSUME NEW i \in DOMAIN events', events'[i].t = "ready",
              NEW j \in DOMAIN events', events'[j].t = "ready",
              events'[j].session = events'[i].session
       PROVE  i = j
  <2>1. \A k \in DOMAIN events : events[k].t = "ready" => events[k].session # s
    BY <1>1, <1>13 DEF Undelivered, Inv
  <2>2. /\ (i \in DOMAIN events /\ events'[i] = events[i]) \/ (i = Len(events') /\ events'[i].session = s)
        /\ (j \in DOMAIN events /\ events'[j] = events[j]) \/ (j = Len(events') /\ events'[j].session = s)
    BY <1>9, <1>15
  <2>3. CASE i = Len(events') /\ events'[i].session = s
    BY <1>15, <2>1, <2>2, <2>3
  <2>4. CASE j = Len(events') /\ events'[j].session = s
    BY <1>15, <2>1, <2>2, <2>4
  <2>5. CASE i \in DOMAIN events /\ events'[i] = events[i] /\ j \in DOMAIN events /\ events'[j] = events[j]
    <3>1. events[i].t = "ready" /\ events[j].t = "ready" /\ events[j].session = events[i].session
      BY <1>15, <2>5
    <3>. QED  BY <2>5, <3>1 DEF Undelivered, Inv
  <2>. QED  BY <2>2, <2>3, <2>4, <2>5
<1>16. Undelivered'
  BY <1>14, <1>15 DEF Undelivered
<1>17. online' \in BOOLEAN /\ current' \in 0..Len(made')
  BY <1>1 DEF Inv, Consistent, TypeOK
<1>. QED  BY <1>1, <1>8, <1>12, <1>16, <1>17, ServerKeeps

\* A jammed engine does not hear of it.
LEMMA GrantUnheard ==
    ASSUME Inv, NEW t \in Targets, Grant(t), UNCHANGED <<online, engine, view, leaving>>,
           net' \in {"up", "down"}, out' \in Seq(Requests), jammed
    PROVE  Inv'
<1>1. /\ Len(made) \in Nat /\ Len(made) < MaxSessions /\ made' \in Seq(Targets)
      /\ Len(made') = Len(made) + 1 /\ current' = Len(made')
  BY LenProperties, AppendProperties DEF Grant, Inv, Consistent, TypeOK
<1>2. events' = events /\ \A v \in Views : Owned(v)' = Owned(v)
  BY DEF Grant, Tell, Owned, view
<1>3. \A v \in Views : Owned(v) \in Nat /\ Owned(v) <= Len(made)
  BY ViewAssumption DEF Owned, Inv, Consistent, TypeOK, OneOwner
<1>4. Len(made') <= MaxSessions /\ current' \in 0..Len(made')
  BY <1>1, ViewAssumption
<1>5. \A v \in Views : Owned(v)' <= Len(made')
  BY <1>1, <1>2, <1>3
<1>6. OneOwner'
  BY <1>2, <1>4, <1>5 DEF OneOwner, Inv
<1>7. ASSUME NEW i \in DOMAIN events, events[i].t = "ready"
      PROVE  events[i].session \in 1..Len(made')
  BY <1>1, <1>7 DEF Undelivered, Inv
<1>8. Undelivered'
  BY <1>2, <1>7 DEF Undelivered, Inv
<1>. QED
  BY <1>1, <1>2, <1>4, <1>6, <1>8, ServerKeeps DEF Inv, Consistent, TypeOK

LEMMA GrantKeeps ==
    ASSUME Inv, NEW t \in Targets, Grant(t), UNCHANGED <<online, engine, view, leaving>>,
           net' \in {"up", "down"}, out' \in Seq(Requests)
    PROVE  Inv'
BY GrantHeard, GrantUnheard

LEMMA TransmitKeeps == Inv /\ Transmit => Inv'
<1>. SUFFICES ASSUME Inv, Transmit PROVE Inv'
  OBVIOUS
<1>. DEFINE m == Head(out)
<1>1. /\ m \in Requests /\ out' \in Seq(Requests)
      /\ net' = net /\ net \in {"up", "down"}
      /\ UNCHANGED <<online, engine, view, leaving>> /\ online \in BOOLEAN
      /\ Serve(m)
  BY HeadTailProperties DEF Transmit, Inv, Consistent, TypeOK
<1>. HIDE DEF m
<1>2. CASE m.t = "connect" /\ Grant(m.target)
  <2>1. m.target \in Targets
    BY <1>1, <1>2 DEF Requests
  <2>. QED  BY <1>1, <1>2, <2>1, GrantKeeps
<1>3. CASE m.t = "connect" /\ Refuse(m.target)
  <2>1. m.target \in Targets
    BY <1>1, <1>3 DEF Requests
  <2>. DEFINE r == [t |-> "refused", target |-> m.target]
  <2>2. r \in Events /\ r.t # "ready"
    BY <2>1, NamedEvents
  <2>3. Tell(<<r>>) /\ current' \in {0, current} /\ UNCHANGED made
    BY <1>3 DEF Refuse
  <2>. HIDE DEF r
  <2>4. <<r>> \in Seq(Events) /\ \A i \in DOMAIN <<r>> : <<r>>[i].t # "ready"
    BY <2>2, OneEvent
  <2>. QED  BY <1>1, <2>3, <2>4, NoneMade
<1>4. CASE current' = 0 /\ Tell(EndOf(current)) /\ UNCHANGED made
  BY <1>1, <1>4, EndOfType, NoneMade
<1>5. CASE UNCHANGED <<current, made, events>>
  <2>1. UNCHANGED <<made, answer, sess, events, current>>
    BY <1>1, <1>5 DEF view
  <2>2. OneOwner' /\ Undelivered'
    BY <2>1, OwnersKept DEF Inv, Undelivered, Owned
  <2>. QED
    BY <1>1, <2>1, <2>2, ServerKeeps DEF Inv, Consistent, TypeOK
<1>. QED  BY <1>1, <1>2, <1>3, <1>4, <1>5 DEF Serve

-----------------------------------------------------------------------------
(* The views *)

Places == {"idle", "attempt", "ask", "wait", "dial", "hello", "live", "clean", "backoff",
           "user", "gone"}

\* Who gives up a session, or keeps the one it has, leaves the others theirs.
LEMMA OwnedKept ==
    ASSUME Inv, UNCHANGED <<made, events>>,
           \A v \in Views : Owned(v)' \in {0, Owned(v)}
    PROVE  OneOwner' /\ Undelivered'
<1>1. Len(made) \in Nat
  BY LenProperties DEF Inv, Consistent, TypeOK
<1>2. OneOwner'
  BY <1>1 DEF Inv, OneOwner
<1>3. ASSUME NEW i \in DOMAIN events, events[i].t = "ready"
      PROVE  events[i].session # 0
  BY <1>1, <1>3 DEF Inv, Undelivered
<1>4. Undelivered'
  BY <1>3 DEF Inv, Undelivered
<1>. QED  BY <1>2, <1>4

LEMMA ViewTypes ==
    ASSUME Inv, NEW v \in Views
    PROVE  /\ pc[v] \in Places /\ tries[v] \in 0..(MaxTries + 1)
           /\ after[v] \in {"gone", "user", "backoff"}
           /\ sess[v] \in 0..MaxSessions /\ ever[v] \in BOOLEAN
           /\ answer[v].kind \in {"none", "ready", "failed", "dropped"}
           /\ answer[v].session \in 0..MaxSessions
BY DEF Inv, Consistent, TypeOK, Places

LEMMA WaitingType ==
    /\ Waiting \in [kind : {"none", "ready", "failed", "dropped"}, session : 0..MaxSessions]
    /\ Refused \in [kind : {"none", "ready", "failed", "dropped"}, session : 0..MaxSessions]
    /\ Dropped \in [kind : {"none", "ready", "failed", "dropped"}, session : 0..MaxSessions]
    /\ \A s \in Sessions :
          Ready(s) \in [kind : {"none", "ready", "failed", "dropped"}, session : 0..MaxSessions]
<1>1. 0 \in 0..MaxSessions /\ Sessions \subseteq 0..MaxSessions
  BY ViewAssumption DEF Sessions
<1>. QED  BY <1>1 DEF Waiting, Refused, Dropped, Ready

\* A view that goes from one place to another, neither from one where it waits for an
\* answer or uses a session to one where it does not, nor the other way round.
LEMMA MoveKeeps ==
    ASSUME Inv, NEW v \in Views, NEW p \in Places \ {"clean"}, NEW n \in 0..(MaxTries + 1),
           Goto(v, p), tries' = [tries EXCEPT ![v] = n],
           UNCHANGED <<net, events, online, server, engine, answer, sess, after>>,
           out' \in Seq(Requests), ever' \in [Views -> BOOLEAN], leaving' = leaving,
           pc[v] # "clean", (p \in Using) <=> (pc[v] \in Using),
           pc[v] \in {"ask", "wait"} => p \in {"ask", "wait"},
           pc[v] \in {"hello", "live"} => p \in {"hello", "live"},
           n <= MaxTries \/ p \in {"user", "gone"}
    PROVE  Inv'
<1>1. pc' = [pc EXCEPT ![v] = p] /\ pc \in [Views -> Places] /\ tries \in [Views -> 0..(MaxTries + 1)]
  BY DEF Goto, Inv, Consistent, TypeOK, Places
<1>2. TypeOK'
  BY <1>1 DEF Inv, Consistent, TypeOK, Places, server, engine
<1>3. PendingIsAwaited'
  BY <1>1, ViewAssumption DEF Inv, Consistent, TypeOK, PendingIsAwaited, engine
<1>4. RoutesInUse'
  BY <1>1 DEF Inv, Consistent, RoutesInUse, engine
<1>5. Progress'
  BY <1>1 DEF Inv, Progress
<1>6. Tried'
  BY <1>1 DEF Inv, Tried
<1>7. OneOwner' /\ Undelivered'
  BY OwnedKept DEF Owned, server
<1>. QED  BY <1>2, <1>3, <1>4, <1>5, <1>6, <1>7 DEF Inv, Consistent

\* What follows an attempt: a view that has no tries left waits for its user.
LEMMA NextTryType ==
    ASSUME Inv, NEW v \in Views, NEW how, tries[v] <= MaxTries
    PROVE  /\ NextTry(v, how).pc \in {"gone", "user", "backoff"}
           /\ NextTry(v, how).tries \in 0..(MaxTries + 1)
           /\ NextTry(v, how).tries <= MaxTries \/ NextTry(v, how).pc = "user"
<1>1. tries[v] \in Nat /\ MaxTries \in Nat /\ tries[v] \in 0..(MaxTries + 1)
  BY ViewTypes, ViewAssumption
<1>. DEFINE n == (IF how = "lost" THEN 0 ELSE tries[v]) + 1
<1>2. n \in 0..(MaxTries + 1)
  BY <1>1
<1>. HIDE DEF n
<1>3. NextTry(v, how) = IF how \in {"local", "peer", "final"} \/ (how = "retry" /\ ~ever[v])
                        THEN [pc |-> "gone", tries |-> tries[v]]
                        ELSE [pc |-> IF n > MaxTries THEN "user" ELSE "backoff", tries |-> n]
  BY DEF NextTry, n
<1>. QED  BY <1>1, <1>2, <1>3

\* The attempt of a view ends, and what is left is to end its session.
LEMMA GivesKeeps ==
    ASSUME Inv, NEW v \in Views, NEW how, pc[v] \in {"hello", "live"}, Gives(v, how),
           UNCHANGED <<signal, server, engine, answer, sess, ever, leaving>>
    PROVE  Inv'
<1>. DEFINE a == NextTry(v, how).pc
            n == NextTry(v, how).tries
<1>1. /\ pc' = [pc EXCEPT ![v] = "clean"] /\ after' = [after EXCEPT ![v] = a]
      /\ tries' = [tries EXCEPT ![v] = n]
  BY DEF Gives, Goto
<1>2. tries[v] <= MaxTries
  BY DEF Inv, Tried
<1>3. a \in {"gone", "user", "backoff"} /\ n \in 0..(MaxTries + 1) /\ (n <= MaxTries \/ a = "user")
  BY <1>2, NextTryType
<1>. HIDE DEF a, n
<1>4. TypeOK'
  BY <1>1, <1>3 DEF Inv, Consistent, TypeOK, signal, server, engine
<1>5. PendingIsAwaited'
  BY <1>1, ViewAssumption DEF Inv, Consistent, TypeOK, PendingIsAwaited, engine
<1>6. RoutesInUse'
  BY <1>1 DEF Inv, Consistent, TypeOK, RoutesInUse, engine
<1>7. Progress'
  BY <1>1 DEF Inv, Consistent, TypeOK, Progress, Using
<1>8. Tried'
  BY <1>1, <1>3 DEF Inv, Consistent, TypeOK, Tried
<1>9. OneOwner' /\ Undelivered'
  BY OwnedKept DEF Owned, signal, server
<1>. QED  BY <1>4, <1>5, <1>6, <1>7, <1>8, <1>9 DEF Inv, Consistent

LEMMA AttemptKeeps == ASSUME Inv, NEW v \in Views, Attempt(v) PROVE Inv'
<1>1. pc[v] = "attempt" /\ tries[v] <= MaxTries /\ sess[v] = 0 /\ answer[v].kind # "ready"
  BY DEF Attempt, Inv, Progress, Tried, Using
<1>2. /\ UNCHANGED <<net, events, online, server, routes, jammed, sess, after, ever, leaving>>
      /\ out' \in Seq(Requests) /\ ever' \in [Views -> BOOLEAN]
  BY DEF Attempt, signal, engine, Inv, Consistent, TypeOK
<1>3. CASE ~online
  <2>. DEFINE p == NextTry(v, "retry").pc
              n == NextTry(v, "retry").tries
  <2>1. Goto(v, p) /\ tries' = [tries EXCEPT ![v] = n] /\ UNCHANGED <<pending, answer>>
    BY <1>3 DEF Attempt, Decide
  <2>2. p \in {"gone", "user", "backoff"} /\ n \in 0..(MaxTries + 1) /\ (n <= MaxTries \/ p = "user")
    BY <1>1, NextTryType
  <2>. HIDE DEF p, n
  <2>3. p \in Places \ {"clean"} /\ ~(p \in Using) /\ ~(pc[v] \in Using)
    BY <1>1, <2>2 DEF Places, Using
  <2>. QED  BY <1>1, <1>2, <2>1, <2>2, <2>3, MoveKeeps DEF engine
<1>4. CASE online
  <2>. DEFINE t == TargetOf[v]
  <2>1. /\ t \in Targets /\ pending' = [pending EXCEPT ![t] = v]
        /\ answer' = [u \in Views |-> IF u = v THEN Waiting
                                      ELSE IF u = pending[t] THEN Dropped ELSE answer[u]]
        /\ pc' = [pc EXCEPT ![v] = "ask"] /\ tries' = tries
    BY <1>4, ViewAssumption DEF Attempt, Goto
  <2>2. answer' \in [Views -> [kind : {"none", "ready", "failed", "dropped"}, session : 0..MaxSessions]]
    BY <2>1, WaitingType DEF Inv, Consistent, TypeOK
  <2>3. TypeOK'
    BY <1>2, <2>1, <2>2 DEF Inv, Consistent, TypeOK, server
  <2>4. ASSUME NEW s \in Targets, pending'[s] # NoView
        PROVE  /\ TargetOf[pending'[s]] = s /\ pc'[pending'[s]] \in {"ask", "wait"}
               /\ answer'[pending'[s]] = Waiting
    <3>1. CASE s = t
      BY <2>1, <3>1 DEF Inv, Consistent, TypeOK
    <3>2. CASE s # t
      <4>1. /\ pending'[s] = pending[s] /\ pending[s] \in Views
            /\ TargetOf[pending[s]] = s /\ pc[pending[s]] \in {"ask", "wait"}
            /\ answer[pending[s]] = Waiting
        BY <2>1, <2>4, <3>2 DEF Inv, Consistent, TypeOK, PendingIsAwaited
      <4>2. pending[s] # v /\ pending[s] # pending[t]
        BY <1>1, <2>1, <3>2, <4>1, ViewAssumption DEF Inv, Consistent, TypeOK, PendingIsAwaited
      <4>. QED  BY <2>1, <4>1, <4>2 DEF Inv, Consistent, TypeOK
    <3>. QED  BY <3>1, <3>2
  <2>5. PendingIsAwaited'
    BY <2>4 DEF PendingIsAwaited
  <2>6. RoutesInUse'
    BY <1>1, <1>2, <2>1 DEF Inv, Consistent, TypeOK, RoutesInUse
  <2>7. \A u \in Views : u # v /\ u = pending[t] => answer[u].kind = "none" /\ answer[u].session = 0
    BY <2>1, ViewAssumption DEF Inv, Consistent, PendingIsAwaited, Waiting
  <2>8. \A u \in Views : /\ (answer'[u].kind = "ready") = (u # v /\ answer[u].kind = "ready")
                         /\ (answer'[u].session = 0) = (u = v \/ answer[u].session = 0)
                         /\ u # v /\ answer[u].kind = "ready" => answer'[u] = answer[u]
    BY <2>1, <2>7 DEF Waiting, Dropped
  <2>9. Progress'
    BY <1>1, <1>2, <2>1, <2>8 DEF Inv, Consistent, TypeOK, Progress, Using
  <2>10. Tried'
    BY <1>1, <2>1, <1>2 DEF Inv, Consistent, TypeOK, Tried
  <2>11. \A u \in Views : Owned(u)' \in {0, Owned(u)}
    BY <1>1, <1>2, <2>8 DEF Owned
  <2>12. OneOwner' /\ Undelivered'
    BY <1>2, <2>11, OwnedKept DEF server
  <2>. QED  BY <2>3, <2>5, <2>6, <2>9, <2>10, <2>12 DEF Inv, Consistent
<1>. QED  BY <1>3, <1>4

LEMMA AskKeeps == ASSUME Inv, NEW v \in Views, Ask(v) PROVE Inv'
<1>1. [t |-> "connect", target |-> TargetOf[v]] \in Requests
  BY ViewAssumption DEF Requests
<1>2. out' \in Seq(Requests)
  BY <1>1, AppendProperties DEF Ask, Send, Inv, Consistent, TypeOK
<1>3. /\ pc[v] = "ask" /\ Goto(v, "wait") /\ tries[v] \in 0..(MaxTries + 1) /\ tries[v] <= MaxTries
      /\ tries' = [tries EXCEPT ![v] = tries[v]] /\ ever' \in [Views -> BOOLEAN]
      /\ UNCHANGED <<net, events, online, server, engine, answer, sess, after, leaving>>
  BY DEF Ask, Send, Inv, Consistent, TypeOK, Tried
<1>4. "wait" \in Places \ {"clean"} /\ ~("wait" \in Using) /\ ~("ask" \in Using)
  BY DEF Places, Using
<1>. QED  BY <1>2, <1>3, <1>4, MoveKeeps

LEMMA TakeAnswerKeeps == ASSUME Inv, NEW v \in Views, TakeAnswer(v) PROVE Inv'
<1>1. /\ pc[v] = "wait" /\ tries[v] <= MaxTries /\ sess[v] = 0
      /\ answer' = [answer EXCEPT ![v] = Waiting]
      /\ UNCHANGED <<signal, server, engine, after, ever, leaving>>
      /\ answer[v].kind \in {"ready", "failed"} /\ after[v] = "gone"
  BY DEF TakeAnswer, Inv, Progress, Tried, Using
<1>2. answer' \in [Views -> [kind : {"none", "ready", "failed", "dropped"}, session : 0..MaxSessions]]
  BY <1>1, WaitingType DEF Inv, Consistent, TypeOK
<1>3. \A u \in Views : /\ u # v => answer'[u] = answer[u]
                       /\ u = v => answer'[u].kind = "none" /\ answer'[u].session = 0
  BY <1>1 DEF Inv, Consistent, TypeOK, Waiting
<1>4. \A t \in Targets : pending[t] # v
  BY <1>1, ViewAssumption DEF Inv, Consistent, PendingIsAwaited, Waiting
<1>5. \A t \in Targets : pending[t] # NoView => pending[t] \in Views
  BY DEF Inv, Consistent, TypeOK
<1>6. ASSUME NEW p \in {"dial", "gone", "user", "backoff"}, pc' = [pc EXCEPT ![v] = p]
      PROVE  PendingIsAwaited' /\ RoutesInUse'
  <2>1. PendingIsAwaited'
    BY <1>1, <1>3, <1>4, <1>5, <1>6 DEF Inv, Consistent, TypeOK, PendingIsAwaited, engine
  <2>2. RoutesInUse'
    <3>1. \A u \in Views : u # v => sess'[u] = sess[u]
      BY <1>1 DEF TakeAnswer, Inv, Consistent, TypeOK
    <3>2. ASSUME NEW s \in routes'
          PROVE  \E u \in Views : sess'[u] = s /\ pc'[u] \in {"hello", "live", "clean"}
      <4>1. PICK u \in Views : sess[u] = s /\ pc[u] \in {"hello", "live", "clean"}
        BY <1>1, <3>2 DEF Inv, Consistent, RoutesInUse, engine
      <4>2. u # v /\ pc'[u] = pc[u]
        BY <1>1, <1>6, <4>1 DEF Inv, Consistent, TypeOK
      <4>. QED  BY <3>1, <4>1, <4>2
    <3>. QED  BY <3>2 DEF RoutesInUse
  <2>. QED  BY <2>1, <2>2
<1>7. CASE answer[v].kind = "ready"
  <2>1. /\ pc' = [pc EXCEPT ![v] = "dial"] /\ sess' = [sess EXCEPT ![v] = answer[v].session]
        /\ tries' = tries
    BY <1>7 DEF TakeAnswer, Goto
  <2>2. answer[v].session \in 0..MaxSessions /\ answer[v].session # 0
    BY <1>7, ViewTypes DEF Inv, Progress
  <2>3. TypeOK'
    BY <1>1, <1>2, <2>1, <2>2 DEF Inv, Consistent, TypeOK, signal, server, engine
  <2>4. Progress'
    BY <1>1, <1>3, <2>1, <2>2 DEF Inv, Consistent, TypeOK, Progress, Using
  <2>5. Tried'
    BY <1>1, <2>1 DEF Inv, Consistent, TypeOK, Tried
  <2>6. \A u \in Views : Owned(u)' \in {0, Owned(u)}
    BY <1>3, <1>7, <2>1 DEF Owned, Inv, Consistent, TypeOK
  <2>7. OneOwner' /\ Undelivered'
    BY <1>1, <2>6, OwnedKept DEF server, signal
  <2>. QED  BY <1>6, <2>1, <2>3, <2>4, <2>5, <2>7 DEF Inv, Consistent
<1>8. CASE answer[v].kind # "ready"
  <2>. DEFINE p == NextTry(v, "final").pc
              n == NextTry(v, "final").tries
  <2>1. pc' = [pc EXCEPT ![v] = p] /\ tries' = [tries EXCEPT ![v] = n] /\ sess' = sess
    BY <1>8 DEF TakeAnswer, Decide, Goto
  <2>2. p \in {"gone", "user", "backoff"} /\ n \in 0..(MaxTries + 1) /\ (n <= MaxTries \/ p = "user")
    BY <1>1, NextTryType
  <2>. HIDE DEF p, n
  <2>3. TypeOK'
    BY <1>1, <1>2, <2>1, <2>2 DEF Inv, Consistent, TypeOK, signal, server, engine
  <2>4. Progress'
    BY <1>1, <1>3, <2>1, <2>2 DEF Inv, Consistent, TypeOK, Progress, Using
  <2>5. Tried'
    BY <1>1, <2>1, <2>2 DEF Inv, Consistent, TypeOK, Tried
  <2>6. \A u \in Views : Owned(u)' \in {0, Owned(u)}
    BY <1>3, <1>8, <2>1, <1>1 DEF Owned, Inv, Consistent, TypeOK
  <2>7. OneOwner' /\ Undelivered'
    BY <1>1, <2>6, OwnedKept DEF server, signal
  <2>. QED  BY <1>6, <2>1, <2>2, <2>3, <2>4, <2>5, <2>7 DEF Inv, Consistent
<1>. QED  BY <1>7, <1>8

LEMMA NoAnswerKeeps == ASSUME Inv, NEW v \in Views, NoAnswer(v) PROVE Inv'
<1>. DEFINE p == NextTry(v, "retry").pc
            n == NextTry(v, "retry").tries
<1>1. /\ pc[v] = "wait" /\ tries[v] <= MaxTries /\ sess[v] = 0
      /\ answer[v].kind # "ready" /\ after[v] = "gone"
      /\ UNCHANGED <<signal, server, routes, jammed, sess, after, ever, leaving>>
      /\ pc' = [pc EXCEPT ![v] = p] /\ tries' = [tries EXCEPT ![v] = n]
      /\ pending' = NoPending
      /\ answer' = [u \in Views |-> IF u = v THEN Waiting
                                    ELSE IF u \in Owners THEN Dropped ELSE answer[u]]
  BY DEF NoAnswer, DropOthers, Decide, Goto, Inv, Progress, Tried, Using
<1>2. p \in {"gone", "user", "backoff"} /\ n \in 0..(MaxTries + 1) /\ (n <= MaxTries \/ p = "user")
  BY <1>1, NextTryType
<1>. HIDE DEF p, n
<1>3. answer' \in [Views -> [kind : {"none", "ready", "failed", "dropped"}, session : 0..MaxSessions]]
  BY <1>1, WaitingType DEF Inv, Consistent, TypeOK
<1>4. TypeOK'
  BY <1>1, <1>2, <1>3 DEF Inv, Consistent, TypeOK, signal, server, NoPending
<1>5. PendingIsAwaited'
  BY <1>1 DEF PendingIsAwaited, NoPending
<1>6. RoutesInUse'
  <2>1. ASSUME NEW s \in routes'
        PROVE  \E u \in Views : sess'[u] = s /\ pc'[u] \in {"hello", "live", "clean"}
    <3>1. PICK u \in Views : sess[u] = s /\ pc[u] \in {"hello", "live", "clean"}
      BY <1>1, <2>1 DEF Inv, Consistent, RoutesInUse
    <3>2. u # v /\ pc'[u] = pc[u] /\ sess'[u] = sess[u]
      BY <1>1, <3>1 DEF Inv, Consistent, TypeOK
    <3>. QED  BY <3>1, <3>2
  <2>. QED  BY <2>1 DEF RoutesInUse
<1>7. \A u \in Views : u \in Owners => answer[u].kind = "none" /\ answer[u].session = 0
  BY ViewAssumption DEF Inv, Consistent, PendingIsAwaited, Waiting, Owners
<1>8. \A u \in Views : /\ u # v /\ u \notin Owners => answer'[u] = answer[u]
                       /\ u = v \/ u \in Owners => answer'[u].kind # "ready" /\ answer'[u].session = 0
  BY <1>1 DEF Waiting, Dropped
<1>9. Progress'
  BY <1>1, <1>2, <1>7, <1>8 DEF Inv, Consistent, TypeOK, Progress, Using
<1>10. Tried'
  BY <1>1, <1>2 DEF Inv, Consistent, TypeOK, Tried
<1>11. \A u \in Views : Owned(u)' \in {0, Owned(u)}
  BY <1>1, <1>7, <1>8 DEF Owned
<1>12. OneOwner' /\ Undelivered'
  BY <1>1, <1>11, OwnedKept DEF server, signal
<1>. QED  BY <1>4, <1>5, <1>6, <1>9, <1>10, <1>12 DEF Inv, Consistent

LEMMA DialKeeps == ASSUME Inv, NEW v \in Views, Dial(v) PROVE Inv'
<1>1. /\ pc[v] = "dial" /\ pc' = [pc EXCEPT ![v] = "hello"]
      /\ UNCHANGED <<signal, server, pending, jammed, answer, sess, after, ever, tries, leaving>>
      /\ routes' \in {routes, routes \cup {sess[v]}}
  BY DEF Dial, Goto
<1>2. sess[v] \in Sessions
  BY <1>1, ViewTypes, ViewAssumption DEF Inv, Progress, Using, Sessions
<1>3. TypeOK'
  BY <1>1, <1>2 DEF Inv, Consistent, TypeOK, signal, server
<1>4. PendingIsAwaited'
  BY <1>1, ViewAssumption DEF Inv, Consistent, TypeOK, PendingIsAwaited
<1>5. RoutesInUse'
  <2>1. ASSUME NEW s \in routes'
        PROVE  \E u \in Views : sess'[u] = s /\ pc'[u] \in {"hello", "live", "clean"}
    <3>1. CASE s = sess[v]
      BY <1>1, <3>1 DEF Inv, Consistent, TypeOK
    <3>2. CASE s # sess[v]
      <4>1. PICK u \in Views : sess[u] = s /\ pc[u] \in {"hello", "live", "clean"}
        BY <1>1, <2>1, <3>2 DEF Inv, Consistent, RoutesInUse
      <4>2. u # v /\ pc'[u] = pc[u] /\ sess'[u] = sess[u]
        BY <1>1, <3>2, <4>1 DEF Inv, Consistent, TypeOK
      <4>. QED  BY <4>1, <4>2
    <3>. QED  BY <3>1, <3>2
  <2>. QED  BY <2>1 DEF RoutesInUse
<1>6. Progress' /\ Tried'
  BY <1>1 DEF Inv, Consistent, TypeOK, Progress, Tried, Using
<1>7. OneOwner' /\ Undelivered'
  BY <1>1, OwnedKept DEF Owned, server, signal
<1>. QED  BY <1>3, <1>4, <1>5, <1>6, <1>7 DEF Inv, Consistent

LEMMA HandshakeKeeps == ASSUME Inv, NEW v \in Views, Handshake(v) PROVE Inv'
<1>1. /\ pc[v] = "hello" /\ UNCHANGED <<signal, server, engine, answer, sess, leaving>>
      /\ tries[v] \in 0..(MaxTries + 1) /\ tries[v] <= MaxTries
  BY ViewTypes DEF Handshake, Inv, Tried
<1>2. CASE Goto(v, "live") /\ ever' = [ever EXCEPT ![v] = TRUE] /\ UNCHANGED <<after, tries>>
  <2>1. /\ "live" \in Places \ {"clean"} /\ "live" \in Using /\ pc[v] \in Using
        /\ tries' = [tries EXCEPT ![v] = tries[v]] /\ ever' \in [Views -> BOOLEAN]
        /\ out' \in Seq(Requests)
    BY <1>1, <1>2 DEF Places, Using, Inv, Consistent, TypeOK, signal
  <2>. QED  BY <1>1, <1>2, <2>1, MoveKeeps DEF signal
<1>3. ASSUME NEW how, Gives(v, how), UNCHANGED ever PROVE Inv'
  BY <1>1, <1>3, GivesKeeps
<1>. QED  BY <1>2, <1>3 DEF Handshake

LEMMA LiveKeeps == ASSUME Inv, NEW v \in Views, LiveEnds(v) \/ LiveLeaves(v) PROVE Inv'
BY GivesKeeps DEF LiveEnds, LiveLeaves

\* A view that goes from one resting place to another.
LEMMA RestKeeps ==
    ASSUME Inv, NEW v \in Views, pc[v] \in {"idle", "backoff", "user"},
           NEW p \in {"attempt", "gone"}, Goto(v, p),
           UNCHANGED <<signal, server, engine, answer, sess, after, ever, leaving>>,
           \/ tries' = [tries EXCEPT ![v] = 0]
           \/ tries' = tries /\ (p = "gone" \/ pc[v] # "user")
    PROVE  Inv'
<1>1. /\ p \in Places \ {"clean"} /\ ~(p \in Using) /\ ~(pc[v] \in Using)
      /\ UNCHANGED <<net, events, online>> /\ out' \in Seq(Requests) /\ ever' \in [Views -> BOOLEAN]
      /\ tries[v] \in 0..(MaxTries + 1) /\ 0 \in 0..(MaxTries + 1) /\ 0 <= MaxTries
  BY ViewTypes, ViewAssumption DEF Places, Using, signal, Inv, Consistent, TypeOK
<1>2. CASE tries' = [tries EXCEPT ![v] = 0]
  BY <1>1, <1>2, MoveKeeps
<1>3. CASE tries' = tries /\ (p = "gone" \/ pc[v] # "user")
  <2>1. tries' = [tries EXCEPT ![v] = tries[v]] /\ (p = "gone" \/ tries[v] <= MaxTries)
    BY <1>3 DEF Inv, Consistent, TypeOK, Tried
  <2>. QED  BY <1>1, <2>1, MoveKeeps
<1>. QED  BY <1>2, <1>3

LEMMA CleanUpKeeps == ASSUME Inv, NEW v \in Views, CleanUp(v) PROVE Inv'
<1>1. /\ pc[v] = "clean" /\ pc' = [pc EXCEPT ![v] = after[v]]
      /\ sess' = [sess EXCEPT ![v] = 0] /\ after' = [after EXCEPT ![v] = "gone"]
      /\ routes' = routes \ {sess[v]}
      /\ out' = Append(out, [t |-> "end", session |-> sess[v]])
      /\ UNCHANGED <<net, events, online, server, pending, jammed, answer, ever, tries, leaving>>
  BY DEF CleanUp, Forget, Send, Goto
<1>2. sess[v] \in Sessions /\ after[v] \in {"gone", "user", "backoff"} /\ answer[v].kind # "ready"
  BY <1>1, ViewTypes, ViewAssumption DEF Inv, Progress, Using, Sessions
<1>3. out' \in Seq(Requests)
  BY <1>1, <1>2, AppendProperties DEF Requests, Inv, Consistent, TypeOK
<1>4. TypeOK'
  <2>1. 0 \in 0..MaxSessions
    BY ViewAssumption
  <2>. QED
    BY <1>1, <1>2, <1>3, <2>1 DEF Inv, Consistent, TypeOK, server
<1>5. PendingIsAwaited'
  BY <1>1, ViewAssumption DEF Inv, Consistent, TypeOK, PendingIsAwaited
<1>6. RoutesInUse'
  <2>1. ASSUME NEW s \in routes'
        PROVE  \E u \in Views : sess'[u] = s /\ pc'[u] \in {"hello", "live", "clean"}
    <3>1. PICK u \in Views : sess[u] = s /\ pc[u] \in {"hello", "live", "clean"}
      BY <1>1, <2>1 DEF Inv, Consistent, RoutesInUse
    <3>2. u # v /\ pc'[u] = pc[u] /\ sess'[u] = sess[u]
      BY <1>1, <2>1, <3>1 DEF Inv, Consistent, TypeOK
    <3>. QED  BY <3>1, <3>2
  <2>. QED  BY <2>1 DEF RoutesInUse
<1>7. Progress'
  BY <1>1, <1>2 DEF Inv, Consistent, TypeOK, Progress, Using
<1>8. Tried'
  BY <1>1, <1>2 DEF Inv, Consistent, TypeOK, Tried
<1>9. \A u \in Views : Owned(u)' \in {0, Owned(u)}
  BY <1>1, <1>2 DEF Owned, Inv, Consistent, TypeOK
<1>10. OneOwner' /\ Undelivered'
  BY <1>1, <1>9, OwnedKept DEF server
<1>. QED  BY <1>4, <1>5, <1>6, <1>7, <1>8, <1>10 DEF Inv, Consistent

LEMMA DisconnectKeeps == ASSUME Inv, NEW v \in Views, Disconnect(v) PROVE Inv'
<1>1. leaving' \in [Views -> BOOLEAN] /\ UNCHANGED <<signal, server, engine, view>>
  BY DEF Disconnect, Inv, Consistent, TypeOK
<1>. QED
  BY <1>1 DEF Inv, Consistent, TypeOK, PendingIsAwaited, RoutesInUse, Progress, Tried, OneOwner,
              Undelivered, Owned, Using, signal, server, engine, view

-----------------------------------------------------------------------------
(* The engine *)

\* What a step of the engine has to keep: nobody who waits for no answer is answered.
LEMMA EngineKeeps ==
    ASSUME Inv, Dispatch,
           online' \in BOOLEAN, jammed' \in BOOLEAN, routes' \subseteq Sessions,
           pending' \in [Targets -> Views \cup {NoView}],
           answer' \in [Views -> [kind : {"none", "ready", "failed", "dropped"}, session : 0..MaxSessions]],
           PendingIsAwaited', RoutesInUse', OneOwner', Undelivered',
           \A v \in Views : \/ answer'[v] = answer[v]
                            \/ answer'[v].kind # "ready" /\ answer'[v].session = 0
                            \/ /\ v \in Owners
                               /\ answer'[v].kind = "ready" /\ answer'[v].session # 0
    PROVE  Inv'
<1>1. events # <<>> /\ events' = Tail(events)
      /\ UNCHANGED <<net, out, server, pc, sess, after, ever, tries, leaving>>
  BY DEF Dispatch
<1>2. events' \in Seq(Events)
  BY <1>1, HeadTailProperties DEF Inv, Consistent, TypeOK
<1>3. TypeOK'
  BY <1>1, <1>2 DEF Inv, Consistent, TypeOK, server
<1>4. \A v \in Views : v \in Owners => pc[v] \in {"ask", "wait"}
  BY DEF Owners, Inv, Consistent, PendingIsAwaited
<1>5. Progress'
  BY <1>1, <1>4 DEF Inv, Progress
<1>6. Tried'
  BY <1>1 DEF Inv, Tried
<1>. QED  BY <1>3, <1>5, <1>6 DEF Inv, Consistent

\* The events that are left are still true, when nobody was given a session.
LEMMA TailKeeps ==
    ASSUME Inv, events # <<>>, events' = Tail(events)
    PROVE  /\ Head(events) \in Events /\ Head(events) = events[1] /\ 1 \in DOMAIN events
           /\ \A i \in DOMAIN events' : i + 1 \in DOMAIN events /\ events'[i] = events[i + 1] /\ i # 0 /\ i \in Nat
<1>1. events \in Seq(Events) /\ Len(events) \in Nat /\ DOMAIN events = 1..Len(events)
  BY LenProperties DEF Inv, Consistent, TypeOK
<1>2. /\ Head(events) \in Events /\ events' \in Seq(Events) /\ Len(events') = Len(events) - 1
      /\ \A i \in 1..Len(events') : events'[i] = events[i + 1]
      /\ Len(events) # 0 /\ Head(events) = events[1]
  BY <1>1, HeadTailProperties, EmptySeq
<1>3. DOMAIN events' = 1..Len(events')
  BY <1>2, LenProperties
<1>. QED  BY <1>1, <1>2, <1>3

LEMMA ReadyDropped ==
    ASSUME Inv, events # <<>>, events' = Tail(events), made' = made,
           \A v \in Views : \/ Owned(v)' \in {0, Owned(v)}
                            \/ Head(events).t = "ready" /\ Owned(v)' = Head(events).session
    PROVE  Undelivered'
<1>1. Len(made) \in Nat
  BY LenProperties DEF Inv, Consistent, TypeOK
<1>2. /\ Head(events) = events[1] /\ 1 \in DOMAIN events
      /\ \A i \in DOMAIN events' : i + 1 \in DOMAIN events /\ events'[i] = events[i + 1] /\ i # 0 /\ i \in Nat
  BY TailKeeps
<1>3. ASSUME NEW i \in DOMAIN events', events'[i].t = "ready"
      PROVE  /\ events'[i].session \in 1..Len(made')
             /\ \A v \in Views : Owned(v)' # events'[i].session
             /\ \A j \in DOMAIN events' :
                   events'[j].t = "ready" /\ events'[j].session = events'[i].session => i = j
  <2>1. i + 1 \in DOMAIN events /\ events[i + 1].t = "ready" /\ events'[i].session = events[i + 1].session
    BY <1>2, <1>3
  <2>2. /\ events'[i].session \in 1..Len(made)
        /\ \A v \in Views : Owned(v) # events'[i].session
        /\ \A j \in DOMAIN events :
              events[j].t = "ready" /\ events[j].session = events[i + 1].session => i + 1 = j
    BY <2>1 DEF Inv, Undelivered
  <2>3. Head(events).t = "ready" => Head(events).session # events'[i].session
    BY <1>2, <1>3, <2>1, <2>2
  <2>4. events'[i].session # 0
    BY <1>1, <2>2
  <2>5. ASSUME NEW j \in DOMAIN events', events'[j].t = "ready", events'[j].session = events'[i].session
        PROVE  i = j
    <3>1. j + 1 \in DOMAIN events /\ events[j + 1].t = "ready" /\ events[j + 1].session = events[i + 1].session
      BY <1>2, <2>1, <2>5
    <3>2. i + 1 = j + 1 /\ i \in Nat /\ j \in Nat
      BY <1>2, <1>3, <2>2, <2>5, <3>1
    <3>. QED  BY <3>2
  <2>. QED  BY <2>2, <2>3, <2>4, <2>5
<1>. QED  BY <1>3 DEF Undelivered

\* Of the answers that are pending, one view gets a, and the others learn that they get none.
LEMMA AnswerOneFacts ==
    ASSUME Inv, NEW v \in Owners, NEW a, AnswerOne(v, a)
    PROVE  /\ v \in Views /\ answer[v] = Waiting /\ sess[v] = 0
           /\ answer'[v] = a
           /\ \A u \in Views : u # v /\ u \in Owners => answer'[u] = Dropped /\ answer[u] = Waiting
           /\ \A u \in Views : u # v /\ u \notin Owners => answer'[u] = answer[u]
<1>1. \A u \in Owners : u \in Views /\ answer[u] = Waiting /\ pc[u] \in {"ask", "wait"}
  BY DEF Owners, Inv, Consistent, TypeOK, PendingIsAwaited
<1>. QED  BY <1>1 DEF AnswerOne, Inv, Progress, Using

LEMMA OnReadyKeeps ==
    ASSUME Inv, Dispatch, Head(events).t = "ready", OnReady(Head(events).session),
           UNCHANGED <<online, routes, jammed>>
    PROVE  Inv'
<1>. DEFINE s == Head(events).session
<1>1. /\ events # <<>> /\ events' = Tail(events)
      /\ UNCHANGED <<net, out, server, pc, sess, after, ever, tries, leaving>>
      /\ made' = made
  BY DEF Dispatch, server
<1>2. /\ Len(made) \in Nat /\ Len(made) <= MaxSessions
  BY LenProperties DEF Inv, Consistent, TypeOK, OneOwner
<1>3. s \in 1..Len(made) /\ \A v \in Views : Owned(v) # s
  BY <1>1, TailKeeps DEF Inv, Undelivered
<1>4. s \in Sessions /\ s # 0
  BY <1>2, <1>3, ViewAssumption DEF Sessions
<1>. HIDE DEF s
<1>5. /\ pending' \in [Targets -> Views \cup {NoView}] /\ PendingIsAwaited'
      /\ online' \in BOOLEAN /\ jammed' \in BOOLEAN /\ routes' \subseteq Sessions /\ RoutesInUse'
  BY <1>1 DEF OnReady, NoPending, PendingIsAwaited, RoutesInUse, Inv, Consistent, TypeOK
<1>6. CASE Owners = {}
  <2>1. answer' = answer
    BY <1>6 DEF OnReady
  <2>2. \A v \in Views : Owned(v)' \in {0, Owned(v)}
    BY <1>1, <2>1 DEF Owned
  <2>3. OneOwner'
    BY <1>1, <1>2, <2>2 DEF Inv, OneOwner
  <2>4. Undelivered'
    BY <1>1, <2>2, ReadyDropped
  <2>. QED
    BY <1>5, <2>1, <2>3, <2>4, EngineKeeps DEF Inv, Consistent, TypeOK
<1>7. CASE Owners # {}
  <2>1. PICK v \in Owners : AnswerOne(v, Ready(s))
    BY <1>7 DEF OnReady, s
  <2>2. /\ v \in Views /\ answer[v] = Waiting /\ sess[v] = 0
        /\ answer'[v] = Ready(s)
        /\ \A u \in Views : u # v /\ u \in Owners => answer'[u] = Dropped /\ answer[u] = Waiting
        /\ \A u \in Views : u # v /\ u \notin Owners => answer'[u] = answer[u]
    BY <2>1, AnswerOneFacts
  <2>3. answer' \in [Views -> [kind : {"none", "ready", "failed", "dropped"}, session : 0..MaxSessions]]
    BY <1>4, <2>1, WaitingType DEF AnswerOne, Inv, Consistent, TypeOK
  <2>4. Owned(v)' = s
    BY <2>2 DEF Owned, Ready
  <2>5. \A u \in Views : u # v => Owned(u)' = Owned(u)
    BY <1>1, <2>2 DEF Owned, Waiting, Dropped
  <2>6. OneOwner'
    BY <1>1, <1>2, <1>3, <2>4, <2>5 DEF Inv, OneOwner
  <2>7. Undelivered'
    BY <1>1, <2>4, <2>5, ReadyDropped DEF s
  <2>8. \A u \in Views : \/ answer'[u] = answer[u]
                         \/ answer'[u].kind # "ready" /\ answer'[u].session = 0
                         \/ u \in Owners /\ answer'[u].kind = "ready" /\ answer'[u].session # 0
    BY <1>4, <2>1, <2>2 DEF Dropped, Ready
  <2>. QED  BY <1>5, <2>3, <2>6, <2>7, <2>8, EngineKeeps
<1>. QED  BY <1>6, <1>7

\* A step of the engine that gives nobody a session.
LEMMA NobodyGiven ==
    ASSUME Inv, Dispatch,
           online' \in BOOLEAN, jammed' \in BOOLEAN, routes' \subseteq Sessions,
           pending' \in [Targets -> Views \cup {NoView}],
           answer' \in [Views -> [kind : {"none", "ready", "failed", "dropped"}, session : 0..MaxSessions]],
           PendingIsAwaited', RoutesInUse',
           \A v \in Views : \/ answer'[v] = answer[v]
                            \/ v \in Owners /\ answer'[v].kind # "ready" /\ answer'[v].session = 0
    PROVE  Inv'
<1>1. /\ events # <<>> /\ events' = Tail(events) /\ made' = made /\ sess' = sess
  BY DEF Dispatch, server
<1>2. \A v \in Owners : answer[v].kind # "ready"
  BY DEF Owners, Inv, Consistent, PendingIsAwaited, Waiting
<1>3. \A v \in Views : Owned(v)' = Owned(v)
  BY <1>1, <1>2 DEF Owned
<1>4. OneOwner'
  BY <1>1, <1>3 DEF Inv, OneOwner
<1>5. Undelivered'
  BY <1>1, <1>3, ReadyDropped
<1>. QED  BY <1>4, <1>5, EngineKeeps

LEMMA OnRefusedKeeps ==
    ASSUME Inv, Dispatch, NEW t \in Targets, OnRefused(t), UNCHANGED <<online, routes>>
    PROVE  Inv'
<1>0. jammed' \in BOOLEAN
  BY Zenon DEF OnRefused, Inv, Consistent, TypeOK
<1>1. /\ UNCHANGED <<pc, sess>> /\ online' \in BOOLEAN /\ routes' \subseteq Sessions /\ RoutesInUse'
  BY DEF Dispatch, RoutesInUse, Inv, Consistent, TypeOK
<1>2. CASE pending[t] # NoView
  <2>1. /\ pending' = [pending EXCEPT ![t] = NoView]
        /\ answer' = [answer EXCEPT ![pending[t]] = Refused]
    BY <1>2 DEF OnRefused
  <2>2. pending[t] \in Views /\ pending[t] \in Owners /\ TargetOf[pending[t]] = t
    BY <1>2 DEF Owners, Inv, Consistent, TypeOK, PendingIsAwaited
  <2>3. /\ pending' \in [Targets -> Views \cup {NoView}]
        /\ answer' \in [Views -> [kind : {"none", "ready", "failed", "dropped"}, session : 0..MaxSessions]]
    BY <2>1, <2>2, WaitingType DEF Inv, Consistent, TypeOK
  <2>4. \A v \in Views : \/ answer'[v] = answer[v]
                         \/ v \in Owners /\ answer'[v].kind # "ready" /\ answer'[v].session = 0
    BY <2>1, <2>2 DEF Refused, Inv, Consistent, TypeOK
  <2>5. ASSUME NEW s \in Targets, pending'[s] # NoView
        PROVE  /\ TargetOf[pending'[s]] = s /\ pc'[pending'[s]] \in {"ask", "wait"}
               /\ answer'[pending'[s]] = Waiting
    <3>1. s # t /\ pending'[s] = pending[s] /\ pending[s] \in Views
      BY <2>1, <2>5 DEF Inv, Consistent, TypeOK
    <3>2. /\ TargetOf[pending[s]] = s /\ pc[pending[s]] \in {"ask", "wait"}
          /\ answer[pending[s]] = Waiting
      BY <2>5, <3>1 DEF Inv, Consistent, PendingIsAwaited
    <3>3. answer'[pending[s]] = answer[pending[s]]
      BY <2>1, <2>2, <3>1, <3>2 DEF Inv, Consistent, TypeOK
    <3>. QED  BY <1>1, <3>1, <3>2, <3>3
  <2>6. PendingIsAwaited'
    BY <2>5 DEF PendingIsAwaited
  <2>. QED  BY <1>0, <1>1, <2>3, <2>4, <2>6, NobodyGiven
<1>3. CASE pending[t] = NoView
  <2>1. UNCHANGED <<pending, answer>>
    BY <1>3 DEF OnRefused
  <2>2. PendingIsAwaited'
    BY <1>1, <2>1 DEF PendingIsAwaited, Inv, Consistent
  <2>. QED  BY <1>0, <1>1, <2>1, <2>2, NobodyGiven DEF Inv, Consistent, TypeOK
<1>. QED  BY <1>2, <1>3

LEMMA DispatchKeeps == ASSUME Inv, Dispatch PROVE Inv'
<1>. DEFINE m == Head(events)
<1>1. /\ UNCHANGED <<pc, sess>> /\ events # <<>> /\ events' = Tail(events)
  BY DEF Dispatch
<1>2. m \in Events
  BY <1>1, TailKeeps
<1>3. CASE \/ m.t = "online" /\ online' = TRUE /\ UNCHANGED <<engine, answer>>
           \/ m.t = "offline" /\ online' = FALSE /\ UNCHANGED <<engine, answer>>
  <2>1. online' \in BOOLEAN /\ UNCHANGED <<pending, routes, jammed, answer>>
    BY <1>3 DEF engine
  <2>2. PendingIsAwaited' /\ RoutesInUse'
    BY <1>1, <2>1 DEF Inv, Consistent, PendingIsAwaited, RoutesInUse
  <2>. QED  BY <2>1, <2>2, NobodyGiven DEF Inv, Consistent, TypeOK
<1>4. CASE m.t = "ready" /\ OnReady(m.session) /\ UNCHANGED <<online, routes, jammed>>
  BY <1>4, OnReadyKeeps
<1>5. CASE m.t = "refused" /\ OnRefused(m.target) /\ UNCHANGED <<online, routes>>
  <2>1. m.target \in Targets
    BY <1>2, <1>5 DEF Events
  <2>. QED  BY <1>5, <2>1, OnRefusedKeeps
<1>6. CASE m.t = "ended" /\ routes' = routes \ {m.session} /\ UNCHANGED <<online, pending, jammed, answer>>
  BY <1>1, <1>6, NobodyGiven
  DEF Inv, Consistent, TypeOK, PendingIsAwaited, RoutesInUse
<1>. QED  BY <1>3, <1>4, <1>5, <1>6 DEF Dispatch

-----------------------------------------------------------------------------
(* Theorems *)

LEMMA NextKeeps == Inv /\ [Next]_vars => Inv'
<1>. SUFFICES ASSUME Inv, [Next]_vars PROVE Inv'
  OBVIOUS
<1>1. CASE UNCHANGED vars
  BY <1>1, StutterKeeps
<1>2. ASSUME NEW v \in Views, Trying(v) PROVE Inv'
  <2>1. CASE BackoffOver(v)
    BY <2>1, RestKeeps DEF BackoffOver
  <2>. QED
    BY <1>2, <2>1, AttemptKeeps, TakeAnswerKeeps, NoAnswerKeeps, DialKeeps, HandshakeKeeps DEF Trying
<1>3. ASSUME NEW v \in Views, Leaving(v) \/ LiveEnds(v) PROVE Inv'
  <2>1. CASE Leave(v)
    BY <2>1, RestKeeps DEF Leave
  <2>. QED  BY <1>3, <2>1, LiveKeeps DEF Leaving
<1>4. ASSUME NEW v \in Views, Sending(v) PROVE Inv'
  BY <1>4, AskKeeps, CleanUpKeeps DEF Sending
<1>5. ASSUME NEW v \in Views, Start(v) \/ PressReconnect(v) PROVE Inv'
  BY <1>5, RestKeeps DEF Start, PressReconnect
<1>6. ASSUME NEW v \in Views, Disconnect(v) PROVE Inv'
  BY <1>6, DisconnectKeeps
<1>. QED
  BY <1>1, <1>2, <1>3, <1>4, <1>5, <1>6, ConnectedKeeps, ConnectFailsKeeps, TransmitKeeps,
     ConnectionLostKeeps, EndedByOthersKeeps, DispatchKeeps DEF Next

THEOREM Invariance == Spec => []Inv
<1>. QED  BY InitInv, NextKeeps, PTL DEF Spec

\* An answer of the server goes only to a view that asked for it and still waits, and
\* a route only leads to a view that uses it: the stored senders and the routes of the
\* engine go with where the supervising tasks are.
THEOREM ViewsConsistent == Spec => []Consistent
<1>1. Inv => Consistent
  BY DEF Inv
<1>. QED  BY <1>1, Invariance, PTL

\* No session serves two views, although SessionReady names no target and may be given
\* to the view of another host.
THEOREM OneViewPerSession == Spec => []SessionHasOneView
<1>1. ASSUME Inv PROVE SessionHasOneView
  <2>1. \A v \in Views : Holds(v) \in {0, Owned(v)}
    BY <1>1 DEF Holds, Owned, Inv, Progress, Using
  <2>. QED  BY <1>1, <2>1 DEF SessionHasOneView, Inv, OneOwner
<1>. QED  BY <1>1, Invariance, PTL

-----------------------------------------------------------------------------
(* Clipboard: the inductive invariant *)

Contents == C!Contents \cup {C!Nothing}
Message == [what : Contents, by : C!Sides]

CopiesOK ==
    /\ clip \in [C!Sides -> Message] /\ sent \in [C!Sides -> Seq(Message)]
    /\ fresh \in [C!Sides -> BOOLEAN]
    /\ suppressed \in [C!Sides -> Contents] /\ lastSent \in [C!Sides -> Contents]

\* What a side sends was copied there, and a content that came from the other side is the
\* one it remembers, unless its clipboard refused a content.
Remembered ==
    \A s \in C!Sides \ botched :
       /\ \A i \in DOMAIN sent[s] : sent[s][i].by = s
       /\ clip[s].by # s => lastSent[s] = clip[s].what

\* While nothing has set the clipboards apart: a side has what it remembers or something
\* new, what it remembers is the last that it sent, and, when all that was sent has
\* arrived, what the other one remembers.
Mirrored ==
    apart = {} =>
      /\ \A s \in C!Sides : fresh[s] \/ clip[s].what = lastSent[s]
      /\ \A s \in C!Sides : sent[s] # <<>> => sent[s][Len(sent[s])].what = lastSent[s]
      /\ (\A s \in C!Sides : sent[s] = <<>>) => lastSent.v = lastSent.h

ClipboardInv == CopiesOK /\ Remembered /\ Mirrored

-----------------------------------------------------------------------------
(* Clipboard: lemmas *)

\* A sequence without its element number i, as Take leaves it.
Less(q, i) == SubSeq(q, 1, i - 1) \o SubSeq(q, i + 1, Len(q))

LEMMA LessProperties ==
    ASSUME NEW S, NEW q \in Seq(S), NEW i \in 1..Len(q), NEW r, r = Less(q, i)
    PROVE  /\ r \in Seq(S) /\ Len(r) = Len(q) - 1
           /\ \A j \in 1..Len(r) : r[j] = IF j < i THEN q[j] ELSE q[j + 1]
<1>1. PICK a : a = SubSeq(q, 1, i - 1)
  OBVIOUS
<1>2. PICK b : b = SubSeq(q, i + 1, Len(q))
  OBVIOUS
<1>3. a \in Seq(S) /\ Len(a) = i - 1 /\ \A j \in 1..(i - 1) : a[j] = q[j]
  BY <1>1, SubSeqProperties
<1>4. b \in Seq(S) /\ Len(b) = Len(q) - i /\ \A j \in 1..(Len(q) - i) : b[j] = q[i + j]
  BY <1>2, SubSeqProperties
<1>5. r = a \o b
  BY <1>1, <1>2 DEF Less
<1>6. /\ r \in Seq(S) /\ Len(r) = Len(q) - 1
      /\ \A j \in 1..Len(r) : r[j] = IF j <= i - 1 THEN a[j] ELSE b[j - (i - 1)]
  <2>1. /\ a \o b \in Seq(S) /\ Len(a \o b) = Len(a) + Len(b)
        /\ \A j \in 1..Len(a) + Len(b) : (a \o b)[j] = IF j <= Len(a) THEN a[j] ELSE b[j - Len(a)]
    BY <1>3, <1>4, ConcatProperties, Zenon
  <2>2. Len(q) \in Nat /\ (i - 1) + (Len(q) - i) = Len(q) - 1
    OBVIOUS
  <2>3. r \in Seq(S) /\ Len(r) = Len(q) - 1
    BY <2>1, <2>2, <1>3, <1>4, <1>5
  <2>4. \A j \in 1..Len(r) : r[j] = IF j <= i - 1 THEN a[j] ELSE b[j - (i - 1)]
    BY <2>1, <2>2, <2>3, <1>3, <1>4, <1>5
  <2>. QED  BY <2>3, <2>4
<1>7. ASSUME NEW j \in 1..Len(r) PROVE r[j] = IF j < i THEN q[j] ELSE q[j + 1]
  <2>1. CASE j < i
    <3>1. j \in 1..(i - 1) /\ j <= i - 1
      BY <2>1, <1>6
    <3>. QED  BY <3>1, <2>1, <1>6, <1>3
  <2>2. CASE ~(j < i)
    <3>0. PICK n \in Nat : n = Len(q)
      OBVIOUS
    <3>1. j - (i - 1) \in 1..(Len(q) - i) /\ ~(j <= i - 1) /\ i + (j - (i - 1)) = j + 1
      <4>1. i \in 1..n /\ j \in 1..(n - 1)
        BY <3>0, <1>6
      <4>2. j - (i - 1) \in 1..(n - i) /\ ~(j <= i - 1) /\ i + (j - (i - 1)) = j + 1
        BY <4>1, <2>2
      <4>. QED  BY <3>0, <4>2
    <3>2. r[j] = b[j - (i - 1)] /\ b[j - (i - 1)] = q[i + (j - (i - 1))]
      BY <3>1, <1>6, <1>4
    <3>. QED  BY <3>1, <3>2, <2>2
  <2>. QED  BY <2>1, <2>2
<1>. QED  BY <1>6, <1>7

LEMMA OtherSide ==
    ASSUME NEW s \in C!Sides
    PROVE  /\ C!Other(s) \in C!Sides /\ C!Other(s) # s
           /\ \A u \in C!Sides : u = s \/ u = C!Other(s)
BY DEF C!Other, C!Sides

LEMMA ClipboardInit == C!Init => ClipboardInv
<1>. SUFFICES ASSUME C!Init PROVE ClipboardInv
  OBVIOUS
<1>1. CopiesOK
  <2>1. C!Nothing \in Contents /\ <<>> \in Seq(Message)
    BY DEF Contents
  <2>2. clip \in [C!Sides -> Message]
    BY DEF C!Init, Message, Contents
  <2>. QED  BY <2>1, <2>2 DEF C!Init, CopiesOK
<1>2. Remembered
  BY DEF C!Init, Remembered
<1>3. Mirrored
  BY DEF C!Init, Mirrored
<1>. QED  BY <1>1, <1>2, <1>3 DEF ClipboardInv

\* The users: a new content, a notification, a switch.
LEMMA UsersKeep ==
    ASSUME ClipboardInv, NEW s \in C!Sides,
           \/ \E c \in C!Contents : C!Copy(s, c)
           \/ C!Again(s) \/ C!Switch(s)
    PROVE  ClipboardInv'
<1>1. /\ UNCHANGED <<suppressed, lastSent, sent, apart, botched>>
      /\ fresh' = fresh \/ fresh' = [fresh EXCEPT ![s] = TRUE]
      /\ \/ clip' = clip
         \/ \E c \in C!Contents : /\ clip' = [clip EXCEPT ![s] = [what |-> c, by |-> s]]
                                  /\ fresh' = [fresh EXCEPT ![s] = TRUE]
  BY DEF C!Copy, C!Again, C!Switch
<1>2. clip' = clip \/ \E m \in Message : m.by = s /\ clip' = [clip EXCEPT ![s] = m]
  BY <1>1 DEF Message, Contents
<1>3. /\ clip \in [C!Sides -> Message] /\ fresh \in [C!Sides -> BOOLEAN]
      /\ clip' \in [C!Sides -> Message] /\ fresh' \in [C!Sides -> BOOLEAN]
  BY <1>1, <1>2 DEF ClipboardInv, CopiesOK
<1>4. CopiesOK'
  BY <1>1, <1>3 DEF ClipboardInv, CopiesOK
<1>5. Remembered'
  BY <1>1, <1>2, <1>3 DEF ClipboardInv, Remembered
<1>6. Mirrored'
  <2>. SUFFICES ASSUME apart = {} PROVE \A u \in C!Sides : fresh'[u] \/ clip'[u].what = lastSent[u]
    BY <1>1 DEF ClipboardInv, Mirrored
  <2>. TAKE u \in C!Sides
  <2>1. fresh[u] \/ clip[u].what = lastSent[u]
    BY DEF ClipboardInv, Mirrored
  <2>2. CASE u = s
    BY <1>1, <1>3, <2>1, <2>2
  <2>3. CASE u # s
    BY <1>1, <1>3, <2>1, <2>3
  <2>. QED  BY <2>2, <2>3
<1>. QED  BY <1>4, <1>5, <1>6 DEF ClipboardInv

\* poll_local: what is new is sent, unless it was the other side's.
LEMMA PollKeeps ==
    ASSUME ClipboardInv, NEW s \in C!Sides, C!Poll(s)
    PROVE  ClipboardInv'
<1>. DEFINE c == clip[s].what
<1>1. /\ fresh' = [fresh EXCEPT ![s] = FALSE] /\ UNCHANGED <<clip, botched>>
      /\ \/ apart' # {} /\ UNCHANGED <<suppressed, lastSent, sent>>
         \/ /\ suppressed' = [suppressed EXCEPT ![s] = C!Nothing] /\ UNCHANGED <<lastSent, sent>>
            /\ apart' = {} => (apart = {} /\ lastSent[s] = c)
         \/ /\ c # lastSent[s] /\ lastSent' = [lastSent EXCEPT ![s] = c] /\ UNCHANGED suppressed
            /\ \/ apart' # {} /\ UNCHANGED sent
               \/ sent' = [sent EXCEPT ![s] = Append(@, clip[s])] /\ UNCHANGED apart
         \/ c = lastSent[s] /\ UNCHANGED <<suppressed, lastSent, sent, apart>>
  BY DEF C!Poll
<1>2. /\ clip \in [C!Sides -> Message] /\ fresh \in [C!Sides -> BOOLEAN]
      /\ sent \in [C!Sides -> Seq(Message)] /\ clip[s] \in Message /\ sent[s] \in Seq(Message)
      /\ suppressed \in [C!Sides -> Contents] /\ lastSent \in [C!Sides -> Contents]
      /\ c \in Contents /\ C!Nothing \in Contents
  BY DEF ClipboardInv, CopiesOK, Message, Contents
<1>3. PICK q \in Seq(Message) : q = Append(sent[s], clip[s])
  BY <1>2, AppendProperties
<1>4. /\ Len(q) = Len(sent[s]) + 1 /\ q[Len(q)] = clip[s] /\ q # <<>>
      /\ \A i \in 1..Len(q) : q[i] = clip[s] \/ (i \in DOMAIN sent[s] /\ q[i] = sent[s][i])
  BY <1>2, <1>3, AppendProperties
<1>5. sent' = sent \/ (sent' = [sent EXCEPT ![s] = q] /\ c # lastSent[s])
  BY <1>1, <1>2, <1>3
<1>6. lastSent' = lastSent \/ lastSent' = [lastSent EXCEPT ![s] = c]
  BY <1>1
<1>. HIDE DEF c
<1>7. CopiesOK'
  <2>1. sent' \in [C!Sides -> Seq(Message)]
    BY <1>2, <1>5
  <2>2. lastSent' \in [C!Sides -> Contents]
    BY <1>2, <1>6
  <2>3. suppressed' \in [C!Sides -> Contents]
    BY <1>1, <1>2
  <2>4. fresh' \in [C!Sides -> BOOLEAN]
    BY <1>1, <1>2
  <2>. QED  BY <1>1, <1>2, <2>1, <2>2, <2>3, <2>4 DEF CopiesOK
<1>8. Remembered'
  <2>. SUFFICES ASSUME NEW u \in C!Sides \ botched
                PROVE  /\ \A i \in DOMAIN sent'[u] : sent'[u][i].by = u
                       /\ clip[u].by # u => lastSent'[u] = clip[u].what
    BY <1>1 DEF Remembered
  <2>1. /\ \A i \in DOMAIN sent[u] : sent[u][i].by = u
        /\ clip[u].by # u => lastSent[u] = clip[u].what
    BY DEF ClipboardInv, Remembered
  <2>2. CASE u # s
    BY <1>2, <1>5, <1>6, <2>1, <2>2
  <2>3. CASE u = s
    <3>1. clip[u].by # u => lastSent'[u] = clip[u].what
      BY <1>2, <1>6, <2>1, <2>3 DEF c
    <3>2. c # lastSent[s] => clip[s].by = s
      BY <2>1, <2>3 DEF c
    <3>3. CASE sent' = sent
      BY <2>1, <3>1, <3>3
    <3>4. CASE sent' = [sent EXCEPT ![s] = q] /\ c # lastSent[s]
      <4>1. sent'[u] = q
        BY <1>2, <2>3, <3>4
      <4>2. ASSUME NEW i \in DOMAIN q PROVE q[i].by = u
        <5>1. i \in 1..Len(q)
          BY <1>3
        <5>. QED  BY <5>1, <1>4, <2>1, <2>3, <3>2, <3>4
      <4>. QED  BY <3>1, <4>1, <4>2
    <3>. QED  BY <1>5, <3>3, <3>4
  <2>. QED  BY <2>2, <2>3
<1>9. Mirrored'
  <2>. SUFFICES ASSUME apart' = {}
                PROVE  /\ \A u \in C!Sides : fresh'[u] \/ clip[u].what = lastSent'[u]
                       /\ \A u \in C!Sides : sent'[u] # <<>> =>
                             sent'[u][Len(sent'[u])].what = lastSent'[u]
                       /\ (\A u \in C!Sides : sent'[u] = <<>>) => lastSent'.v = lastSent'.h
    BY <1>1 DEF Mirrored
  <2>0. apart = {}
    BY <1>1 DEF C!Poll
  <2>1. /\ \A u \in C!Sides : fresh[u] \/ clip[u].what = lastSent[u]
        /\ \A u \in C!Sides : sent[u] # <<>> => sent[u][Len(sent[u])].what = lastSent[u]
        /\ (\A u \in C!Sides : sent[u] = <<>>) => lastSent.v = lastSent.h
    BY <2>0 DEF ClipboardInv, Mirrored
  <2>2. CASE UNCHANGED <<lastSent, sent>> /\ c = lastSent[s]
    <3>1. ASSUME NEW u \in C!Sides PROVE fresh'[u] \/ clip[u].what = lastSent'[u]
      BY <1>1, <1>2, <2>1, <2>2 DEF c
    <3>. QED  BY <2>1, <2>2, <3>1
  <2>3. CASE sent' = [sent EXCEPT ![s] = q] /\ lastSent' = [lastSent EXCEPT ![s] = c]
    <3>1. ASSUME NEW u \in C!Sides PROVE fresh'[u] \/ clip[u].what = lastSent'[u]
      BY <1>1, <1>2, <2>1, <2>3 DEF c
    <3>2. sent'[s] = q /\ lastSent'[s] = c /\ q[Len(q)].what = c
      BY <1>2, <1>4, <2>3 DEF c
    <3>3. ASSUME NEW u \in C!Sides, sent'[u] # <<>>
          PROVE  sent'[u][Len(sent'[u])].what = lastSent'[u]
      BY <1>2, <2>1, <2>3, <3>2, <3>3
    <3>. QED  BY <1>4, <3>1, <3>2, <3>3
  <2>. QED  BY <1>1, <1>3, <2>2, <2>3 DEF c
<1>. QED  BY <1>7, <1>8, <1>9 DEF ClipboardInv

\* Msg::Clipboard where the permission is off: the message is gone, the two are apart.
LEMMA IgnoredKeeps ==
    ASSUME ClipboardInv, NEW s \in C!Sides, NEW i \in C!Deliverable(s), C!Ignored(s, i)
    PROVE  ClipboardInv'
<1>1. /\ UNCHANGED <<clip, fresh, suppressed, lastSent, botched>> /\ apart' # {}
      /\ sent' = [sent EXCEPT ![s] = Less(sent[s], i)]
  BY DEF C!Ignored, C!Take, Less
<1>2. /\ sent \in [C!Sides -> Seq(Message)] /\ sent[s] \in Seq(Message) /\ i \in 1..Len(sent[s])
  <2>1. sent \in [C!Sides -> Seq(Message)] /\ sent[s] \in Seq(Message)
    BY DEF ClipboardInv, CopiesOK
  <2>2. i \in DOMAIN sent[s]
    BY DEF C!Deliverable
  <2>. QED  BY <2>1, <2>2
<1>3. PICK r : r = Less(sent[s], i)
  OBVIOUS
<1>4. /\ r \in Seq(Message) /\ Len(r) = Len(sent[s]) - 1
      /\ \A j \in 1..Len(r) : r[j] = IF j < i THEN sent[s][j] ELSE sent[s][j + 1]
      /\ \A j \in 1..Len(r) : \E k \in 1..Len(sent[s]) : r[j] = sent[s][k]
  <2>1. /\ r \in Seq(Message) /\ Len(r) = Len(sent[s]) - 1
        /\ \A j \in 1..Len(r) : r[j] = IF j < i THEN sent[s][j] ELSE sent[s][j + 1]
    BY <1>2, <1>3, LessProperties
  <2>2. ASSUME NEW j \in 1..Len(r) PROVE \E k \in 1..Len(sent[s]) : r[j] = sent[s][k]
    <3>1. PICK n \in Nat : n = Len(sent[s])
      BY <1>2
    <3>2. j \in 1..n /\ j + 1 \in 1..n
      BY <2>1, <3>1
    <3>. QED  BY <2>1, <3>1, <3>2
  <2>. QED  BY <2>1, <2>2
<1>5. sent' = [sent EXCEPT ![s] = r]
  BY <1>1, <1>3
<1>6. ASSUME NEW j \in 1..Len(r) PROVE \E k \in 1..Len(sent[s]) : r[j] = sent[s][k]
  BY <1>4
<1>7. CopiesOK'
  <2>1. sent' \in [C!Sides -> Seq(Message)]
    BY <1>2, <1>4, <1>5
  <2>. QED  BY <1>1, <2>1 DEF ClipboardInv, CopiesOK
<1>8. Remembered'
  <2>. SUFFICES ASSUME NEW u \in C!Sides \ botched, NEW j \in DOMAIN sent'[u]
                PROVE  sent'[u][j].by = u
    BY <1>1 DEF ClipboardInv, Remembered
  <2>1. \A k \in DOMAIN sent[u] : sent[u][k].by = u
    BY DEF ClipboardInv, Remembered
  <2>2. CASE u = s
    <3>1. sent'[u] = r /\ j \in 1..Len(r)
      BY <1>2, <1>4, <1>5, <2>2
    <3>. QED  BY <1>6, <2>1, <2>2, <3>1
  <2>3. CASE u # s
    BY <1>2, <1>5, <2>1, <2>3
  <2>. QED  BY <2>2, <2>3
<1>9. Mirrored'
  BY <1>1 DEF Mirrored
<1>. QED  BY <1>7, <1>8, <1>9 DEF ClipboardInv

\* Msg::Clipboard: the content is remembered, and then in the clipboard, unless the user
\* was faster or the clipboard refused it.
LEMMA AppliedKeeps ==
    ASSUME ClipboardInv, NEW s \in C!Sides, NEW i \in C!Deliverable(s), C!Applied(s, i)
    PROVE  ClipboardInv'
<1>. DEFINE t == C!Other(s)
            m == sent[s][i]
<1>1. /\ suppressed' = [suppressed EXCEPT ![t] = m.what] /\ lastSent' = [lastSent EXCEPT ![t] = m.what]
      /\ sent' = [sent EXCEPT ![s] = Less(sent[s], i)]
  BY DEF C!Applied, C!Take, C!Remember, Less
<1>2. \/ /\ fresh' = [fresh EXCEPT ![t] = FALSE] /\ botched' = botched
         /\ \/ /\ clip' = [clip EXCEPT ![t] = m]
               /\ apart' = {} => \/ C!Agreed(s, m)
                                 \/ apart = {} /\ ~C!Agreed(s, m) /\ ~(i > 1) /\ sent[t] = <<>>
            \/ /\ \E e \in C!Contents : clip' = [clip EXCEPT ![t] = [what |-> e, by |-> t]]
               /\ apart' # {}
      \/ botched' = botched \cup {t} /\ apart' # {} /\ UNCHANGED <<clip, fresh>>
  BY DEF C!Applied
<1>3. /\ sent \in [C!Sides -> Seq(Message)] /\ sent[s] \in Seq(Message) /\ i \in 1..Len(sent[s])
      /\ clip \in [C!Sides -> Message] /\ fresh \in [C!Sides -> BOOLEAN]
      /\ suppressed \in [C!Sides -> Contents] /\ lastSent \in [C!Sides -> Contents]
      /\ m \in Message /\ m.what \in Contents
  <2>1. /\ sent \in [C!Sides -> Seq(Message)] /\ sent[s] \in Seq(Message)
        /\ clip \in [C!Sides -> Message] /\ fresh \in [C!Sides -> BOOLEAN]
        /\ suppressed \in [C!Sides -> Contents] /\ lastSent \in [C!Sides -> Contents]
    BY DEF ClipboardInv, CopiesOK
  <2>2. i \in DOMAIN sent[s]
    BY DEF C!Deliverable
  <2>3. i \in 1..Len(sent[s])
    BY <2>1, <2>2
  <2>4. m \in Message
    BY <2>1, <2>3
  <2>. QED  BY <2>1, <2>3, <2>4 DEF Message
<1>4. t \in C!Sides /\ t # s /\ \A u \in C!Sides : u = s \/ u = t
  BY OtherSide
<1>5. PICK r : r = Less(sent[s], i)
  OBVIOUS
<1>6. /\ r \in Seq(Message) /\ Len(r) = Len(sent[s]) - 1
      /\ \A j \in 1..Len(r) : r[j] = IF j < i THEN sent[s][j] ELSE sent[s][j + 1]
      /\ \A j \in 1..Len(r) : \E k \in 1..Len(sent[s]) : r[j] = sent[s][k]
  <2>1. /\ r \in Seq(Message) /\ Len(r) = Len(sent[s]) - 1
        /\ \A j \in 1..Len(r) : r[j] = IF j < i THEN sent[s][j] ELSE sent[s][j + 1]
    BY <1>3, <1>5, LessProperties
  <2>2. ASSUME NEW j \in 1..Len(r) PROVE \E k \in 1..Len(sent[s]) : r[j] = sent[s][k]
    <3>1. PICK n \in Nat : n = Len(sent[s])
      BY <1>3
    <3>2. j \in 1..n /\ j + 1 \in 1..n
      BY <2>1, <3>1
    <3>. QED  BY <2>1, <3>1, <3>2
  <2>. QED  BY <2>1, <2>2
<1>7. sent' = [sent EXCEPT ![s] = r]
  BY <1>1, <1>5
<1>8. ASSUME NEW j \in 1..Len(r) PROVE \E k \in 1..Len(sent[s]) : r[j] = sent[s][k]
  BY <1>6
<1>9. /\ sent'[s] = r /\ sent'[t] = sent[t] /\ lastSent'[t] = m.what /\ lastSent'[s] = lastSent[s]
  BY <1>1, <1>3, <1>4, <1>7
<1>10. \/ clip' = clip
       \/ clip' = [clip EXCEPT ![t] = m]
       \/ \E n \in Message : n.by = t /\ clip' = [clip EXCEPT ![t] = n]
  BY <1>2, <1>4 DEF Message, Contents
<1>. HIDE DEF t, m
<1>11. CopiesOK'
  <2>1. sent' \in [C!Sides -> Seq(Message)]
    BY <1>3, <1>6, <1>7
  <2>2. suppressed' \in [C!Sides -> Contents] /\ lastSent' \in [C!Sides -> Contents]
    BY <1>1, <1>3
  <2>3. clip' \in [C!Sides -> Message]
    BY <1>3, <1>10
  <2>4. fresh' \in [C!Sides -> BOOLEAN]
    BY <1>2, <1>3
  <2>. QED  BY <2>1, <2>2, <2>3, <2>4 DEF CopiesOK
<1>12. Remembered'
  <2>. SUFFICES ASSUME NEW u \in C!Sides \ botched'
                PROVE  /\ \A j \in DOMAIN sent'[u] : sent'[u][j].by = u
                       /\ clip'[u].by # u => lastSent'[u] = clip'[u].what
    BY DEF Remembered
  <2>1. u \in C!Sides \ botched
    BY <1>2
  <2>2. /\ \A k \in DOMAIN sent[u] : sent[u][k].by = u
        /\ clip[u].by # u => lastSent[u] = clip[u].what
    BY <2>1 DEF ClipboardInv, Remembered
  <2>3. CASE u = s
    <3>1. clip'[u] = clip[u]
      BY <1>3, <1>4, <1>10, <2>3
    <3>2. ASSUME NEW j \in DOMAIN sent'[u] PROVE sent'[u][j].by = u
      <4>1. j \in 1..Len(r)
        BY <1>6, <1>9, <2>3
      <4>. QED  BY <4>1, <1>8, <1>9, <2>2, <2>3
    <3>. QED  BY <1>9, <2>2, <2>3, <3>1, <3>2
  <2>4. CASE u = t
    <3>1. clip' = [clip EXCEPT ![t] = m] \/ \E n \in Message : n.by = t /\ clip' = [clip EXCEPT ![t] = n]
      <4>1. botched' # botched \cup {t}
        BY <2>4
      <4>. QED  BY <1>2, <4>1, <1>4 DEF Message, Contents
    <3>2. clip'[u] = m \/ clip'[u].by = u
      BY <1>3, <1>4, <2>4, <3>1
    <3>. QED  BY <1>9, <2>2, <2>4, <3>2
  <2>. QED  BY <1>4, <2>3, <2>4
<1>13. Mirrored'
  <2>. SUFFICES ASSUME apart' = {}
                PROVE  /\ \A u \in C!Sides : fresh'[u] \/ clip'[u].what = lastSent'[u]
                       /\ \A u \in C!Sides : sent'[u] # <<>> =>
                             sent'[u][Len(sent'[u])].what = lastSent'[u]
                       /\ (\A u \in C!Sides : sent'[u] = <<>>) => lastSent'.v = lastSent'.h
    BY DEF Mirrored
  <2>1. clip' = [clip EXCEPT ![t] = m] /\ fresh' = [fresh EXCEPT ![t] = FALSE]
    BY <1>2
  <2>2. clip'[t] = m /\ clip'[s] = clip[s] /\ fresh'[s] = fresh[s]
    BY <1>3, <1>4, <2>1
  <2>3. CASE C!Agreed(s, m)
    <3>1. /\ sent[t] = <<>> /\ Len(sent[s]) = 1 /\ lastSent[s] = m.what
          /\ fresh[s] \/ clip[s].what = m.what
      BY <2>3 DEF C!Agreed, t
    <3>2. r = <<>>
      BY <1>6, <3>1
    <3>3. \A u \in C!Sides : fresh'[u] \/ clip'[u].what = lastSent'[u]
      BY <1>4, <1>9, <2>2, <3>1
    <3>4. \A u \in C!Sides : sent'[u] = <<>>
      BY <1>4, <1>9, <3>1, <3>2
    <3>5. lastSent'.v = lastSent'.h
      <4>1. lastSent'[s] = lastSent'[t]
        BY <1>9, <3>1
      <4>. QED  BY <4>1 DEF t, C!Other, C!Sides
    <3>. QED  BY <3>3, <3>4, <3>5
  <2>4. CASE apart = {} /\ ~C!Agreed(s, m) /\ ~(i > 1) /\ sent[t] = <<>>
    <3>1. i = 1 /\ sent[s] # <<>>
      BY <1>3, <2>4
    <3>2. /\ fresh[s] \/ clip[s].what = lastSent[s]
          /\ sent[s][Len(sent[s])].what = lastSent[s]
      BY <2>4, <3>1 DEF ClipboardInv, Mirrored
    <3>3. Len(sent[s]) # 1
      <4>. SUFFICES ASSUME Len(sent[s]) = 1 PROVE C!Agreed(s, m)
        BY <2>4
      <4>1. lastSent[s] = m.what
        BY <3>1, <3>2 DEF m
      <4>. QED  BY <2>4, <3>2, <4>1 DEF C!Agreed, t
    <3>4. /\ Len(sent[s]) \in Nat /\ Len(r) \in 1..Len(r) /\ ~(Len(r) < i) /\ Len(r) + 1 = Len(sent[s])
      BY <1>3, <1>6, <3>1, <3>3
    <3>5. r[Len(r)] = sent[s][Len(sent[s])] /\ r # <<>>
      BY <1>6, <3>4
    <3>6. \A u \in C!Sides : fresh'[u] \/ clip'[u].what = lastSent'[u]
      BY <1>4, <1>9, <2>2, <3>2
    <3>7. ASSUME NEW u \in C!Sides, sent'[u] # <<>>
          PROVE  sent'[u][Len(sent'[u])].what = lastSent'[u]
      BY <1>4, <1>9, <2>4, <3>2, <3>5, <3>7
    <3>. QED  BY <1>9, <3>5, <3>6, <3>7
  <2>. QED  BY <1>2, <2>3, <2>4
<1>. QED  BY <1>11, <1>12, <1>13 DEF ClipboardInv

-----------------------------------------------------------------------------
(* Clipboard: theorems *)

LEMMA ClipboardStep == ASSUME ClipboardInv, NextAll PROVE ClipboardInv'
<1>1. CASE OnViewer(Next)
  BY <1>1 DEF OnViewer, clipboard, ClipboardInv, CopiesOK, Remembered, Mirrored
<1>2. CASE OnClipboard(C!Next)
  <2>1. PICK s \in C!Sides : \/ \E c \in C!Contents : C!Copy(s, c)
                             \/ C!Again(s) \/ C!Switch(s) \/ C!Poll(s) \/ C!Receive(s)
    BY <1>2 DEF OnClipboard, C!Next
  <2>2. CASE (\E c \in C!Contents : C!Copy(s, c)) \/ C!Again(s) \/ C!Switch(s)
    BY <2>2, UsersKeep
  <2>3. CASE C!Poll(s)
    BY <2>3, PollKeeps
  <2>4. CASE C!Receive(s)
    <3>1. PICK i \in C!Deliverable(s) : C!Ignored(s, i) \/ C!Applied(s, i) \/ C!Refused(s, i)
      BY <2>4 DEF C!Receive
    <3>2. CASE C!Refused(s, i)
      BY <3>2 DEF C!Refused, ClipboardInv, CopiesOK, Remembered, Mirrored
    <3>. QED  BY <3>1, <3>2, IgnoredKeeps, AppliedKeeps
  <2>. QED  BY <2>1, <2>2, <2>3, <2>4
<1>. QED  BY <1>1, <1>2 DEF NextAll

LEMMA ClipboardAlways == SpecAll => []ClipboardInv
<1>1. InitAll => ClipboardInv
  BY ClipboardInit DEF InitAll
<1>2. ClipboardInv /\ UNCHANGED allVars => ClipboardInv'
  BY DEF allVars, clipboard, ClipboardInv, CopiesOK, Remembered, Mirrored
<1>. QED  BY <1>1, <1>2, ClipboardStep, PTL DEF SpecAll

\* clipboard.rs, loop prevention: what a side sends was copied there, unless a clipboard
\* has refused a content, which apply_remote remembers all the same.
THEOREM NothingGoesBack == SpecAll => []NoEcho
<1>1. ClipboardInv => NoEcho
  BY DEF ClipboardInv, Remembered, NoEcho, C!NoEcho
<1>. QED  BY <1>1, ClipboardAlways, PTL

\* poll_local and apply_remote: when all that was sent has arrived and nothing is new, both
\* clipboards hold the same, but for the reasons the model names.
THEOREM ClipboardsStayEqual == SpecAll => []ClipboardsAgree
<1>1. ClipboardInv => ClipboardsAgree
  BY DEF ClipboardInv, Mirrored, ClipboardsAgree, C!ClipboardsAgree, C!Quiet, C!Sides
<1>. QED  BY <1>1, ClipboardAlways, PTL
=============================================================================
