----------------------------- MODULE HubProofs -----------------------------
(***************************************************************************)
(* Proofs about Hub, for every set of devices, number of connections and   *)
(* sessions and size of an outbox: type correctness, the agreement of the  *)
(* tables, that a superseded connection is on its way out, that frames are *)
(* relayed between the peers of a relayed session only, and that the end   *)
(* of a session is worked off once.                                        *)
(***************************************************************************)
EXTENDS Hub, FiniteSetTheorems, SequenceTheorems, TLAPS

\* A connection that has not come has nothing to do; a relayed frame is the last thing
\* its handler does.
ShapeOK ==
    /\ \A c \in Conns : phase[c] = "new" => todo[c] = <<>>
    /\ \A t \in Tasks : \A k \in DOMAIN todo[t] :
          todo[t][k].do = "relay" => todo[t] = <<todo[t][k]>>

TypeInv == TypeOK /\ ShapeOK

-----------------------------------------------------------------------------
(* The elements of what is still to do *)

LEMMA MsgTypes ==
    /\ Reply \in Msgs
    /\ \A k \in {"incoming", "ready", "ended"}, s \in Nat : About(k, s) \in Msgs
    /\ \A s \in Nat, i \in Ids : [kind |-> "relay", session |-> s, from |-> i] \in Msgs
BY DEF Msgs, Reply, About

LEMMA StepTypes ==
    /\ \A c \in Conns, m \in Msgs : Send(c, m) \in Steps /\ Send(c, m).do = "send"
    /\ \A c \in Conns, m \in Msgs : [do |-> "relay", to |-> c, msg |-> m] \in Steps
    /\ \A s \in Nat : [do |-> "openRow", session |-> s] \in Steps
    /\ \A s \in Nat : [do |-> "closeRow", session |-> s] \in Steps
    /\ [do |-> "detach"] \in Steps
    /\ [do |-> "leave"] \in Steps
BY DEF Steps, Send

LEMMA StepFields ==
    ASSUME NEW x \in Steps
    PROVE  /\ x.do \in {"send", "relay"} => x.to \in Conns /\ x.msg \in Msgs
           /\ x.do = "notify" => x.session \in Nat /\ x.to \subseteq Conns
           /\ x.do \in {"openRow", "closeRow"} => x.session \in Nat
<1>1. CASE x \in [do : {"send"}, to : Conns, msg : Msgs]
  BY <1>1
<1>2. CASE x \in [do : {"relay"}, to : Conns, msg : Msgs]
  BY <1>2
<1>3. CASE x \in [do : {"notify"}, session : Nat, to : SUBSET Conns]
  BY <1>3
<1>4. CASE x \in [do : {"openRow", "closeRow"}, session : Nat]
  BY <1>4
<1>5. CASE x \in [do : {"detach", "leave"}]
  BY <1>5
<1>. QED  BY <1>1, <1>2, <1>3, <1>4, <1>5 DEF Steps

LEMMA PeersType ==
    ASSUME TypeOK, NEW s \in DOMAIN made
    PROVE  /\ made[s] \in [viewer : Ids, host : Ids]
           /\ Viewer(s) \in Ids /\ Host(s) \in Ids /\ Peers(s) \subseteq Ids
           /\ s \in Nat \ {0}
<1>1. made \in Seq([viewer : Ids, host : Ids])
  BY DEF TypeOK
<1>2. s \in 1..Len(made) /\ Len(made) \in Nat
  BY <1>1, LenProperties
<1>3. made[s] \in [viewer : Ids, host : Ids]
  BY <1>1, <1>2, ElementOfSeq
<1>4. s \in Nat \ {0}
  BY <1>1, <1>2
<1>. QED  BY <1>3, <1>4 DEF Viewer, Host, Peers

LEMMA LiveMade == TypeOK => live \subseteq DOMAIN made /\ DOMAIN mode = DOMAIN made
BY DEF TypeOK

LEMMA NotifyType ==
    ASSUME TypeOK, NEW s \in DOMAIN made, NEW D \in [Ids -> Conns \cup {0}]
    PROVE  Notify(s, D) \in Steps /\ Notify(s, D).do = "notify"
<1>1. {D[i] : i \in Peers(s)} \ {0} \subseteq Conns
  BY PeersType
<1>. QED  BY <1>1, PeersType DEF Notify, Steps

LEMMA FreedType ==
    ASSUME TypeOK, NEW S
    PROVE  Freed(S) \in [Ids -> Nat]
BY DEF TypeOK, Freed

LEMMA EndType ==
    ASSUME TypeOK, NEW S, EndLocked(S)
    PROVE  live' \subseteq live /\ inSession' \in [Ids -> Nat]
BY FreedType DEF EndLocked

LEMMA HeadTailSteps ==
    ASSUME NEW s \in Seq(Steps), s # <<>>
    PROVE  Head(s) \in Steps /\ Tail(s) \in Seq(Steps)
OBVIOUS

\* Every action leaves the type of todo and ShapeOK in place if what it gives a task
\* is of the right type and has no relayed frame beside something else.
Plain(q) == \A k \in DOMAIN q : q[k].do # "relay"

\* The same, and no frame of a peer in anything else that is sent.
Innocent(q) == \A k \in DOMAIN q : /\ q[k] \in Steps /\ q[k].do # "relay"
                                   /\ q[k].do = "send" => q[k].msg.kind # "relay"

LEMMA TodoSet ==
    ASSUME TypeInv, NEW t \in Tasks, NEW q \in Seq(Steps),
           todo' = [todo EXCEPT ![t] = q],
           Plain(q) \/ Len(q) = 1,
           t \in Conns => q = <<>> \/ phase'[t] # "new",
           \A c \in Conns : phase'[c] = "new" => phase[c] = "new"
    PROVE  todo' \in [Tasks -> Seq(Steps)] /\ ShapeOK'
<1>1. todo' \in [Tasks -> Seq(Steps)] /\ todo'[t] = q
      /\ \A u \in Tasks : u # t => todo'[u] = todo[u]
  BY DEF TypeInv, TypeOK
<1>2. \A c \in Conns : phase'[c] = "new" => todo'[c] = <<>>
  BY <1>1 DEF TypeInv, ShapeOK, Conns, Tasks
<1>3. Len(q) = 1 => q = <<q[1]>> /\ DOMAIN q = {1}
  OBVIOUS
<1>4. \A u \in Tasks : \A k \in DOMAIN todo'[u] :
          todo'[u][k].do = "relay" => todo'[u] = <<todo'[u][k]>>
  <2>. SUFFICES ASSUME NEW u \in Tasks, NEW k \in DOMAIN todo'[u], todo'[u][k].do = "relay"
                PROVE  todo'[u] = <<todo'[u][k]>>
    OBVIOUS
  <2>1. CASE u = t
    BY <2>1, <1>1, <1>3 DEF Plain
  <2>2. CASE u # t
    BY <2>2, <1>1 DEF TypeInv, ShapeOK
  <2>. QED  BY <2>1, <2>2
<1>. QED  BY <1>1, <1>2, <1>4 DEF ShapeOK

\* The rest of a handler after its first step.
LEMMA RestType ==
    ASSUME TypeInv, NEW t \in Tasks, todo[t] # <<>>
    PROVE  /\ todo[t] \in Seq(Steps) /\ Head(todo[t]) \in Steps /\ Tail(todo[t]) \in Seq(Steps)
           /\ Plain(Tail(todo[t]))
           /\ t \in Conns => phase[t] # "new"
<1>1. todo[t] \in Seq(Steps) /\ Head(todo[t]) \in Steps /\ Tail(todo[t]) \in Seq(Steps)
  BY HeadTailSteps DEF TypeInv, TypeOK
<1>2. ASSUME NEW k \in DOMAIN Tail(todo[t]), Tail(todo[t])[k].do = "relay" PROVE FALSE
  <2>1. k + 1 \in DOMAIN todo[t] /\ todo[t][k + 1] = Tail(todo[t])[k] /\ k \in Nat \ {0}
    BY <1>1
  <2>2. todo[t] = <<todo[t][k + 1]>>
    BY <2>1, <1>2 DEF TypeInv, ShapeOK
  <2>3. DOMAIN todo[t] = {1}
    BY <2>2
  <2>. QED  BY <2>1, <2>3
<1>3. t \in Conns => phase[t] # "new"
  BY DEF TypeInv, ShapeOK
<1>. QED  BY <1>1, <1>2, <1>3 DEF Plain

-----------------------------------------------------------------------------
(* Type correctness *)

LEMMA InitType == Init => TypeInv
<1>. SUFFICES ASSUME Init PROVE TypeInv
  OBVIOUS
<1>1. TypeOK
  BY BoundsAssumption DEF Init, TypeOK, Conns, Tasks
<1>2. ShapeOK
  BY DEF Init, ShapeOK, Conns, Tasks
<1>. QED  BY <1>1, <1>2 DEF TypeInv

LEMMA TasksOfConns == Conns \subseteq Tasks /\ 0 \in Tasks /\ 0 \notin Conns
BY BoundsAssumption DEF Conns, Tasks

LEMMA AttachType ==
    ASSUME TypeInv, NEW c \in Conns, NEW i \in Ids, NEW b \in BOOLEAN, Attach(c, i, b)
    PROVE  TypeInv'
<1>1. <<Send(c, Reply)>> \in Seq(Steps) /\ Plain(<<Send(c, Reply)>>)
  BY MsgTypes, StepTypes DEF Plain
<1>2. phase'[c] = "open"
  BY DEF Attach, TypeInv, TypeOK
<1>3. \A d \in Conns : phase'[d] = "new" => phase[d] = "new"
  BY DEF Attach, TypeInv, TypeOK
<1>4. todo' \in [Tasks -> Seq(Steps)] /\ ShapeOK'
  BY <1>1, <1>2, <1>3, TodoSet, TasksOfConns DEF Attach
<1>5. dev' \in [Conns -> Ids \cup {NoId}] /\ phase' \in [Conns -> {"new", "open", "gone"}]
      /\ \A d \in Conns : phase'[d] = "new" <=> dev'[d] = NoId
  BY IdsAssumption DEF Attach, TypeInv, TypeOK
<1>6. devices' \in [Ids -> Conns \cup {0}] /\ kicked' \subseteq Conns /\ accepting' \subseteq Ids
  BY DEF Attach, TypeInv, TypeOK
<1>. QED  BY <1>4, <1>5, <1>6 DEF TypeInv, TypeOK, Attach

\* What an action must show when it leaves the connections alone.
LEMMA TypeOfTables ==
    ASSUME TypeInv, UNCHANGED <<dev, phase>>,
           todo' \in [Tasks -> Seq(Steps)], ShapeOK',
           outbox' \in [Conns -> Seq(Msgs)], deaf' \subseteq Conns, kicked' \subseteq Conns,
           accepting' \subseteq Ids,
           devices' \in [Ids -> Conns \cup {0}], inSession' \in [Ids -> Nat],
           made' \in Seq([viewer : Ids, host : Ids]), mode' \in Seq(Modes),
           Len(mode') = Len(made'), live' \subseteq 1..Len(made'),
           rows' \in Seq({"none", "open", "closed"}), Len(rows') = Len(made'),
           reported' \in Seq(Nat), Len(reported') = Len(made')
    PROVE  TypeInv'
BY DEF TypeInv, TypeOK

\* The handlers that only give their task something to do, and touch no more than the
\* presence of a device, the mode of a session, or the sessions that live.
LEMMA TypeOfHandler ==
    ASSUME TypeInv, NEW t \in Tasks, NEW q \in Seq(Steps),
           todo' = [todo EXCEPT ![t] = q],
           Plain(q) \/ Len(q) = 1,
           t \in Conns => q = <<>> \/ phase[t] # "new",
           UNCHANGED <<dev, phase, outbox, deaf, made, rows, reported>>,
           kicked' \subseteq Conns, accepting' \subseteq Ids,
           devices' \in [Ids -> Conns \cup {0}], inSession' \in [Ids -> Nat],
           mode' \in Seq(Modes), Len(mode') = Len(mode), live' \subseteq live
    PROVE  TypeInv'
<1>1. todo' \in [Tasks -> Seq(Steps)] /\ ShapeOK'
  BY TodoSet
<1>. QED  BY <1>1, TypeOfTables DEF TypeInv, TypeOK

LEMMA ServingType ==
    ASSUME TypeInv, NEW c \in Conns, Serving(c)
    PROVE  c \in Tasks /\ phase[c] # "new" /\ dev[c] \in Ids /\ todo[c] = <<>>
BY TasksOfConns DEF TypeInv, TypeOK, Serving

LEMMA ModeType ==
    ASSUME TypeOK, NEW s, NEW m \in Modes
    PROVE  [mode EXCEPT ![s] = m] \in Seq(Modes) /\ Len([mode EXCEPT ![s] = m]) = Len(mode)
<1>1. mode \in Seq(Modes)
  BY DEF TypeOK
<1>2. mode \in [1..Len(mode) -> Modes] /\ Len(mode) \in Nat
  BY <1>1, LenProperties
<1>3. [mode EXCEPT ![s] = m] \in [1..Len(mode) -> Modes]
  BY <1>2
<1>4. [mode EXCEPT ![s] = m] \in Seq(Modes)
  BY <1>2, <1>3, SeqDef
<1>5. DOMAIN [mode EXCEPT ![s] = m] = 1..Len(mode)
  BY <1>3
<1>6. Len([mode EXCEPT ![s] = m]) = Len(mode)
  BY <1>2, <1>4, <1>5, LenProperties
<1>. QED  BY <1>4, <1>6

LEMMA KickType ==
    ASSUME TypeInv, NEW c \in Conns, Kick(c)
    PROVE  TypeInv'
<1>1. <<Send(c, Reply), [do |-> "detach"]>> \in Seq(Steps)
  BY MsgTypes, StepTypes
<1>2. Plain(<<Send(c, Reply), [do |-> "detach"]>>)
  BY DEF Plain, Send
<1>. QED
  BY <1>1, <1>2, ServingType, TypeOfHandler DEF Kick, tableVars, TypeInv, TypeOK

LEMMA CloseType ==
    ASSUME TypeInv, NEW c \in Conns, Close(c)
    PROVE  TypeInv'
<1>1. <<[do |-> "detach"]>> \in Seq(Steps) /\ Len(<<[do |-> "detach"]>>) = 1
  BY StepTypes
<1>. QED
  BY <1>1, ServingType, TypeOfHandler DEF Close, connVars, tableVars, TypeInv, TypeOK

LEMMA OutboxType ==
    ASSUME TypeInv, NEW c \in Conns, WriterEnds(c) \/ Write(c)
    PROVE  TypeInv'
<1>1. outbox' \in [Conns -> Seq(Msgs)] /\ deaf' \subseteq Conns
  <2>1. CASE WriterEnds(c)
    BY <2>1 DEF WriterEnds, TypeInv, TypeOK
  <2>2. CASE Write(c)
    <3>1. outbox[c] \in Seq(Msgs) /\ outbox[c] # <<>>
      BY <2>2 DEF Write, TypeInv, TypeOK
    <3>2. Tail(outbox[c]) \in Seq(Msgs)
      BY <3>1
    <3>. QED  BY <2>2, <3>2 DEF Write, TypeInv, TypeOK
  <2>. QED  BY <2>1, <2>2
<1>2. UNCHANGED <<connVars, todo, tableVars, rows, reported>>
  BY DEF WriterEnds, Write
<1>. QED  BY <1>1, <1>2 DEF TypeInv, TypeOK, ShapeOK, connVars, tableVars

LEMMA ReplyType ==
    \A c \in Conns : <<Send(c, Reply)>> \in Seq(Steps) /\ Len(<<Send(c, Reply)>>) = 1
BY MsgTypes, StepTypes

LEMMA SmallRequestType ==
    ASSUME TypeInv, NEW c \in Conns,
           \/ ConnectRefused(c)
           \/ \E b \in BOOLEAN : SetIncomingEnabled(c, b)
           \/ \E s \in live, m \in {"relay", "direct"} : SessionMode(c, s, m)
    PROVE  TypeInv'
<1>1. CASE ConnectRefused(c)
  BY <1>1, ReplyType, ServingType, TypeOfHandler
  DEF ConnectRefused, connVars, tableVars, TypeInv, TypeOK
<1>2. ASSUME NEW b \in BOOLEAN, SetIncomingEnabled(c, b) PROVE TypeInv'
  <2>1. accepting' \subseteq Ids
    BY <1>2, ServingType DEF SetIncomingEnabled, TypeInv, TypeOK
  <2>. QED
    BY <1>2, <2>1 DEF SetIncomingEnabled, connVars, TypeInv, TypeOK, ShapeOK
<1>3. ASSUME NEW s \in live, NEW m \in {"relay", "direct"}, SessionMode(c, s, m) PROVE TypeInv'
  <2>1. mode' \in Seq(Modes) /\ Len(mode') = Len(mode)
    BY <1>3, ModeType DEF SessionMode, Modes, TypeInv
  <2>. QED
    BY <1>3, <2>1 DEF SessionMode, connVars, TypeInv, TypeOK, ShapeOK
<1>. QED  BY <1>1, <1>2, <1>3

LEMMA ReplacedLive ==
    ASSUME NEW v, Replaced(v) # {}
    PROVE  inSession[v] \in live /\ Replaced(v) = {inSession[v]}
BY DEF Replaced

LEMMA CountType ==
    ASSUME TypeOK
    PROVE  Len(made) \in Nat /\ Len(made) + 1 \in Nat
BY LenProperties DEF TypeOK

\* The steps of a Connect: its first one is there only if a session was replaced.
LEMMA ConnectSteps ==
    ASSUME TypeInv, NEW c \in Conns, NEW t \in Ids, Connect(c, t)
    PROVE  /\ todo' \in [Tasks -> Seq(Steps)] /\ ShapeOK'
           /\ \E q \in Seq(Steps) : todo' = [todo EXCEPT ![c] = q] /\ Innocent(q)
<1>. DEFINE v == dev[c]
            n == Len(made) + 1
            a == IF Replaced(v) = {} THEN <<>> ELSE <<Notify(inSession[v], devices)>>
            b == <<[do |-> "openRow", session |-> n],
                   Send(devices[t], About("incoming", n)), Send(c, About("ready", n))>>
<1>1. n \in Nat /\ v \in Ids /\ devices[t] \in Conns /\ phase'[c] # "new" /\ c \in Tasks
  <2>1. n \in Nat
    BY CountType DEF TypeInv
  <2>2. c \in Tasks /\ phase[c] # "new" /\ v \in Ids
    BY ServingType DEF Connect
  <2>3. devices[t] \in Conns /\ phase' = phase
    BY DEF Connect, TypeInv, TypeOK, connVars
  <2>. QED  BY <2>1, <2>2, <2>3
<1>2. About("incoming", n) \in Msgs /\ About("ready", n) \in Msgs
  BY <1>1, MsgTypes
<1>3. b \in Seq(Steps) /\ Innocent(b)
  <2>1. [do |-> "openRow", session |-> n] \in Steps
        /\ Send(devices[t], About("incoming", n)) \in Steps
        /\ Send(c, About("ready", n)) \in Steps
    BY <1>1, <1>2, StepTypes
  <2>. QED  BY <2>1 DEF Innocent, Send, About
<1>4. a \in Seq(Steps) /\ Innocent(a)
  <2>1. CASE Replaced(v) = {}
    BY <2>1 DEF Innocent
  <2>2. CASE Replaced(v) # {}
    <3>1. inSession[v] \in DOMAIN made
      BY <2>2, ReplacedLive, LiveMade DEF TypeInv
    <3>2. Notify(inSession[v], devices) \in Steps /\ Notify(inSession[v], devices).do = "notify"
      BY <3>1, NotifyType DEF TypeInv, TypeOK
    <3>. QED  BY <2>2, <3>2 DEF Innocent
  <2>. QED  BY <2>1, <2>2
<1>5. a \o b \in Seq(Steps) /\ Innocent(a \o b) /\ Plain(a \o b)
  <2>. HIDE DEF a, b
  <2>. QED  BY <1>3, <1>4 DEF Innocent, Plain
<1>6. todo' = [todo EXCEPT ![c] = a \o b]
  BY DEF Connect
<1>7. \A d \in Conns : phase'[d] = "new" => phase[d] = "new"
  BY DEF Connect, connVars
<1>. HIDE DEF a, b
<1>8. todo' \in [Tasks -> Seq(Steps)] /\ ShapeOK'
  BY <1>1, <1>5, <1>6, <1>7, TodoSet
<1>. QED  BY <1>5, <1>6, <1>8

LEMMA ConnectType ==
    ASSUME TypeInv, NEW c \in Conns, NEW t \in Ids, Connect(c, t)
    PROVE  TypeInv'
<1>. DEFINE v == dev[c]
            n == Len(made) + 1
<1>1. v \in Ids /\ n \in Nat
  BY CountType, ServingType DEF Connect, TypeInv
<1>2. made' = Append(made, [viewer |-> v, host |-> t]) /\ mode' = Append(mode, "pending")
      /\ rows' = Append(rows, "none") /\ reported' = Append(reported, 0)
      /\ live' = (live \ Replaced(v)) \cup {n}
      /\ inSession' = [Freed(Replaced(v)) EXCEPT ![v] = n, ![t] = n]
      /\ UNCHANGED <<dev, phase, kicked, outbox, deaf, devices, accepting>>
  BY DEF Connect, connVars
<1>3. made' \in Seq([viewer : Ids, host : Ids]) /\ Len(made') = n
  <2>1. [viewer |-> v, host |-> t] \in [viewer : Ids, host : Ids]
    BY <1>1
  <2>. QED  BY <1>2, <2>1, AppendProperties DEF TypeInv, TypeOK
<1>4. mode' \in Seq(Modes) /\ Len(mode') = n
  BY <1>2, AppendProperties DEF TypeInv, TypeOK, Modes
<1>5. rows' \in Seq({"none", "open", "closed"}) /\ Len(rows') = n
  BY <1>2, AppendProperties DEF TypeInv, TypeOK
<1>6. reported' \in Seq(Nat) /\ Len(reported') = n
  BY <1>2, AppendProperties DEF TypeInv, TypeOK
<1>7. live' \subseteq 1..n
  <2>1. live \subseteq 1..Len(made) /\ Len(made) \in Nat
    BY CountType DEF TypeInv, TypeOK
  <2>2. 1..Len(made) \subseteq 1..n /\ n \in 1..n
    BY <2>1
  <2>. QED  BY <1>2, <2>1, <2>2
<1>8. inSession' \in [Ids -> Nat]
  BY <1>1, <1>2, FreedType DEF TypeInv
<1>. HIDE DEF v, n
<1>. QED
  BY <1>2, <1>3, <1>4, <1>5, <1>6, <1>7, <1>8, ConnectSteps, TypeOfTables DEF TypeInv, TypeOK

LEMMA ConnectBusyType ==
    ASSUME TypeInv, NEW c \in Conns, NEW t \in Ids, ConnectBusy(c, t)
    PROVE  TypeInv'
<1>1. live' \subseteq live /\ inSession' \in [Ids -> Nat]
  BY EndType DEF ConnectBusy, TypeInv
<1>. QED
  BY <1>1, ReplyType, ServingType, TypeOfHandler DEF ConnectBusy, connVars, TypeInv, TypeOK

LEMMA RelayType ==
    ASSUME TypeInv, NEW c \in Conns, NEW s \in live, Relay(c, s)
    PROVE  TypeInv'
<1>. DEFINE to == devices[PeerOf(s, dev[c])]
            f == [do |-> "relay", to |-> to,
                  msg |-> [kind |-> "relay", session |-> s, from |-> dev[c]]]
            q == IF to = 0 THEN <<>> ELSE <<f>>
<1>1. c \in Tasks /\ phase[c] # "new" /\ dev[c] \in Ids
  BY ServingType DEF Relay
<1>2. s \in DOMAIN made /\ s \in Nat /\ PeerOf(s, dev[c]) \in Ids
  BY LiveMade, PeersType DEF PeerOf, TypeInv
<1>3. to # 0 => f \in Steps
  <2>1. to # 0 => to \in Conns
    BY <1>2 DEF TypeInv, TypeOK
  <2>2. f.msg \in Msgs
    BY <1>1, <1>2, MsgTypes
  <2>. QED  BY <2>1, <2>2, StepTypes
<1>4. q \in Seq(Steps) /\ (Plain(q) \/ Len(q) = 1)
  <2>. HIDE DEF f
  <2>. QED  BY <1>3 DEF Plain
<1>5. mode' \in Seq(Modes) /\ Len(mode') = Len(mode)
  BY ModeType DEF Relay, Modes, TypeInv
<1>6. todo' = [todo EXCEPT ![c] = q]
      /\ UNCHANGED <<connVars, outbox, deaf, devices, accepting, made, live, inSession, rows, reported>>
  BY DEF Relay
<1>. HIDE DEF q
<1>. QED
  BY <1>1, <1>4, <1>5, <1>6, TypeOfHandler DEF connVars, TypeInv, TypeOK

LEMMA EndSessionType ==
    ASSUME TypeInv, NEW c \in Conns, NEW s \in live, EndSession(c, s)
    PROVE  TypeInv'
<1>1. live' \subseteq live /\ inSession' \in [Ids -> Nat]
  BY EndType DEF EndSession, TypeInv
<1>2. Notify(s, devices) \in Steps
  BY LiveMade, NotifyType DEF TypeInv, TypeOK
<1>3. <<Notify(s, devices)>> \in Seq(Steps) /\ Len(<<Notify(s, devices)>>) = 1
  BY <1>2
<1>. QED
  BY <1>1, <1>3, ServingType, TypeOfHandler DEF EndSession, connVars, TypeInv, TypeOK

LEMMA LiveFinite == TypeOK => IsFiniteSet(live)
<1>. SUFFICES ASSUME TypeOK PROVE IsFiniteSet(live)
  OBVIOUS
<1>1. IsFiniteSet(1..Len(made))
  <2>1. Len(made) \in Int /\ 1 \in Int
    BY CountType
  <2>. QED  BY <2>1, FS_Interval
<1>2. live \subseteq 1..Len(made)
  BY DEF TypeOK
<1>. QED  BY <1>1, <1>2, FS_Subset

LEMMA SweepType ==
    ASSUME TypeInv, Sweep
    PROVE  TypeInv'
<1>1. PICK S \in (SUBSET {s \in live : mode[s] # "direct" /\ rows[s] # "none"}) \ {{}} :
          /\ EndLocked(S)
          /\ \E order \in [1..Cardinality(S) -> S] :
                todo' = [todo EXCEPT ![0] = [k \in DOMAIN order |-> Notify(order[k], devices)]]
  BY DEF Sweep
<1>2. PICK order \in [1..Cardinality(S) -> S] :
          todo' = [todo EXCEPT ![0] = [k \in DOMAIN order |-> Notify(order[k], devices)]]
  BY <1>1
<1>. DEFINE q == [k \in DOMAIN order |-> Notify(order[k], devices)]
<1>3. Cardinality(S) \in Nat
  <2>1. S \subseteq live
    OBVIOUS
  <2>. QED  BY <2>1, LiveFinite, FS_Subset, FS_CardinalityType DEF TypeInv
<1>4. \A k \in 1..Cardinality(S) :
          Notify(order[k], devices) \in Steps /\ Notify(order[k], devices).do = "notify"
  BY LiveMade, NotifyType DEF TypeInv, TypeOK
<1>5. q \in [1..Cardinality(S) -> Steps] /\ DOMAIN order = 1..Cardinality(S)
  BY <1>4
<1>6. q \in Seq(Steps)
  BY <1>3, <1>5, SeqDef
<1>7. Plain(q)
  BY <1>4, <1>5 DEF Plain
<1>8. live' \subseteq live /\ inSession' \in [Ids -> Nat]
  BY <1>1, EndType DEF TypeInv
<1>9. UNCHANGED <<connVars, outbox, deaf, devices, accepting, made, mode, rows, reported>>
  BY DEF Sweep
<1>10. 0 \in Tasks /\ 0 \notin Conns /\ todo' = [todo EXCEPT ![0] = q]
  BY <1>2, TasksOfConns
<1>. HIDE DEF q
<1>. QED
  BY <1>6, <1>7, <1>8, <1>9, <1>10, TypeOfHandler DEF connVars, TypeInv, TypeOK

LEMMA ExceptType ==
    ASSUME NEW S, NEW f \in Seq(S), NEW s, NEW x, s \in DOMAIN f => x \in S
    PROVE  [f EXCEPT ![s] = x] \in Seq(S) /\ Len([f EXCEPT ![s] = x]) = Len(f)
<1>1. f \in [1..Len(f) -> S] /\ Len(f) \in Nat /\ DOMAIN f = 1..Len(f)
  BY LenProperties
<1>2. [f EXCEPT ![s] = x] \in [1..Len(f) -> S]
  BY <1>1
<1>3. [f EXCEPT ![s] = x] \in Seq(S) /\ DOMAIN [f EXCEPT ![s] = x] = 1..Len(f)
  BY <1>1, <1>2, SeqDef
<1>. QED  BY <1>1, <1>3, LenProperties

LEMMA StepSendType ==
    ASSUME TypeInv, NEW t \in Tasks, StepSend(t)
    PROVE  TypeInv'
<1>. DEFINE x == Head(todo[t])
<1>1. todo[t] # <<>> /\ x.do \in {"send", "relay"} /\ todo' = [todo EXCEPT ![t] = Tail(@)]
      /\ UNCHANGED <<connVars, deaf, tableVars, rows, reported>>
  BY DEF StepSend, Rest
<1>2. x \in Steps /\ Tail(todo[t]) \in Seq(Steps) /\ Plain(Tail(todo[t]))
      /\ (t \in Conns => phase[t] # "new")
  BY <1>1, RestType
<1>3. x.to \in Conns /\ x.msg \in Msgs
  BY <1>1, <1>2, StepFields
<1>4. outbox' \in [Conns -> Seq(Msgs)]
  <2>1. CASE outbox' = outbox
    BY <2>1 DEF TypeInv, TypeOK
  <2>2. CASE outbox' = [outbox EXCEPT ![x.to] = Append(@, x.msg)]
    <3>1. Append(outbox[x.to], x.msg) \in Seq(Msgs)
      BY <1>3, AppendProperties DEF TypeInv, TypeOK
    <3>. QED  BY <2>2, <3>1 DEF TypeInv, TypeOK
  <2>. QED  BY <2>1, <2>2 DEF StepSend
<1>5. todo' \in [Tasks -> Seq(Steps)] /\ ShapeOK'
  BY <1>1, <1>2, TodoSet DEF connVars
<1>. QED  BY <1>1, <1>4, <1>5, TypeOfTables DEF connVars, tableVars, TypeInv, TypeOK

LEMMA StepStalledType ==
    ASSUME TypeInv, NEW t \in Tasks, StepStalled(t)
    PROVE  TypeInv'
<1>. DEFINE s == Head(todo[t]).msg.session
            q == IF s \in live THEN <<Notify(s, devices)>> ELSE <<>>
<1>1. todo[t] # <<>> /\ todo' = [todo EXCEPT ![t] = q]
      /\ UNCHANGED <<connVars, outbox, deaf, devices, accepting, made, mode, rows, reported>>
  BY DEF StepStalled
<1>2. t \in Conns => phase[t] # "new"
  BY <1>1, RestType
<1>3. live' \subseteq live /\ inSession' \in [Ids -> Nat]
  BY EndType DEF StepStalled, TypeInv
<1>4. q \in Seq(Steps) /\ (Plain(q) \/ Len(q) = 1)
  <2>1. s \in live => Notify(s, devices) \in Steps
    BY LiveMade, NotifyType DEF TypeInv, TypeOK
  <2>. HIDE DEF s
  <2>. QED  BY <2>1 DEF Plain
<1>. HIDE DEF q
<1>. QED  BY <1>1, <1>2, <1>3, <1>4, TypeOfHandler DEF connVars, TypeInv, TypeOK

LEMMA StepNotifyType ==
    ASSUME TypeInv, NEW t \in Tasks, StepNotify(t)
    PROVE  TypeInv'
<1>. DEFINE x == Head(todo[t])
            y == [do |-> "closeRow", session |-> x.session]
<1>1. todo[t] # <<>> /\ x.do = "notify" /\ todo' = [todo EXCEPT ![t] = <<y>> \o Tail(@)]
      /\ outbox' = [c \in Conns |-> IF c \in x.to \ deaf /\ Len(outbox[c]) < OutCap
                                    THEN Append(outbox[c], About("ended", x.session))
                                    ELSE outbox[c]]
      /\ UNCHANGED <<connVars, deaf, tableVars, rows, reported>>
  BY DEF StepNotify
<1>2. x \in Steps /\ Tail(todo[t]) \in Seq(Steps) /\ Plain(Tail(todo[t]))
      /\ (t \in Conns => phase[t] # "new")
  BY <1>1, RestType
<1>3. x.session \in Nat
  BY <1>1, <1>2, StepFields
<1>4. outbox' \in [Conns -> Seq(Msgs)]
  <2>1. \A c \in Conns : outbox[c] \in Seq(Msgs)
    BY DEF TypeInv, TypeOK
  <2>2. About("ended", x.session) \in Msgs
    BY <1>3, MsgTypes
  <2>3. \A c \in Conns : Append(outbox[c], About("ended", x.session)) \in Seq(Msgs)
    BY <2>1, <2>2, AppendProperties
  <2>. QED  BY <1>1, <2>1, <2>3
<1>5. <<y>> \o Tail(todo[t]) \in Seq(Steps) /\ Plain(<<y>> \o Tail(todo[t]))
  <2>1. y \in Steps /\ y.do = "closeRow"
    BY <1>3, StepTypes
  <2>. HIDE DEF x, y
  <2>. QED  BY <1>2, <2>1 DEF Plain
<1>. HIDE DEF x, y
<1>6. todo' \in [Tasks -> Seq(Steps)] /\ ShapeOK'
  BY <1>1, <1>2, <1>5, TodoSet DEF connVars
<1>. QED  BY <1>1, <1>4, <1>6, TypeOfTables DEF connVars, tableVars, TypeInv, TypeOK

LEMMA StepRowType ==
    ASSUME TypeInv, NEW t \in Tasks, StepOpenRow(t) \/ StepCloseRow(t)
    PROVE  TypeInv'
<1>. DEFINE s == Head(todo[t]).session
<1>1. todo[t] # <<>> /\ todo' = [todo EXCEPT ![t] = Tail(@)]
      /\ UNCHANGED <<connVars, outbox, deaf, tableVars>>
  BY DEF StepOpenRow, StepCloseRow, Rest
<1>2. Tail(todo[t]) \in Seq(Steps) /\ Plain(Tail(todo[t])) /\ (t \in Conns => phase[t] # "new")
  BY <1>1, RestType
<1>3. rows' \in Seq({"none", "open", "closed"}) /\ Len(rows') = Len(rows)
  <2>1. PICK x \in {"none", "open", "closed"} : rows' = [rows EXCEPT ![s] = x]
    BY DEF StepOpenRow, StepCloseRow
  <2>2. rows \in Seq({"none", "open", "closed"})
    BY DEF TypeInv, TypeOK
  <2>. HIDE DEF s
  <2>. QED  BY <2>1, <2>2, ExceptType
<1>4. reported' \in Seq(Nat) /\ Len(reported') = Len(reported)
  <2>1. CASE StepOpenRow(t)
    BY <2>1 DEF StepOpenRow, TypeInv, TypeOK
  <2>2. CASE StepCloseRow(t)
    <3>1. reported' = [reported EXCEPT ![s] = reported[s] + 1]
      BY <2>2 DEF StepCloseRow
    <3>. HIDE DEF s
    <3>2. reported \in Seq(Nat)
      BY DEF TypeInv, TypeOK
    <3>3. s \in DOMAIN reported => reported[s] + 1 \in Nat
      BY <3>2, ElementOfSeq, LenProperties
    <3>. QED  BY <3>1, <3>2, <3>3, ExceptType
  <2>. QED  BY <2>1, <2>2
<1>5. todo' \in [Tasks -> Seq(Steps)] /\ ShapeOK'
  BY <1>1, <1>2, TodoSet DEF connVars
<1>. QED  BY <1>1, <1>3, <1>4, <1>5, TypeOfTables DEF connVars, tableVars, TypeInv, TypeOK

\* The device of a connection that has something to do.
LEMMA BusyType ==
    ASSUME TypeInv, NEW c \in Conns, todo[c] # <<>>
    PROVE  c \in Tasks /\ phase[c] # "new" /\ dev[c] \in Ids
BY TasksOfConns DEF TypeInv, TypeOK, ShapeOK

LEMMA StepDetachType ==
    ASSUME TypeInv, NEW c \in Conns, StepDetach(c)
    PROVE  TypeInv'
<1>. DEFINE i == dev[c]
            S == {inSession[i]} \cap live
            devs == [devices EXCEPT ![i] = 0]
            leave == [do |-> "leave"]
<1>1. c \in Tasks /\ phase[c] # "new" /\ i \in Ids
  BY BusyType DEF StepDetach
<1>2. UNCHANGED <<connVars, outbox, deaf, made, mode, rows, reported>>
  BY DEF StepDetach
<1>3. leave \in Steps /\ leave.do = "leave"
  BY StepTypes
<1>4. CASE devices[i] = c
  <2>1. devices' = devs /\ accepting' = accepting \ {i} /\ EndLocked(S)
        /\ todo' = [todo EXCEPT ![c] = IF S = {} THEN <<leave>>
                                       ELSE <<Notify(inSession[i], devs), leave>>]
    BY <1>4 DEF StepDetach
  <2>2. devs \in [Ids -> Conns \cup {0}] /\ accepting' \subseteq Ids
    BY <2>1 DEF TypeInv, TypeOK
  <2>3. live' \subseteq live /\ inSession' \in [Ids -> Nat]
    BY <2>1, EndType DEF TypeInv
  <2>4. CASE S = {}
    <3>1. <<leave>> \in Seq(Steps) /\ Len(<<leave>>) = 1 /\ todo' = [todo EXCEPT ![c] = <<leave>>]
      BY <1>3, <2>1, <2>4
    <3>. HIDE DEF S, devs, leave
    <3>. QED
      BY <1>1, <1>2, <2>1, <2>2, <2>3, <3>1, TypeOfHandler DEF connVars, TypeInv, TypeOK
  <2>5. CASE S # {}
    <3>1. inSession[i] \in DOMAIN made
      BY <2>5, LiveMade DEF TypeInv
    <3>2. Notify(inSession[i], devs) \in Steps /\ Notify(inSession[i], devs).do = "notify"
      BY <2>2, <3>1, NotifyType DEF TypeInv
    <3>. DEFINE q == <<Notify(inSession[i], devs), leave>>
    <3>3. todo' = [todo EXCEPT ![c] = q]
      BY <2>1, <2>5
    <3>. HIDE DEF S, devs, leave
    <3>4. q \in Seq(Steps) /\ Plain(q)
      BY <1>3, <3>2 DEF Plain
    <3>. HIDE DEF q
    <3>. QED
      BY <1>1, <1>2, <2>1, <2>2, <2>3, <3>3, <3>4, TypeOfHandler DEF connVars, TypeInv, TypeOK
  <2>. QED  BY <2>4, <2>5
<1>5. CASE devices[i] # c
  <2>1. UNCHANGED <<devices, accepting, live, inSession>>
        /\ todo' = [todo EXCEPT ![c] = <<leave>>]
    BY <1>5 DEF StepDetach
  <2>2. <<leave>> \in Seq(Steps) /\ Len(<<leave>>) = 1
    BY <1>3
  <2>. HIDE DEF leave
  <2>. QED
    BY <1>1, <1>2, <2>1, <2>2, TypeOfHandler DEF connVars, TypeInv, TypeOK
<1>. QED  BY <1>4, <1>5

LEMMA StepLeaveType ==
    ASSUME TypeInv, NEW c \in Conns, StepLeave(c)
    PROVE  TypeInv'
<1>1. todo[c] # <<>> /\ todo' = [todo EXCEPT ![c] = Tail(@)]
      /\ phase' = [phase EXCEPT ![c] = "gone"]
      /\ UNCHANGED <<dev, kicked, outbox, deaf, tableVars, rows, reported>>
  BY DEF StepLeave, Rest
<1>2. c \in Tasks /\ phase[c] # "new" /\ dev[c] \in Ids
  BY <1>1, BusyType
<1>3. Tail(todo[c]) \in Seq(Steps) /\ Plain(Tail(todo[c]))
  BY <1>1, <1>2, RestType
<1>4. /\ phase' \in [Conns -> {"new", "open", "gone"}]
      /\ phase'[c] # "new"
      /\ \A d \in Conns : phase'[d] = "new" <=> dev'[d] = NoId
      /\ \A d \in Conns : phase'[d] = "new" => phase[d] = "new"
  BY <1>1, <1>2, IdsAssumption DEF TypeInv, TypeOK
<1>5. todo' \in [Tasks -> Seq(Steps)] /\ ShapeOK'
  BY <1>1, <1>2, <1>3, <1>4, TodoSet
<1>. QED  BY <1>1, <1>4, <1>5 DEF TypeInv, TypeOK, tableVars

LEMMA TypeNext == TypeInv /\ [Next]_vars => TypeInv'
<1>. SUFFICES ASSUME TypeInv, [Next]_vars PROVE TypeInv'
  OBVIOUS
<1>1. ASSUME NEW c \in Conns, NEW i \in Ids, NEW b \in BOOLEAN, Attach(c, i, b) PROVE TypeInv'
  BY <1>1, AttachType
<1>2. ASSUME NEW c \in Conns, Kick(c) \/ Close(c) \/ WriterEnds(c) \/ Write(c) PROVE TypeInv'
  BY <1>2, KickType, CloseType, OutboxType
<1>3. ASSUME NEW c \in Conns, Request(c) PROVE TypeInv'
  BY <1>3, SmallRequestType, ConnectType, ConnectBusyType, RelayType, EndSessionType DEF Request
<1>4. CASE Sweep
  BY <1>4, SweepType
<1>5. ASSUME NEW t \in Tasks, Step(t) PROVE TypeInv'
  BY <1>5, StepSendType, StepStalledType, StepNotifyType, StepRowType, StepDetachType,
     StepLeaveType DEF Step
<1>6. CASE UNCHANGED vars
  BY <1>6 DEF vars, connVars, tableVars, TypeInv, TypeOK, ShapeOK
<1>. QED  BY <1>1, <1>2, <1>3, <1>4, <1>5, <1>6 DEF Next

LEMMA TypeHolds == Spec => []TypeInv
BY InitType, TypeNext, PTL DEF Spec

\* The tables, the tasks and the outboxes keep their types, whatever connections come,
\* are superseded, fail and go in the middle of a handler.
THEOREM HubTypeCorrect == Spec => []TypeOK
BY TypeHolds, PTL DEF TypeInv

-----------------------------------------------------------------------------
(* The tables agree *)

\* Sessions L, by device I.
Agree(L, I) ==
    /\ \A s \in L : Viewer(s) # Host(s) /\ \A i \in Peers(s) : I[i] = s
    /\ \A i \in Ids : I[i] # 0 => I[i] \in L /\ i \in Peers(I[i])

\* end_locked keeps the agreement.
LEMMA FreedAgrees ==
    ASSUME TypeOK, Agree(live, inSession), NEW S \in SUBSET live
    PROVE  Agree(live \ S, Freed(S))
<1>1. \A i \in Ids : Freed(S)[i] = IF \E s \in S : i \in Peers(s) THEN 0 ELSE inSession[i]
  BY DEF Freed
<1>2. \A s \in live : Peers(s) \subseteq Ids
  BY LiveMade, PeersType
<1>3. ASSUME NEW s \in live \ S, NEW i \in Peers(s) PROVE Freed(S)[i] = s
  <2>1. i \in Ids /\ inSession[i] = s
    BY <1>2, <1>3 DEF Agree
  <2>2. \A r \in S : i \notin Peers(r)
    BY <2>1, <1>3 DEF Agree
  <2>. QED  BY <1>1, <2>1, <2>2
<1>4. ASSUME NEW i \in Ids, Freed(S)[i] # 0
      PROVE  Freed(S)[i] \in live \ S /\ i \in Peers(Freed(S)[i])
  <2>1. (\A s \in S : i \notin Peers(s)) /\ Freed(S)[i] = inSession[i]
    BY <1>1, <1>4
  <2>2. inSession[i] \in live /\ i \in Peers(inSession[i])
    BY <2>1, <1>4 DEF Agree
  <2>. QED  BY <2>1, <2>2
<1>5. \A s \in live \ S : Viewer(s) # Host(s)
  BY DEF Agree
<1>. QED  BY <1>3, <1>4, <1>5 DEF Agree

Online == \A s \in live : \A i \in Peers(s) : devices[i] # 0
Full   == Cardinality(live) <= MaxSessions

LEMMA ConsistentParts == HubConsistent <=> Agree(live, inSession) /\ Online /\ Full
BY DEF HubConsistent, Agree, Online, Full

LEMMA SamePeers ==
    ASSUME made' = made, NEW s
    PROVE  Peers(s)' = Peers(s) /\ Viewer(s)' = Viewer(s) /\ Host(s)' = Host(s)
BY DEF Peers, Viewer, Host

LEMMA SmallerFull ==
    ASSUME TypeOK, Full, live' \subseteq live
    PROVE  Full'
<1>1. Cardinality(live') <= Cardinality(live) /\ Cardinality(live) \in Nat
      /\ Cardinality(live') \in Nat
  BY LiveFinite, FS_Subset, FS_CardinalityType
<1>. QED  BY <1>1, BoundsAssumption DEF Full

\* Whoever ends sessions keeps the tables in agreement, and may take a device away whose
\* session is ended with it.
LEMMA EndKeeps ==
    ASSUME TypeOK, HubConsistent, made' = made, NEW S \in SUBSET live, EndLocked(S),
           \A i \in Ids : devices'[i] = devices[i] \/ devices'[i] # 0 \/ inSession'[i] = 0
    PROVE  HubConsistent'
<1>1. Agree(live, inSession) /\ Online /\ Full
  BY ConsistentParts
<1>2. live' = live \ S /\ inSession' = Freed(S)
  BY DEF EndLocked
<1>3. Agree(live, inSession)'
  <2>1. Agree(live', inSession')
    BY <1>1, <1>2, FreedAgrees
  <2>. QED  BY <2>1, SamePeers DEF Agree
<1>4. Online'
  <2>. SUFFICES ASSUME NEW s \in live', NEW i \in Peers(s)' PROVE devices'[i] # 0
    BY DEF Online
  <2>1. s \in live /\ s # 0 /\ i \in Peers(s) /\ i \in Ids
    BY <1>2, SamePeers, LiveMade, PeersType
  <2>2. devices[i] # 0
    BY <1>1, <2>1 DEF Online
  <2>3. inSession'[i] = s
    BY <1>3 DEF Agree
  <2>. QED  BY <2>1, <2>2, <2>3
<1>5. Full'
  BY <1>1, <1>2, SmallerFull
<1>. QED  BY <1>3, <1>4, <1>5 DEF HubConsistent, Agree, Online, Full

LEMMA ConnectKeeps ==
    ASSUME TypeInv, HubConsistent, NEW c \in Conns, NEW t \in Ids, Connect(c, t)
    PROVE  HubConsistent'
<1>. DEFINE R == Replaced(dev[c])
            F == Freed(R)
<1>0. PICK v \in Ids, n \in Nat : v = dev[c] /\ n = Len(made) + 1
  BY CountType, ServingType DEF Connect, TypeInv
<1>1. v \in Ids /\ t # v /\ devices[v] # 0 /\ devices[t] # 0 /\ F[t] = 0 /\ F[v] = 0
      /\ Cardinality(live \ R) < MaxSessions
      /\ made' = Append(made, [viewer |-> v, host |-> t])
      /\ live' = (live \ R) \cup {n} /\ inSession' = [F EXCEPT ![v] = n, ![t] = n]
      /\ devices' = devices
  BY <1>0 DEF Connect
<1>2. R \subseteq live
  BY DEF Replaced
<1>3. Agree(live, inSession) /\ Online /\ Full
  BY ConsistentParts
<1>4. Agree(live \ R, F)
  BY <1>2, <1>3, FreedAgrees DEF TypeInv
<1>5. n # 0 /\ n \notin DOMAIN made /\ F \in [Ids -> Nat]
  <2>1. DOMAIN made = 1..Len(made) /\ Len(made) \in Nat
    BY CountType, LenProperties DEF TypeInv, TypeOK
  <2>. QED  BY <1>0, <2>1, FreedType DEF TypeInv
<1>6. made'[n] = [viewer |-> v, host |-> t] /\ \A s \in DOMAIN made : made'[s] = made[s]
  <2>1. made \in Seq([viewer : Ids, host : Ids]) /\ [viewer |-> v, host |-> t] \in [viewer : Ids, host : Ids]
    BY <1>1 DEF TypeInv, TypeOK
  <2>2. DOMAIN made = 1..Len(made)
    BY <2>1, LenProperties
  <2>. QED  BY <1>0, <1>1, <2>1, <2>2, AppendProperties
<1>7. \A s \in DOMAIN made : Peers(s)' = Peers(s) /\ Viewer(s)' = Viewer(s) /\ Host(s)' = Host(s)
  BY <1>6 DEF Peers, Viewer, Host
<1>8. Peers(n)' = {v, t} /\ Viewer(n)' = v /\ Host(n)' = t
  BY <1>6 DEF Peers, Viewer, Host
<1>9. live \ R \subseteq DOMAIN made
  BY LiveMade DEF TypeInv
<1>10. inSession'[v] = n /\ inSession'[t] = n
       /\ \A i \in Ids : i \notin {v, t} => inSession'[i] = F[i]
  BY <1>1, <1>5
<1>. HIDE DEF R, F
<1>11. ASSUME NEW s \in live' PROVE Viewer(s)' # Host(s)' /\ \A i \in Peers(s)' : inSession'[i] = s /\ devices'[i] # 0
  <2>1. CASE s = n
    BY <2>1, <1>1, <1>8, <1>10
  <2>2. CASE s # n
    <3>1. s \in live \ R /\ s \in DOMAIN made /\ s # 0
      BY <1>1, <1>9, <2>2, PeersType DEF TypeInv
    <3>2. Viewer(s) # Host(s) /\ \A i \in Peers(s) : F[i] = s /\ i \in Ids /\ devices[i] # 0
      BY <1>3, <1>4, <3>1, PeersType DEF Agree, Online, TypeInv
    <3>3. \A i \in Peers(s) : i \notin {v, t}
      BY <1>1, <3>1, <3>2
    <3>. QED  BY <1>1, <1>7, <1>10, <3>1, <3>2, <3>3
  <2>. QED  BY <2>1, <2>2
<1>12. ASSUME NEW i \in Ids, NEW s, s = inSession'[i], s # 0
       PROVE  s \in live' /\ i \in Peers(s)'
  <2>1. CASE i \in {v, t}
    BY <2>1, <1>1, <1>8, <1>10, <1>12
  <2>2. CASE i \notin {v, t}
    <3>1. s = F[i]
      BY <2>2, <1>10, <1>12
    <3>2. s \in live \ R /\ i \in Peers(s)
      BY <3>1, <1>4, <1>12 DEF Agree
    <3>. QED  BY <1>1, <1>7, <1>9, <3>2
  <2>. QED  BY <2>1, <2>2
<1>13. Cardinality(live') <= MaxSessions
  <2>1. IsFiniteSet(live \ R)
    BY LiveFinite, FS_Subset DEF TypeInv
  <2>2. Cardinality(live \ R) \in Nat
    BY <2>1, FS_CardinalityType
  <2>3. IsFiniteSet(live')
        /\ (Cardinality(live') = Cardinality(live \ R) \/ Cardinality(live') = Cardinality(live \ R) + 1)
    BY <1>1, <2>1, FS_AddElement
  <2>. QED  BY <1>1, <2>2, <2>3, BoundsAssumption
<1>14. \A s \in live' : Viewer(s)' # Host(s)' /\ \A i \in Peers(s)' : inSession'[i] = s /\ devices'[i] # 0
  BY <1>11
<1>15. \A i \in Ids : \A s : s = inSession'[i] /\ s # 0 => s \in live' /\ i \in Peers(s)'
  BY <1>12
<1>. QED  BY <1>13, <1>14, <1>15 DEF HubConsistent, Peers, Viewer, Host

LEMMA AttachKeeps ==
    ASSUME TypeInv, HubConsistent, NEW c \in Conns, NEW i \in Ids, NEW b \in BOOLEAN,
           Attach(c, i, b)
    PROVE  HubConsistent'
<1>1. made' = made /\ live' = live /\ inSession' = inSession /\ devices' = [devices EXCEPT ![i] = c]
  BY DEF Attach
<1>2. \A j \in Ids : devices'[j] = devices[j] \/ devices'[j] # 0
  BY <1>1, TasksOfConns DEF TypeInv, TypeOK
<1>3. \A s \in live : Peers(s) \subseteq Ids
  BY LiveMade, PeersType DEF TypeInv
<1>. QED  BY <1>1, <1>2, <1>3, SamePeers DEF HubConsistent, Peers, Viewer, Host

LEMMA DetachKeeps ==
    ASSUME TypeInv, HubConsistent, NEW c \in Conns, StepDetach(c)
    PROVE  HubConsistent'
<1>. DEFINE i == dev[c]
            S == {inSession[i]} \cap live
<1>1. made' = made /\ i \in Ids
  BY BusyType DEF StepDetach
<1>2. CASE devices[i] = c
  <2>1. devices' = [devices EXCEPT ![i] = 0] /\ EndLocked(S)
    BY <1>2 DEF StepDetach
  <2>2. inSession'[i] = 0
    <3>1. inSession'[i] = IF \E s \in S : i \in Peers(s) THEN 0 ELSE inSession[i]
      BY <1>1, <2>1 DEF EndLocked, Freed
    <3>2. inSession[i] # 0 => inSession[i] \in S /\ i \in Peers(inSession[i])
      BY <1>1 DEF HubConsistent
    <3>. QED  BY <3>1, <3>2
  <2>3. \A j \in Ids : devices'[j] = devices[j] \/ inSession'[j] = 0
    BY <2>1, <2>2 DEF TypeInv, TypeOK
  <2>4. S \in SUBSET live
    OBVIOUS
  <2>. HIDE DEF S
  <2>. QED  BY <1>1, <2>1, <2>3, <2>4, EndKeeps DEF TypeInv
<1>3. CASE devices[i] # c
  BY <1>1, <1>3 DEF StepDetach, HubConsistent, Peers, Viewer, Host
<1>. QED  BY <1>2, <1>3

LEMMA InitConsistent == Init => HubConsistent
<1>1. Cardinality({}) = 0
  BY FS_EmptySet
<1>. QED  BY <1>1, BoundsAssumption DEF Init, HubConsistent

LEMMA ConsistentNext == TypeInv /\ HubConsistent /\ [Next]_vars => HubConsistent'
<1>. SUFFICES ASSUME TypeInv, HubConsistent, [Next]_vars PROVE HubConsistent'
  OBVIOUS
<1>1. ASSUME UNCHANGED <<made, live, inSession, devices>> PROVE HubConsistent'
  BY <1>1 DEF HubConsistent, Peers, Viewer, Host
<1>2. ASSUME NEW S \in SUBSET live, EndLocked(S), UNCHANGED <<made, devices>>
      PROVE  HubConsistent'
  BY <1>2, EndKeeps DEF TypeInv
<1>3. ASSUME NEW c \in Conns, NEW i \in Ids, NEW b \in BOOLEAN, Attach(c, i, b)
      PROVE  HubConsistent'
  BY <1>3, AttachKeeps
<1>4. ASSUME NEW c \in Conns, Kick(c) \/ Close(c) \/ WriterEnds(c) \/ Write(c)
      PROVE  HubConsistent'
  BY <1>1, <1>4 DEF Kick, Close, WriterEnds, Write, tableVars
<1>5. ASSUME NEW c \in Conns, Request(c) PROVE HubConsistent'
  <2>1. ASSUME NEW b \in BOOLEAN, SetIncomingEnabled(c, b) PROVE HubConsistent'
    BY <1>1, <2>1 DEF SetIncomingEnabled
  <2>2. ASSUME NEW t \in Ids, Connect(c, t) PROVE HubConsistent'
    BY <2>2, ConnectKeeps
  <2>3. ASSUME NEW t \in Ids, ConnectBusy(c, t) PROVE HubConsistent'
    <3>1. Replaced(dev[c]) \in SUBSET live
      BY DEF Replaced
    <3>. QED  BY <1>2, <2>3, <3>1 DEF ConnectBusy
  <2>4. ASSUME ConnectRefused(c) PROVE HubConsistent'
    BY <1>1, <2>4 DEF ConnectRefused, tableVars
  <2>5. ASSUME NEW s \in live, Relay(c, s) PROVE HubConsistent'
    BY <1>1, <2>5 DEF Relay
  <2>6. ASSUME NEW s \in live, EndSession(c, s) PROVE HubConsistent'
    BY <1>2, <2>6 DEF EndSession
  <2>7. ASSUME NEW s \in live, NEW m \in {"relay", "direct"}, SessionMode(c, s, m)
        PROVE  HubConsistent'
    BY <1>1, <2>7 DEF SessionMode
  <2>. QED  BY <1>5, <2>1, <2>2, <2>3, <2>4, <2>5, <2>6, <2>7 DEF Request
<1>6. CASE Sweep
  <2>1. PICK S \in (SUBSET {s \in live : mode[s] # "direct" /\ rows[s] # "none"}) \ {{}} :
            EndLocked(S)
    BY <1>6 DEF Sweep
  <2>2. S \in SUBSET live
    BY <2>1
  <2>. QED  BY <1>2, <1>6, <2>1, <2>2 DEF Sweep
<1>7. ASSUME NEW t \in Tasks, Step(t) PROVE HubConsistent'
  <2>1. CASE StepSend(t) \/ StepNotify(t) \/ StepOpenRow(t) \/ StepCloseRow(t) \/ StepLeave(t)
    BY <1>1, <2>1 DEF StepSend, StepNotify, StepOpenRow, StepCloseRow, StepLeave, tableVars
  <2>2. CASE StepStalled(t)
    BY <1>2, <2>2 DEF StepStalled
  <2>3. CASE t \in Conns /\ StepDetach(t)
    BY <2>3, DetachKeeps
  <2>. QED  BY <1>7, <2>1, <2>2, <2>3 DEF Step
<1>8. CASE UNCHANGED vars
  BY <1>1, <1>8 DEF vars, tableVars
<1>. QED  BY <1>3, <1>4, <1>5, <1>6, <1>7, <1>8 DEF Next

LEMMA ConsistentHolds == Spec => []HubConsistent
BY InitConsistent, ConsistentNext, TypeHolds, PTL DEF Spec

\* The session table and the index by device agree at every await, no device is in two
\* sessions or offline in one, and the table is never too full.
THEOREM HubConsistentHolds == Spec => []HubConsistent
BY ConsistentHolds

-----------------------------------------------------------------------------
(* Superseded connections *)

LeavingIn(q) == \E k \in DOMAIN q : q[k].do \in {"detach", "leave"}

\* A handler keeps the connections on their way out if it does not forget to leave.
LEMMA SupersededKept ==
    ASSUME TypeInv, SupersededIsKicked, NEW t \in Tasks, NEW q,
           UNCHANGED <<dev, phase, devices, kicked>>,
           todo' = [todo EXCEPT ![t] = q], LeavingIn(todo[t]) => LeavingIn(q)
    PROVE  SupersededIsKicked'
<1>1. todo'[t] = q /\ \A u \in Tasks : u # t => todo'[u] = todo[u]
  BY DEF TypeInv, TypeOK
<1>2. ASSUME NEW c \in Conns, Leaving(c) PROVE Leaving(c)'
  <2>1. c \in Tasks /\ LeavingIn(todo[c])
    BY <1>2, TasksOfConns DEF Leaving, LeavingIn
  <2>2. CASE c = t
    BY <2>1, <2>2, <1>1 DEF Leaving, LeavingIn
  <2>3. CASE c # t
    BY <2>1, <2>3, <1>1 DEF Leaving, LeavingIn
  <2>. QED  BY <2>2, <2>3
<1>. QED  BY <1>2 DEF SupersededIsKicked

LEMMA SupersededRest ==
    ASSUME TypeInv, NEW t \in Tasks, todo[t] # <<>>,
           Head(todo[t]).do \notin {"detach", "leave"}, LeavingIn(todo[t])
    PROVE  /\ LeavingIn(Tail(todo[t]))
           /\ \A y : LeavingIn(<<y>> \o Tail(todo[t]))
           /\ Head(todo[t]).do # "relay"
<1>1. todo[t] \in Seq(Steps) /\ Tail(todo[t]) \in Seq(Steps)
  BY RestType
<1>2. PICK k \in DOMAIN todo[t] : todo[t][k].do \in {"detach", "leave"}
  BY DEF LeavingIn
<1>3. k # 1 /\ k \in 1..Len(todo[t]) /\ Head(todo[t]) = todo[t][1]
  BY <1>1, <1>2
<1>4. k - 1 \in DOMAIN Tail(todo[t]) /\ Tail(todo[t])[k - 1] = todo[t][k]
  BY <1>1, <1>3
<1>5. LeavingIn(Tail(todo[t]))
  BY <1>2, <1>4 DEF LeavingIn
<1>6. ASSUME NEW y PROVE LeavingIn(<<y>> \o Tail(todo[t]))
  <2>1. k \in DOMAIN (<<y>> \o Tail(todo[t])) /\ (<<y>> \o Tail(todo[t]))[k] = todo[t][k]
    BY <1>1, <1>3, <1>4
  <2>. QED  BY <1>2, <2>1 DEF LeavingIn
<1>7. Head(todo[t]).do # "relay"
  <2>. SUFFICES ASSUME Head(todo[t]).do = "relay" PROVE FALSE
    OBVIOUS
  <2>1. 1 \in DOMAIN todo[t]
    BY <1>1
  <2>2. todo[t] = <<todo[t][1]>>
    BY <1>3, <2>1 DEF TypeInv, ShapeOK
  <2>3. DOMAIN todo[t] = {1}
    BY <2>2
  <2>. QED  BY <1>2, <1>3, <2>3
<1>. QED  BY <1>5, <1>6, <1>7

LEMMA SupersededNext ==
    TypeInv /\ SupersededIsKicked /\ [Next]_vars => SupersededIsKicked'
<1>. SUFFICES ASSUME TypeInv, SupersededIsKicked, [Next]_vars PROVE SupersededIsKicked'
  OBVIOUS
<1>1. ASSUME NEW t \in Tasks, NEW q, UNCHANGED <<dev, phase, devices, kicked>>,
             todo' = [todo EXCEPT ![t] = q], LeavingIn(todo[t]) => LeavingIn(q)
      PROVE  SupersededIsKicked'
  BY <1>1, SupersededKept
<1>2. ASSUME NEW c \in Conns, NEW q, Serving(c), UNCHANGED <<dev, phase, devices, kicked>>,
             todo' = [todo EXCEPT ![c] = q]
      PROVE  SupersededIsKicked'
  <2>1. c \in Tasks /\ todo[c] = <<>>
    BY <1>2, ServingType
  <2>2. ~LeavingIn(todo[c])
    BY <2>1 DEF LeavingIn
  <2>. QED  BY <1>1, <1>2, <2>1, <2>2
<1>3. ASSUME UNCHANGED <<dev, phase, devices, kicked, todo>> PROVE SupersededIsKicked'
  BY <1>3 DEF SupersededIsKicked, Leaving
<1>4. ASSUME NEW c \in Conns, NEW i \in Ids, NEW b \in BOOLEAN, Attach(c, i, b)
      PROVE  SupersededIsKicked'
  <2>1. dev' = [dev EXCEPT ![c] = i] /\ devices' = [devices EXCEPT ![i] = c]
        /\ kicked' = kicked \cup ({devices[i]} \ {0}) /\ phase' = [phase EXCEPT ![c] = "open"]
        /\ \A d \in Conns : d # c => todo'[d] = todo[d]
    BY <1>4, TasksOfConns DEF Attach, TypeInv, TypeOK
  <2>. SUFFICES ASSUME NEW d \in Conns, phase'[d] = "open"
                PROVE  devices'[dev'[d]] = d \/ d \in kicked' \/ Leaving(d)'
    BY DEF SupersededIsKicked
  <2>2. CASE d = c
    BY <2>1, <2>2 DEF TypeInv, TypeOK
  <2>3. CASE d # c
    <3>1. phase[d] = "open" /\ dev'[d] = dev[d] /\ dev[d] \in Ids /\ d # 0
      BY <2>1, <2>3, TasksOfConns DEF TypeInv, TypeOK
    <3>2. devices[dev[d]] = d \/ d \in kicked \/ Leaving(d)
      BY <3>1 DEF SupersededIsKicked
    <3>3. Leaving(d) => Leaving(d)'
      BY <2>1, <2>3 DEF Leaving
    <3>. QED  BY <2>1, <3>1, <3>2, <3>3 DEF TypeInv, TypeOK
  <2>. QED  BY <2>2, <2>3
<1>5. ASSUME NEW c \in Conns, Kick(c) PROVE SupersededIsKicked'
  <2>. DEFINE q == <<Send(c, Reply), [do |-> "detach"]>>
  <2>1. c \in Tasks /\ todo' = [todo EXCEPT ![c] = q] /\ kicked' = kicked \ {c}
        /\ UNCHANGED <<dev, phase, devices>>
    BY <1>5, TasksOfConns DEF Kick, tableVars
  <2>2. LeavingIn(q)
    <3>1. 2 \in DOMAIN q /\ q[2].do = "detach"
      OBVIOUS
    <3>. QED  BY <3>1 DEF LeavingIn
  <2>. HIDE DEF q
  <2>3. Leaving(c)' /\ \A d \in Conns : d # c /\ Leaving(d) => Leaving(d)'
    BY <2>1, <2>2, TasksOfConns DEF Leaving, LeavingIn, TypeInv, TypeOK
  <2>. QED  BY <2>1, <2>3 DEF SupersededIsKicked
<1>6. ASSUME NEW c \in Conns, Close(c) \/ WriterEnds(c) \/ Write(c) PROVE SupersededIsKicked'
  BY <1>2, <1>3, <1>6 DEF Close, WriterEnds, Write, connVars, tableVars
<1>7. ASSUME NEW c \in Conns, Request(c) PROVE SupersededIsKicked'
  <2>1. ASSUME NEW b \in BOOLEAN, SetIncomingEnabled(c, b) PROVE SupersededIsKicked'
    BY <1>3, <2>1 DEF SetIncomingEnabled, connVars
  <2>2. ASSUME NEW t \in Ids, Connect(c, t) PROVE SupersededIsKicked'
    <3>1. PICK q : todo' = [todo EXCEPT ![c] = q]
      BY <2>2, ConnectSteps
    <3>. QED  BY <1>2, <2>2, <3>1 DEF Connect, connVars
  <2>3. ASSUME NEW t \in Ids, ConnectBusy(c, t) PROVE SupersededIsKicked'
    BY <1>2, <2>3 DEF ConnectBusy, connVars
  <2>4. ASSUME ConnectRefused(c) PROVE SupersededIsKicked'
    BY <1>2, <2>4 DEF ConnectRefused, connVars, tableVars
  <2>5. ASSUME NEW s \in live, Relay(c, s) PROVE SupersededIsKicked'
    BY <1>2, <2>5 DEF Relay, connVars
  <2>6. ASSUME NEW s \in live, EndSession(c, s) PROVE SupersededIsKicked'
    BY <1>2, <2>6 DEF EndSession, connVars
  <2>7. ASSUME NEW s \in live, NEW m \in {"relay", "direct"}, SessionMode(c, s, m)
        PROVE  SupersededIsKicked'
    BY <1>3, <2>7 DEF SessionMode, connVars
  <2>. QED  BY <1>7, <2>1, <2>2, <2>3, <2>4, <2>5, <2>6, <2>7 DEF Request
<1>8. CASE Sweep
  <2>1. \A c \in Conns : todo'[c] = todo[c]
    BY <1>8, TasksOfConns DEF Sweep, TypeInv, TypeOK
  <2>. QED  BY <1>8, <2>1 DEF Sweep, connVars, SupersededIsKicked, Leaving
<1>9. ASSUME NEW t \in Tasks, Step(t) PROVE SupersededIsKicked'
  <2>1. CASE StepSend(t) \/ StepOpenRow(t) \/ StepCloseRow(t)
    <3>1. todo[t] # <<>> /\ Head(todo[t]).do \notin {"detach", "leave"}
          /\ todo' = [todo EXCEPT ![t] = Tail(todo[t])] /\ UNCHANGED <<dev, phase, devices, kicked>>
      BY <2>1 DEF StepSend, StepOpenRow, StepCloseRow, Rest, connVars, tableVars
    <3>. QED  BY <1>1, <3>1, SupersededRest
  <2>2. CASE StepNotify(t)
    <3>1. todo[t] # <<>> /\ Head(todo[t]).do \notin {"detach", "leave"}
          /\ UNCHANGED <<dev, phase, devices, kicked>>
      BY <2>2 DEF StepNotify, connVars, tableVars
    <3>2. PICK y : todo' = [todo EXCEPT ![t] = <<y>> \o Tail(todo[t])]
      BY <2>2 DEF StepNotify
    <3>. QED  BY <1>1, <3>1, <3>2, SupersededRest
  <2>3. CASE StepStalled(t)
    <3>1. todo[t] # <<>> /\ Head(todo[t]).do = "relay" /\ UNCHANGED <<dev, phase, devices, kicked>>
      BY <2>3 DEF StepStalled, connVars
    <3>2. PICK q : todo' = [todo EXCEPT ![t] = q]
      BY <2>3 DEF StepStalled
    <3>. QED  BY <1>1, <3>1, <3>2, SupersededRest
  <2>4. CASE t \in Conns /\ StepDetach(t)
    <3>. DEFINE i == dev[t]
    <3>1. i \in Ids /\ UNCHANGED <<dev, phase, kicked>>
          /\ (devices' = devices \/ (devices[i] = t /\ devices' = [devices EXCEPT ![i] = 0]))
      BY <2>4, BusyType DEF StepDetach, connVars
    <3>2. Leaving(t)' /\ \A d \in Conns : d # t => todo'[d] = todo[d]
      <4>. DEFINE leave == [do |-> "leave"]
      <4>1. \E n : todo' = [todo EXCEPT ![t] = <<leave>>] \/ todo' = [todo EXCEPT ![t] = <<n, leave>>]
        BY <2>4 DEF StepDetach
      <4>2. leave.do = "leave"
        OBVIOUS
      <4>. HIDE DEF leave
      <4>3. \A n : LeavingIn(<<leave>>) /\ LeavingIn(<<n, leave>>)
        <5>. SUFFICES ASSUME NEW n PROVE LeavingIn(<<leave>>) /\ LeavingIn(<<n, leave>>)
          OBVIOUS
        <5>1. 1 \in DOMAIN <<leave>> /\ <<leave>>[1] = leave
          OBVIOUS
        <5>2. 2 \in DOMAIN <<n, leave>> /\ <<n, leave>>[2] = leave
          OBVIOUS
        <5>. QED  BY <4>2, <5>1, <5>2 DEF LeavingIn
      <4>4. LeavingIn(todo'[t]) /\ \A d \in Conns : d # t => todo'[d] = todo[d]
        <5>1. PICK q : todo' = [todo EXCEPT ![t] = q] /\ LeavingIn(q)
          BY <4>1, <4>3
        <5>2. todo'[t] = q /\ \A d \in Conns : d # t => todo'[d] = todo[d]
          BY <5>1, TasksOfConns DEF TypeInv, TypeOK
        <5>. QED  BY <5>1, <5>2
      <4>. QED  BY <4>4 DEF Leaving, LeavingIn
    <3>. SUFFICES ASSUME NEW d \in Conns, phase'[d] = "open"
                  PROVE  devices'[dev'[d]] = d \/ d \in kicked' \/ Leaving(d)'
      BY DEF SupersededIsKicked
    <3>3. CASE d = t
      BY <3>2, <3>3
    <3>4. CASE d # t
      <4>1. devices[dev[d]] = d \/ d \in kicked \/ Leaving(d)
        BY <3>1 DEF SupersededIsKicked
      <4>2. Leaving(d) => Leaving(d)'
        BY <3>2, <3>4 DEF Leaving
      <4>3. devices[dev[d]] = d => devices'[dev[d]] = d
        BY <3>1, <3>4 DEF TypeInv, TypeOK
      <4>. QED  BY <3>1, <4>1, <4>2, <4>3
    <3>. QED  BY <3>3, <3>4
  <2>5. CASE t \in Conns /\ StepLeave(t)
    <3>1. phase' = [phase EXCEPT ![t] = "gone"] /\ UNCHANGED <<dev, devices, kicked>>
          /\ \A d \in Conns : d # t => todo'[d] = todo[d]
      BY <2>5, TasksOfConns DEF StepLeave, Rest, tableVars, TypeInv, TypeOK
    <3>. QED  BY <3>1 DEF SupersededIsKicked, Leaving, TypeInv, TypeOK
  <2>. QED  BY <1>9, <2>1, <2>2, <2>3, <2>4, <2>5 DEF Step
<1>10. CASE UNCHANGED vars
  BY <1>3, <1>10 DEF vars, connVars, tableVars
<1>. QED  BY <1>4, <1>5, <1>6, <1>7, <1>8, <1>9, <1>10 DEF Next

\* A connection that is open holds its device's place, has a kick waiting or is leaving:
\* the place a newer connection took is never lost to an older one.
THEOREM SupersededHolds == Spec => []SupersededIsKicked
<1>1. Init => SupersededIsKicked
  BY DEF Init, SupersededIsKicked
<1>. QED  BY <1>1, SupersededNext, TypeHolds, PTL DEF Spec

-----------------------------------------------------------------------------
(* Relayed frames *)

\* The connection at a device's place is that device's.
PlaceOK == \A i \in Ids : devices[i] # 0 => dev[devices[i]] = i

FrameOK(m, c) == m.kind = "relay" => Relayed(m, c)
StepOK(x) == /\ x.do = "relay" => Relayed(x.msg, x.to)
             /\ x.do = "send" => x.msg.kind # "relay"
RelayInv ==
    /\ PlaceOK
    /\ \A c \in Conns : \A k \in DOMAIN outbox[c] : \A m : m = outbox[c][k] => FrameOK(m, c)
    /\ \A t \in Tasks : \A k \in DOMAIN todo[t] : \A x : x = todo[t][k] => StepOK(x)

\* Sessions keep their peers, a relayed session stays relayed, and a connection its device.
Keeps ==
    /\ \A s \in DOMAIN made : s \in DOMAIN made' /\ made'[s] = made[s]
                              /\ (mode[s] = "relay" => mode'[s] = "relay")
    /\ \A c \in Conns : dev[c] # NoId => dev'[c] = dev[c]

LEMMA RelayedKept ==
    ASSUME TypeOK, Keeps
    PROVE  /\ \A c \in Conns : \A m : FrameOK(m, c) => FrameOK(m, c)'
           /\ \A x \in Steps : StepOK(x) => StepOK(x)'
<1>1. ASSUME NEW c \in Conns, NEW m, Relayed(m, c) PROVE Relayed(m, c)'
  <2>1. m.session \in DOMAIN made /\ mode[m.session] = "relay" /\ dev[c] # m.from
        /\ Peers(m.session) = {dev[c], m.from}
    BY <1>1 DEF Relayed
  <2>2. dev[c] \in Ids
    BY <2>1, PeersType
  <2>3. dev'[c] = dev[c]
    BY <2>2, IdsAssumption DEF Keeps
  <2>4. m.session \in DOMAIN made' /\ mode'[m.session] = "relay" /\ made'[m.session] = made[m.session]
    BY <2>1 DEF Keeps
  <2>. QED  BY <2>1, <2>3, <2>4 DEF Relayed, Peers, Viewer, Host
<1>2. ASSUME NEW x \in Steps, StepOK(x) PROVE StepOK(x)'
  <2>1. x.do = "relay" => x.to \in Conns
    BY StepFields
  <2>. QED  BY <1>1, <1>2, <2>1 DEF StepOK
<1>. QED  BY <1>1, <1>2 DEF FrameOK

LEMMA SameKeeps ==
    ASSUME TypeInv, UNCHANGED <<dev, made, mode>>
    PROVE  Keeps
BY LiveMade DEF Keeps

LEMMA RelayStep ==
    ASSUME TypeInv, RelayInv, Keeps, PlaceOK', NEW t \in Tasks, NEW q,
           todo' = [todo EXCEPT ![t] = q],
           \A k \in DOMAIN q : \A x : x = q[k] => x \in Steps /\ (StepOK(x) \/ StepOK(x)'),
           \A c \in Conns : \A k \in DOMAIN outbox'[c] : \A m : m = outbox'[c][k] => FrameOK(m, c)
    PROVE  RelayInv'
<1>1. \A c \in Conns : \A k \in DOMAIN outbox'[c] : \A m : m = outbox'[c][k] => FrameOK(m, c)'
  BY RelayedKept DEF TypeInv
<1>2. todo'[t] = q /\ \A u \in Tasks : u # t => todo'[u] = todo[u]
  BY DEF TypeInv, TypeOK
<1>3. \A u \in Tasks : \A k \in DOMAIN todo[u] : todo[u][k] \in Steps
  BY ElementOfSeq, LenProperties DEF TypeInv, TypeOK
<1>4. \A u \in Tasks : \A k \in DOMAIN todo[u] : \A x : x = todo[u][k] => StepOK(x)'
  BY <1>3, RelayedKept DEF RelayInv, TypeInv
<1>5. \A k \in DOMAIN q : \A x : x = q[k] => StepOK(x)'
  BY RelayedKept DEF TypeInv
<1>6. \A u \in Tasks : \A k \in DOMAIN todo'[u] : \A x : x = todo'[u][k] => StepOK(x)'
  BY <1>2, <1>4, <1>5
<1>. QED  BY <1>1, <1>6 DEF RelayInv

\* A handler that sends nothing now, and has nothing of a peer to send later.
LEMMA RelayInnocent ==
    ASSUME TypeInv, RelayInv, Keeps, PlaceOK', outbox' = outbox, NEW t \in Tasks, NEW q,
           todo' = [todo EXCEPT ![t] = q], Innocent(q)
    PROVE  RelayInv'
<1>1. \A k \in DOMAIN q : \A x : x = q[k] => x \in Steps /\ StepOK(x)
  BY DEF Innocent, StepOK
<1>2. \A c \in Conns : \A k \in DOMAIN outbox'[c] : \A m : m = outbox'[c][k] => FrameOK(m, c)
  BY DEF RelayInv
<1>. QED  BY <1>1, <1>2, RelayStep

\* Nothing is sent or to be sent that was not before.
LEMMA RelaySame ==
    ASSUME TypeInv, RelayInv, Keeps, PlaceOK', todo' = todo,
           \A c \in Conns : \A k \in DOMAIN outbox'[c] : \A m : m = outbox'[c][k] => FrameOK(m, c)
    PROVE  RelayInv'
<1>1. 0 \in Tasks /\ todo' = [todo EXCEPT ![0] = todo[0]]
  BY TasksOfConns DEF TypeInv, TypeOK
<1>2. \A k \in DOMAIN todo[0] : \A x : x = todo[0][k] => x \in Steps /\ StepOK(x)
  BY <1>1, ElementOfSeq, LenProperties DEF TypeInv, TypeOK, RelayInv
<1>. QED  BY <1>1, <1>2, RelayStep

LEMMA ReplyInnocent ==
    /\ \A c \in Conns : Innocent(<<Send(c, Reply)>>)
    /\ \A c \in Conns : Innocent(<<Send(c, Reply), [do |-> "detach"]>>)
    /\ Innocent(<<[do |-> "detach"]>>) /\ Innocent(<<[do |-> "leave"]>>) /\ Innocent(<<>>)
    /\ \A s : \A D : Notify(s, D) \in Steps =>
          Innocent(<<Notify(s, D)>>) /\ Innocent(<<Notify(s, D), [do |-> "leave"]>>)
<1>1. ASSUME NEW c \in Conns PROVE Innocent(<<Send(c, Reply)>>)
  BY MsgTypes, StepTypes DEF Innocent, Send, Reply
<1>2. ASSUME NEW c \in Conns PROVE Innocent(<<Send(c, Reply), [do |-> "detach"]>>)
  BY MsgTypes, StepTypes DEF Innocent, Send, Reply
<1>3. Innocent(<<[do |-> "detach"]>>) /\ Innocent(<<[do |-> "leave"]>>) /\ Innocent(<<>>)
  BY StepTypes DEF Innocent
<1>4. ASSUME NEW s, NEW D, Notify(s, D) \in Steps
      PROVE  Innocent(<<Notify(s, D)>>) /\ Innocent(<<Notify(s, D), [do |-> "leave"]>>)
  <2>. DEFINE n == Notify(s, D)
              leave == [do |-> "leave"]
  <2>1. n \in Steps /\ n.do = "notify" /\ leave \in Steps /\ leave.do = "leave"
    BY <1>4, StepTypes DEF Notify
  <2>. HIDE DEF n, leave
  <2>2. Innocent(<<n>>)
    BY <2>1 DEF Innocent
  <2>3. DOMAIN <<n, leave>> = {1, 2} /\ <<n, leave>>[1] = n /\ <<n, leave>>[2] = leave
    OBVIOUS
  <2>4. Innocent(<<n, leave>>)
    BY <2>1, <2>3 DEF Innocent
  <2>. QED  BY <2>2, <2>4 DEF n, leave
<1>. QED  BY <1>1, <1>2, <1>3, <1>4

\* The first step is done: the rest was in order before.
LEMMA RelayRest ==
    ASSUME TypeInv, RelayInv, NEW t \in Tasks, todo[t] # <<>>
    PROVE  /\ Head(todo[t]) \in Steps /\ StepOK(Head(todo[t]))
           /\ \A k \in DOMAIN Tail(todo[t]) : \A x : x = Tail(todo[t])[k] => x \in Steps /\ StepOK(x)
<1>1. todo[t] \in Seq(Steps) /\ Head(todo[t]) \in Steps /\ Tail(todo[t]) \in Seq(Steps)
  BY RestType
<1>2. 1 \in DOMAIN todo[t] /\ Head(todo[t]) = todo[t][1]
  BY <1>1
<1>3. StepOK(Head(todo[t]))
  BY <1>2 DEF RelayInv
<1>4. ASSUME NEW k \in DOMAIN Tail(todo[t]) PROVE Tail(todo[t])[k] \in Steps /\ StepOK(Tail(todo[t])[k])
  <2>1. k + 1 \in DOMAIN todo[t] /\ todo[t][k + 1] = Tail(todo[t])[k]
    BY <1>1
  <2>2. StepOK(todo[t][k + 1]) /\ todo[t][k + 1] \in Steps
    BY <1>1, <2>1, ElementOfSeq, LenProperties DEF RelayInv
  <2>. QED  BY <2>1, <2>2
<1>. QED  BY <1>1, <1>3, <1>4

LEMMA RelayAttach ==
    ASSUME TypeInv, RelayInv, NEW c \in Conns, NEW i \in Ids, NEW b \in BOOLEAN, Attach(c, i, b)
    PROVE  RelayInv'
<1>1. dev' = [dev EXCEPT ![c] = i] /\ devices' = [devices EXCEPT ![i] = c] /\ dev[c] = NoId
      /\ UNCHANGED <<outbox, made, mode>> /\ todo' = [todo EXCEPT ![c] = <<Send(c, Reply)>>]
  BY DEF Attach, TypeInv, TypeOK
<1>2. PlaceOK'
  <2>. SUFFICES ASSUME NEW j \in Ids, devices'[j] # 0 PROVE dev'[devices'[j]] = j
    BY DEF PlaceOK
  <2>1. CASE j = i
    BY <1>1, <2>1 DEF TypeInv, TypeOK
  <2>2. CASE j # i
    <3>1. devices'[j] = devices[j] /\ devices[j] \in Conns /\ dev[devices[j]] = j
      BY <1>1, <2>2 DEF RelayInv, PlaceOK, TypeInv, TypeOK
    <3>2. devices[j] # c
      BY <1>1, <3>1, IdsAssumption
    <3>. QED  BY <1>1, <3>1, <3>2 DEF TypeInv, TypeOK
  <2>. QED  BY <2>1, <2>2
<1>3. Keeps
  BY <1>1, LiveMade DEF Keeps, TypeInv, TypeOK
<1>. QED  BY <1>1, <1>2, <1>3, ReplyInnocent, RelayInnocent, TasksOfConns

LEMMA RelayRelay ==
    ASSUME TypeInv, RelayInv, HubConsistent, NEW c \in Conns, NEW s \in live, Relay(c, s)
    PROVE  RelayInv'
<1>. DEFINE to == devices[PeerOf(s, dev[c])]
            m == [kind |-> "relay", session |-> s, from |-> dev[c]]
            f == [do |-> "relay", to |-> to, msg |-> m]
            q == IF to = 0 THEN <<>> ELSE <<f>>
<1>1. c \in Tasks /\ dev[c] \in Ids /\ dev[c] \in Peers(s)
      /\ mode' = [mode EXCEPT ![s] = "relay"] /\ todo' = [todo EXCEPT ![c] = q]
      /\ UNCHANGED <<dev, outbox, devices, made>>
  BY ServingType DEF Relay, connVars
<1>2. s \in DOMAIN made /\ s \in DOMAIN mode /\ s \in Nat /\ Viewer(s) # Host(s)
      /\ PeerOf(s, dev[c]) \in Ids
  BY LiveMade, PeersType DEF PeerOf, HubConsistent, TypeInv
<1>3. mode'[s] = "relay" /\ Keeps
  BY <1>1, <1>2, LiveMade DEF Keeps, TypeInv
<1>4. PlaceOK'
  BY <1>1 DEF RelayInv, PlaceOK
<1>5. to # 0 => \A x : x = f => x \in Steps /\ StepOK(x)'
  <2>. SUFFICES ASSUME to # 0 PROVE \A x : x = f => x \in Steps /\ StepOK(x)'
    OBVIOUS
  <2>1. to \in Conns /\ dev[to] = PeerOf(s, dev[c])
    BY <1>2 DEF RelayInv, PlaceOK, TypeInv, TypeOK
  <2>2. f \in Steps
    BY <1>1, <1>2, <2>1, MsgTypes, StepTypes
  <2>3. dev'[to] # dev[c] /\ Peers(s) = {dev'[to], dev[c]}
    BY <1>1, <1>2, <2>1 DEF PeerOf, Peers
  <2>4. \A n, d : n = m /\ d = to => Relayed(n, d)'
    BY <1>1, <1>2, <1>3, <2>3, SamePeers DEF Relayed
  <2>5. \A x : x = f => StepOK(x)'
    BY <2>4 DEF StepOK
  <2>. QED  BY <2>2, <2>5
<1>6. \A k \in DOMAIN q : \A x : x = q[k] => x \in Steps /\ (StepOK(x) \/ StepOK(x)')
  <2>. HIDE DEF f
  <2>1. CASE to = 0
    BY <2>1
  <2>2. CASE to # 0
    <3>1. q = <<f>>
      BY <2>2
    <3>. HIDE DEF q
    <3>2. DOMAIN q = {1} /\ q[1] = f
      BY <3>1
    <3>. QED  BY <2>2, <3>2, <1>5
  <2>. QED  BY <2>1, <2>2
<1>7. \A d \in Conns : \A k \in DOMAIN outbox'[d] : \A n : n = outbox'[d][k] => FrameOK(n, d)
  BY <1>1 DEF RelayInv
<1>. HIDE DEF q
<1>. QED  BY <1>1, <1>3, <1>4, <1>6, <1>7, RelayStep

LEMMA RelayConnect ==
    ASSUME TypeInv, RelayInv, NEW c \in Conns, NEW t \in Ids, Connect(c, t)
    PROVE  RelayInv'
<1>1. PICK q \in Seq(Steps) : todo' = [todo EXCEPT ![c] = q] /\ Innocent(q)
  BY ConnectSteps
<1>2. c \in Tasks /\ UNCHANGED <<dev, outbox, devices>>
      /\ \E x : made' = Append(made, x) /\ mode' = Append(mode, "pending")
  BY TasksOfConns DEF Connect, connVars
<1>3. Keeps
  <2>1. DOMAIN made = 1..Len(made) /\ DOMAIN mode = 1..Len(made) /\ Len(made) \in Nat
        /\ made \in Seq([viewer : Ids, host : Ids]) /\ mode \in Seq(Modes) /\ Len(mode) = Len(made)
    BY CountType, LenProperties DEF TypeInv, TypeOK
  <2>2. PICK x : made' = Append(made, x) /\ mode' = Append(mode, "pending")
    BY <1>2
  <2>3. \A s \in 1..Len(made) : s \in DOMAIN made' /\ made'[s] = made[s] /\ mode'[s] = mode[s]
    BY <2>1, <2>2
  <2>. QED  BY <1>2, <2>1, <2>3 DEF Keeps
<1>4. PlaceOK'
  BY <1>2 DEF RelayInv, PlaceOK
<1>. QED  BY <1>1, <1>2, <1>3, <1>4, RelayInnocent

LEMMA RelaySweep ==
    ASSUME TypeInv, RelayInv, Sweep
    PROVE  RelayInv'
<1>1. PICK S \in SUBSET live : \E order \in [1..Cardinality(S) -> S] :
          todo' = [todo EXCEPT ![0] = [k \in DOMAIN order |-> Notify(order[k], devices)]]
  BY DEF Sweep
<1>. PICK order \in [1..Cardinality(S) -> S] :
          todo' = [todo EXCEPT ![0] = [k \in DOMAIN order |-> Notify(order[k], devices)]]
  BY <1>1
<1>2. \A s \in S : Notify(s, devices) \in Steps /\ Notify(s, devices).do = "notify"
  BY LiveMade, NotifyType DEF TypeInv, TypeOK
<1>3. Innocent([k \in DOMAIN order |-> Notify(order[k], devices)])
  BY <1>2 DEF Innocent
<1>4. UNCHANGED <<dev, made, mode, outbox, devices>>
  BY DEF Sweep, connVars
<1>5. Keeps /\ PlaceOK'
  BY <1>4, SameKeeps DEF RelayInv, PlaceOK
<1>. QED  BY <1>1, <1>3, <1>4, <1>5, TasksOfConns, RelayInnocent

\* One more frame in an outbox.
LEMMA FramesAppended ==
    ASSUME TypeInv, RelayInv, NEW c \in Conns, NEW m \in Msgs, FrameOK(m, c)
    PROVE  \A k \in DOMAIN Append(outbox[c], m) : \A n : n = Append(outbox[c], m)[k] => FrameOK(n, c)
<1>1. outbox[c] \in Seq(Msgs)
  BY DEF TypeInv, TypeOK
<1>2. ASSUME NEW k \in DOMAIN Append(outbox[c], m) PROVE FrameOK(Append(outbox[c], m)[k], c)
  <2>1. CASE k \in DOMAIN outbox[c]
    <3>1. Append(outbox[c], m)[k] = outbox[c][k]
      BY <1>1, <2>1
    <3>2. FrameOK(outbox[c][k], c)
      BY <2>1 DEF RelayInv
    <3>. QED  BY <3>1, <3>2
  <2>2. CASE k \notin DOMAIN outbox[c]
    <3>1. Append(outbox[c], m)[k] = m
      BY <1>1, <1>2, <2>2
    <3>. QED  BY <3>1
  <2>. QED  BY <2>1, <2>2
<1>. QED  BY <1>2

LEMMA RelaySteps ==
    ASSUME TypeInv, RelayInv, NEW t \in Tasks, Step(t)
    PROVE  RelayInv'
<1>1. CASE StepSend(t)
  <2>. DEFINE x == Head(todo[t])
  <2>1. todo[t] # <<>> /\ x.do \in {"send", "relay"} /\ todo' = [todo EXCEPT ![t] = Tail(todo[t])]
        /\ UNCHANGED <<dev, made, mode, devices>>
    BY <1>1 DEF StepSend, Rest, connVars, tableVars
  <2>2. x \in Steps /\ StepOK(x)
        /\ \A k \in DOMAIN Tail(todo[t]) : \A y : y = Tail(todo[t])[k] => y \in Steps /\ StepOK(y)
    BY <2>1, RelayRest
  <2>3. x.to \in Conns /\ x.msg \in Msgs
    BY <2>1, <2>2, StepFields
  <2>4. FrameOK(x.msg, x.to)
    BY <2>1, <2>2 DEF StepOK, FrameOK
  <2>5. \A k \in DOMAIN Append(outbox[x.to], x.msg) :
            \A n : n = Append(outbox[x.to], x.msg)[k] => FrameOK(n, x.to)
    BY <2>3, <2>4, FramesAppended
  <2>6. outbox' = outbox \/ outbox' = [outbox EXCEPT ![x.to] = Append(outbox[x.to], x.msg)]
    BY <1>1 DEF StepSend
  <2>7. \A c \in Conns : \A k \in DOMAIN outbox'[c] : \A n : n = outbox'[c][k] => FrameOK(n, c)
    <3>1. CASE outbox' = outbox
      BY <3>1 DEF RelayInv
    <3>2. CASE outbox' = [outbox EXCEPT ![x.to] = Append(outbox[x.to], x.msg)]
      <4>1. outbox'[x.to] = Append(outbox[x.to], x.msg)
            /\ \A c \in Conns : c # x.to => outbox'[c] = outbox[c]
        BY <2>3, <3>2 DEF TypeInv, TypeOK
      <4>2. PICK f : f = Append(outbox[x.to], x.msg)
        OBVIOUS
      <4>3. \A k \in DOMAIN f : \A n : n = f[k] => FrameOK(n, x.to)
        BY <2>5, <4>2
      <4>. HIDE DEF x
      <4>4. \A c \in Conns : c # x.to => \A k \in DOMAIN outbox'[c] : \A n : n = outbox'[c][k] => FrameOK(n, c)
        BY <4>1 DEF RelayInv
      <4>5. \A k \in DOMAIN outbox'[x.to] : \A n : n = outbox'[x.to][k] => FrameOK(n, x.to)
        BY <4>1, <4>2, <4>3
      <4>. QED  BY <4>4, <4>5
    <3>. QED  BY <2>6, <3>1, <3>2
  <2>8. Keeps /\ PlaceOK'
    BY <2>1, SameKeeps DEF RelayInv, PlaceOK
  <2>. HIDE DEF x
  <2>. QED  BY <2>1, <2>2, <2>7, <2>8, RelayStep
<1>2. CASE StepStalled(t)
  <2>. DEFINE s == Head(todo[t]).msg.session
  <2>1. todo' = [todo EXCEPT ![t] = IF s \in live THEN <<Notify(s, devices)>> ELSE <<>>]
        /\ UNCHANGED <<dev, made, mode, devices, outbox>>
    BY <1>2 DEF StepStalled, connVars
  <2>. HIDE DEF s
  <2>2. s \in live => Innocent(<<Notify(s, devices)>>)
    BY LiveMade, NotifyType, ReplyInnocent DEF TypeInv, TypeOK
  <2>3. Keeps /\ PlaceOK'
    BY <2>1, SameKeeps DEF RelayInv, PlaceOK
  <2>4. CASE s \in live
    BY <2>1, <2>2, <2>3, <2>4, RelayInnocent
  <2>5. CASE s \notin live
    BY <2>1, <2>3, <2>5, ReplyInnocent, RelayInnocent
  <2>. QED  BY <2>4, <2>5
<1>3. CASE StepNotify(t)
  <2>. DEFINE x == Head(todo[t])
              y == [do |-> "closeRow", session |-> x.session]
              e == About("ended", x.session)
  <2>1. todo[t] # <<>> /\ x.do = "notify" /\ todo' = [todo EXCEPT ![t] = <<y>> \o Tail(todo[t])]
        /\ outbox' = [c \in Conns |-> IF c \in x.to \ deaf /\ Len(outbox[c]) < OutCap
                                      THEN Append(outbox[c], e) ELSE outbox[c]]
        /\ UNCHANGED <<dev, made, mode, devices>>
    BY <1>3 DEF StepNotify, connVars, tableVars
  <2>2. x \in Steps /\ Tail(todo[t]) \in Seq(Steps)
        /\ \A k \in DOMAIN Tail(todo[t]) : \A z : z = Tail(todo[t])[k] => z \in Steps /\ StepOK(z)
    BY <2>1, RelayRest, RestType
  <2>3. y \in Steps /\ y.do = "closeRow" /\ e \in Msgs /\ e.kind = "ended"
    BY <2>1, <2>2, StepFields, StepTypes, MsgTypes DEF About
  <2>. HIDE DEF x, y, e
  <2>4. StepOK(y)
    BY <2>3 DEF StepOK
  <2>5. ASSUME NEW k \in DOMAIN (<<y>> \o Tail(todo[t]))
        PROVE  (<<y>> \o Tail(todo[t]))[k] \in Steps /\ StepOK((<<y>> \o Tail(todo[t]))[k])
    <3>1. CASE k = 1
      <4>1. (<<y>> \o Tail(todo[t]))[k] = y
        BY <2>2, <3>1
      <4>. QED  BY <4>1, <2>3, <2>4
    <3>2. CASE k # 1
      <4>1. k - 1 \in DOMAIN Tail(todo[t]) /\ (<<y>> \o Tail(todo[t]))[k] = Tail(todo[t])[k - 1]
        BY <2>2, <2>5, <3>2
      <4>. QED  BY <4>1, <2>2
    <3>. QED  BY <3>1, <3>2
  <2>6. \A c \in Conns : FrameOK(e, c)
    BY <2>3 DEF FrameOK
  <2>7. \A c \in Conns : \A k \in DOMAIN Append(outbox[c], e) :
            \A n : n = Append(outbox[c], e)[k] => FrameOK(n, c)
    BY <2>3, <2>6, FramesAppended
  <2>8. \A c \in Conns : \A k \in DOMAIN outbox'[c] : \A n : n = outbox'[c][k] => FrameOK(n, c)
    BY <2>1, <2>7 DEF RelayInv
  <2>9. Keeps /\ PlaceOK'
    BY <2>1, SameKeeps DEF RelayInv, PlaceOK
  <2>10. PICK q : q = <<y>> \o Tail(todo[t])
    OBVIOUS
  <2>11. todo' = [todo EXCEPT ![t] = q]
    BY <2>1, <2>10
  <2>12. \A k \in DOMAIN q : \A z : z = q[k] => z \in Steps /\ StepOK(z)
    BY <2>5, <2>10
  <2>. QED  BY <2>8, <2>9, <2>11, <2>12, RelayStep
<1>4. CASE StepOpenRow(t) \/ StepCloseRow(t) \/ (t \in Conns /\ StepLeave(t))
  <2>1. todo[t] # <<>> /\ todo' = [todo EXCEPT ![t] = Tail(todo[t])]
        /\ UNCHANGED <<dev, made, mode, devices, outbox>>
    BY <1>4 DEF StepOpenRow, StepCloseRow, StepLeave, Rest, connVars, tableVars
  <2>2. \A k \in DOMAIN Tail(todo[t]) : \A y : y = Tail(todo[t])[k] => y \in Steps /\ StepOK(y)
    BY <2>1, RelayRest
  <2>3. Keeps /\ PlaceOK'
    BY <2>1, SameKeeps DEF RelayInv, PlaceOK
  <2>4. \A c \in Conns : \A k \in DOMAIN outbox'[c] : \A n : n = outbox'[c][k] => FrameOK(n, c)
    BY <2>1 DEF RelayInv
  <2>. QED  BY <2>1, <2>2, <2>3, <2>4, RelayStep
<1>5. CASE t \in Conns /\ StepDetach(t)
  <2>. DEFINE i == dev[t]
              devs == [devices EXCEPT ![i] = 0]
  <2>1. UNCHANGED <<dev, made, mode, outbox>> /\ i \in Ids
    BY <1>5, BusyType DEF StepDetach, connVars
  <2>2. PICK q : todo' = [todo EXCEPT ![t] = q] /\ Innocent(q)
    <3>1. CASE devices[i] = t /\ inSession[i] \in live
      <4>1. todo' = [todo EXCEPT ![t] = <<Notify(inSession[i], devs), [do |-> "leave"]>>]
        BY <1>5, <3>1 DEF StepDetach
      <4>2. devs \in [Ids -> Conns \cup {0}] /\ inSession[i] \in DOMAIN made
        BY <3>1, LiveMade DEF TypeInv, TypeOK
      <4>3. Notify(inSession[i], devs) \in Steps
        BY <4>2, NotifyType DEF TypeInv
      <4>4. Innocent(<<Notify(inSession[i], devs), [do |-> "leave"]>>)
        BY <4>3, ReplyInnocent
      <4>. QED  BY <4>1, <4>4
    <3>2. CASE ~(devices[i] = t /\ inSession[i] \in live)
      <4>1. todo' = [todo EXCEPT ![t] = <<[do |-> "leave"]>>]
        BY <1>5, <3>2 DEF StepDetach
      <4>. QED  BY <4>1, ReplyInnocent
    <3>. QED  BY <3>1, <3>2
  <2>3. devices' = devices \/ devices' = devs
    BY <1>5 DEF StepDetach
  <2>4. Keeps /\ PlaceOK'
    BY <2>1, <2>3, SameKeeps DEF RelayInv, PlaceOK, TypeInv, TypeOK
  <2>. QED  BY <2>1, <2>2, <2>4, RelayInnocent
<1>. QED  BY <1>1, <1>2, <1>3, <1>4, <1>5 DEF Step

LEMMA RelayNext == TypeInv /\ HubConsistent /\ RelayInv /\ [Next]_vars => RelayInv'
<1>. SUFFICES ASSUME TypeInv, HubConsistent, RelayInv, [Next]_vars PROVE RelayInv'
  OBVIOUS
<1>1. ASSUME UNCHANGED <<dev, devices>> PROVE PlaceOK'
  BY <1>1 DEF RelayInv, PlaceOK
<1>2. ASSUME UNCHANGED <<dev, made, mode, devices, outbox>>, NEW c \in Conns, NEW q,
             todo' = [todo EXCEPT ![c] = q], Innocent(q)
      PROVE  RelayInv'
  BY <1>1, <1>2, SameKeeps, TasksOfConns, RelayInnocent
<1>3. ASSUME UNCHANGED <<dev, devices, outbox, todo>>, Keeps PROVE RelayInv'
  <2>1. \A c \in Conns : \A k \in DOMAIN outbox'[c] : \A m : m = outbox'[c][k] => FrameOK(m, c)
    BY <1>3 DEF RelayInv
  <2>. QED  BY <1>1, <1>3, <2>1, RelaySame
<1>4. ASSUME NEW c \in Conns, NEW i \in Ids, NEW b \in BOOLEAN, Attach(c, i, b) PROVE RelayInv'
  BY <1>4, RelayAttach
<1>5. ASSUME NEW c \in Conns, Kick(c) \/ Close(c) PROVE RelayInv'
  BY <1>2, <1>5, ReplyInnocent DEF Kick, Close, connVars, tableVars
<1>6. ASSUME NEW c \in Conns, WriterEnds(c) \/ Write(c) PROVE RelayInv'
  <2>1. UNCHANGED <<dev, made, mode, devices, todo>>
    BY <1>6 DEF WriterEnds, Write, connVars, tableVars
  <2>2. (\A d \in Conns : d # c => outbox'[d] = outbox[d])
        /\ (outbox'[c] = <<>> \/ (outbox[c] # <<>> /\ outbox'[c] = Tail(outbox[c])))
    BY <1>6 DEF WriterEnds, Write, TypeInv, TypeOK
  <2>3. ASSUME outbox[c] # <<>>, NEW k \in DOMAIN Tail(outbox[c])
        PROVE  FrameOK(Tail(outbox[c])[k], c)
    <3>1. outbox[c] \in Seq(Msgs)
      BY DEF TypeInv, TypeOK
    <3>2. k + 1 \in DOMAIN outbox[c] /\ Tail(outbox[c])[k] = outbox[c][k + 1]
      BY <2>3, <3>1
    <3>3. FrameOK(outbox[c][k + 1], c)
      BY <3>2 DEF RelayInv
    <3>. QED  BY <3>2, <3>3
  <2>4. \A d \in Conns : \A k \in DOMAIN outbox'[d] : \A m : m = outbox'[d][k] => FrameOK(m, d)
    <3>1. ASSUME NEW d \in Conns, outbox'[d] = outbox[d], NEW k \in DOMAIN outbox'[d]
          PROVE  FrameOK(outbox'[d][k], d)
      BY <3>1 DEF RelayInv
    <3>2. \A k \in DOMAIN outbox'[c] : \A m : m = outbox'[c][k] => FrameOK(m, c)
      <4>1. CASE outbox'[c] = <<>>
        <5>1. DOMAIN outbox'[c] = {}
          BY <4>1
        <5>. QED  BY <5>1
      <4>2. CASE outbox[c] # <<>> /\ outbox'[c] = Tail(outbox[c])
        <5>1. PICK f : f = Tail(outbox[c])
          OBVIOUS
        <5>2. \A k \in DOMAIN f : FrameOK(f[k], c)
          BY <2>3, <4>2, <5>1
        <5>. QED  BY <4>2, <5>1, <5>2
      <4>. QED  BY <2>2, <4>1, <4>2
    <3>. QED  BY <2>2, <3>1, <3>2
  <2>. QED  BY <1>1, <2>1, <2>4, SameKeeps, RelaySame
<1>7. ASSUME NEW c \in Conns, Request(c) PROVE RelayInv'
  <2>1. ASSUME NEW b \in BOOLEAN, SetIncomingEnabled(c, b) PROVE RelayInv'
    BY <1>3, <2>1, SameKeeps DEF SetIncomingEnabled, connVars
  <2>2. ASSUME NEW t \in Ids, Connect(c, t) PROVE RelayInv'
    BY <2>2, RelayConnect
  <2>3. ASSUME NEW t \in Ids, ConnectBusy(c, t) PROVE RelayInv'
    BY <1>2, <2>3, ReplyInnocent DEF ConnectBusy, connVars
  <2>4. ASSUME ConnectRefused(c) PROVE RelayInv'
    BY <1>2, <2>4, ReplyInnocent DEF ConnectRefused, connVars, tableVars
  <2>5. ASSUME NEW s \in live, Relay(c, s) PROVE RelayInv'
    BY <2>5, RelayRelay
  <2>6. ASSUME NEW s \in live, EndSession(c, s) PROVE RelayInv'
    <3>1. Innocent(<<Notify(s, devices)>>)
      BY LiveMade, NotifyType, ReplyInnocent DEF TypeInv, TypeOK
    <3>. QED  BY <1>2, <2>6, <3>1 DEF EndSession, connVars
  <2>7. ASSUME NEW s \in live, NEW m \in {"relay", "direct"}, SessionMode(c, s, m) PROVE RelayInv'
    <3>1. mode[s] = "pending" /\ mode' = [mode EXCEPT ![s] = m]
          /\ UNCHANGED <<dev, devices, outbox, todo, made>>
      BY <2>7 DEF SessionMode, connVars
    <3>2. Keeps
      BY <3>1, LiveMade DEF Keeps, TypeInv
    <3>. QED  BY <1>3, <3>1, <3>2
  <2>. QED  BY <1>7, <2>1, <2>2, <2>3, <2>4, <2>5, <2>6, <2>7 DEF Request
<1>8. CASE Sweep
  BY <1>8, RelaySweep
<1>9. ASSUME NEW t \in Tasks, Step(t) PROVE RelayInv'
  BY <1>9, RelaySteps
<1>10. CASE UNCHANGED vars
  BY <1>3, <1>10, SameKeeps DEF vars, connVars, tableVars
<1>. QED  BY <1>4, <1>5, <1>6, <1>7, <1>8, <1>9, <1>10 DEF Next

LEMMA InitRelay == Init => RelayInv
BY DEF Init, RelayInv, PlaceOK

\* A frame of one peer goes to the other peer of its session or nowhere, and only in a
\* session that was settled as relayed: whatever ended or reconnected while it waited.
THEOREM RelayHolds == Spec => []RelayOnlyBetweenPeers
<1>1. RelayInv => RelayOnlyBetweenPeers
  BY DEF RelayInv, RelayOnlyBetweenPeers, FrameOK, StepOK
<1>. QED  BY <1>1, InitRelay, RelayNext, TypeHolds, ConsistentHolds, PTL DEF Spec

-----------------------------------------------------------------------------
(* The end of a session is worked off once *)

\* What a task still has to do about the end of a session.
Ending(x) == x.do \in {"notify", "closeRow"}

\* Whoever has something to do about the end of a session is the only one, the session
\* is over, and its end was not worked off before.
OnceInv ==
    /\ \A t \in Tasks : \A k \in DOMAIN todo[t] : Ending(todo[t][k]) =>
          LET s == todo[t][k].session
          IN s \in DOMAIN made /\ s \notin live /\ reported[s] = 0
    /\ \A t, u \in Tasks : \A j \in DOMAIN todo[t], k \in DOMAIN todo[u] :
          Ending(todo[t][j]) /\ Ending(todo[u][k]) /\ todo[t][j].session = todo[u][k].session
             => t = u /\ j = k
    /\ \A s \in DOMAIN made : reported[s] \in {0, 1} /\ (s \in live => reported[s] = 0)

LEMMA InitOnce == Init => OnceInv
<1>. SUFFICES ASSUME Init PROVE OnceInv
  OBVIOUS
<1>1. DOMAIN made = {} /\ \A t \in Tasks : DOMAIN todo[t] = {}
  BY DEF Init
<1>. QED  BY <1>1 DEF OnceInv

\* A handler goes on with q.  What it has to do about the end of a session is what it had
\* to do before, or is about a session it has just ended.
LEMMA OnceStep ==
    ASSUME TypeInv, OnceInv, NEW t \in Tasks, NEW q, todo' = [todo EXCEPT ![t] = q],
           DOMAIN made \subseteq DOMAIN made',
           \A s \in DOMAIN made : reported'[s] = reported[s],
           \A s \in DOMAIN made' \ DOMAIN made : reported'[s] = 0,
           live' \cap DOMAIN made \subseteq live,
           \A k \in DOMAIN q : Ending(q[k]) =>
               \/ q[k].session \in live \ live'
               \/ \E j \in DOMAIN todo[t] : Ending(todo[t][j]) /\ todo[t][j].session = q[k].session,
           \A j, k \in DOMAIN q :
               Ending(q[j]) /\ Ending(q[k]) /\ q[j].session = q[k].session => j = k
    PROVE  OnceInv'
<1>1. todo'[t] = q /\ \A u \in Tasks : u # t => todo'[u] = todo[u]
  BY DEF TypeInv, TypeOK
<1>2. live \subseteq DOMAIN made
  BY LiveMade DEF TypeInv
<1>3. ASSUME NEW u \in Tasks, NEW k \in DOMAIN todo'[u], Ending(todo'[u][k])
      PROVE  \/ todo'[u][k].session \in live \ live' /\ u = t
             \/ \E j \in DOMAIN todo[u] : /\ Ending(todo[u][j]) /\ todo[u][j].session = todo'[u][k].session
                                          /\ u # t => j = k
  <2>1. CASE u = t
    BY <1>1, <1>3, <2>1
  <2>2. CASE u # t
    BY <1>1, <1>3, <2>2
  <2>. QED  BY <2>1, <2>2
<1>4. ASSUME NEW u \in Tasks, NEW k \in DOMAIN todo'[u], Ending(todo'[u][k])
      PROVE  LET s == todo'[u][k].session
             IN s \in DOMAIN made' /\ s \notin live' /\ reported'[s] = 0
  <2>. DEFINE s == todo'[u][k].session
  <2>1. CASE s \in live \ live'
    <3>1. s \in DOMAIN made /\ reported[s] = 0
      BY <1>2, <2>1 DEF OnceInv
    <3>. QED  BY <2>1, <3>1
  <2>2. CASE \E j \in DOMAIN todo[u] : Ending(todo[u][j]) /\ todo[u][j].session = s
    <3>1. s \in DOMAIN made /\ s \notin live /\ reported[s] = 0
      BY <2>2 DEF OnceInv
    <3>. QED  BY <3>1
  <2>. QED  BY <1>3, <1>4, <2>1, <2>2
<1>5. ASSUME NEW u \in Tasks, NEW w \in Tasks, NEW j \in DOMAIN todo'[u], NEW k \in DOMAIN todo'[w],
             Ending(todo'[u][j]), Ending(todo'[w][k]), todo'[u][j].session = todo'[w][k].session
      PROVE  u = w /\ j = k
  <2>. DEFINE s == todo'[u][j].session
  <2>1. \/ s \in live \ live' /\ u = t
        \/ \E i \in DOMAIN todo[u] : Ending(todo[u][i]) /\ todo[u][i].session = s /\ (u # t => i = j)
    BY <1>3, <1>5
  <2>2. \/ s \in live \ live' /\ w = t
        \/ \E i \in DOMAIN todo[w] : Ending(todo[w][i]) /\ todo[w][i].session = s /\ (w # t => i = k)
    BY <1>3, <1>5
  <2>. HIDE DEF s
  <2>3. s \in live => \A x \in Tasks : \A i \in DOMAIN todo[x] :
                          ~(Ending(todo[x][i]) /\ todo[x][i].session = s)
    BY DEF OnceInv
  <2>4. u = w
    BY <2>1, <2>2, <2>3 DEF OnceInv
  <2>5. CASE u = t
    BY <1>1, <1>5, <2>4, <2>5
  <2>6. CASE u # t
    BY <2>1, <2>2, <2>4, <2>6 DEF OnceInv
  <2>. QED  BY <2>4, <2>5, <2>6
<1>6. \A s \in DOMAIN made' : reported'[s] \in {0, 1} /\ (s \in live' => reported'[s] = 0)
  BY DEF OnceInv
<1>. QED  BY <1>4, <1>5, <1>6 DEF OnceInv

\* What q has to do about the end of a session, the task had to do before, and once.
Inherited(t, q) ==
    /\ \A k \in DOMAIN q : Ending(q[k]) =>
           \E j \in DOMAIN todo[t] : Ending(todo[t][j]) /\ todo[t][j].session = q[k].session
    /\ \A j, k \in DOMAIN q :
           Ending(q[j]) /\ Ending(q[k]) /\ q[j].session = q[k].session => j = k

LEMMA OnceInherited ==
    ASSUME TypeInv, OnceInv, NEW t \in Tasks, NEW q, todo' = [todo EXCEPT ![t] = q],
           UNCHANGED <<made, reported, live>>, Inherited(t, q)
    PROVE  OnceInv'
<1>1. \A s \in DOMAIN made : reported'[s] = reported[s]
  OBVIOUS
<1>2. /\ DOMAIN made \subseteq DOMAIN made' /\ live' \cap DOMAIN made \subseteq live
      /\ \A s \in DOMAIN made' \ DOMAIN made : reported'[s] = 0
  OBVIOUS
<1>. QED  BY <1>1, <1>2, OnceStep DEF Inherited

\* Nothing is said of the end of a session.
Silent(q) == \A k \in DOMAIN q : ~Ending(q[k])

LEMMA SilentOnes ==
    /\ Silent(<<>>) /\ Silent(<<[do |-> "detach"]>>) /\ Silent(<<[do |-> "leave"]>>)
    /\ \A c, m : Silent(<<Send(c, m)>>) /\ Silent(<<[do |-> "relay", to |-> c, msg |-> m]>>)
    /\ \A c, m : Silent(<<Send(c, m), [do |-> "detach"]>>)
<1>1. Silent(<<>>) /\ Silent(<<[do |-> "detach"]>>) /\ Silent(<<[do |-> "leave"]>>)
  BY DEF Silent, Ending
<1>2. ASSUME NEW c, NEW m
      PROVE  /\ Silent(<<Send(c, m)>>) /\ Silent(<<[do |-> "relay", to |-> c, msg |-> m]>>)
             /\ Silent(<<Send(c, m), [do |-> "detach"]>>)
  <2>1. Silent(<<Send(c, m)>>)
    BY DEF Silent, Ending, Send
  <2>2. Silent(<<[do |-> "relay", to |-> c, msg |-> m]>>)
    BY DEF Silent, Ending
  <2>3. Silent(<<Send(c, m), [do |-> "detach"]>>)
    BY DEF Silent, Ending, Send
  <2>. QED  BY <2>1, <2>2, <2>3
<1>. QED  BY <1>1, <1>2

LEMMA OnceSilent ==
    ASSUME TypeInv, OnceInv, NEW t \in Tasks, NEW q, todo' = [todo EXCEPT ![t] = q],
           UNCHANGED <<made, reported>>, live' \subseteq live, Silent(q)
    PROVE  OnceInv'
BY OnceStep DEF Silent

LEMMA OnceSame ==
    ASSUME OnceInv, UNCHANGED <<todo, made, reported>>, live' = live
    PROVE  OnceInv'
BY DEF OnceInv

\* A handler ends one session and tells of that.
LEMMA OnceTold ==
    ASSUME TypeInv, OnceInv, NEW t \in Tasks, NEW s \in live \ live', NEW D, NEW q,
           q \in {<<Notify(s, D)>>, <<Notify(s, D), [do |-> "leave"]>>},
           todo' = [todo EXCEPT ![t] = q], UNCHANGED <<made, reported>>, live' \subseteq live
    PROVE  OnceInv'
<1>. DEFINE n == Notify(s, D)
            l == [do |-> "leave"]
<1>1. n.session = s /\ ~Ending(l)
  BY DEF Notify, Ending
<1>. HIDE DEF n, l
<1>2. \A k \in DOMAIN q : Ending(q[k]) => k = 1 /\ q[k].session = s
  <2>1. CASE q = <<n>>
    <3>1. DOMAIN q = {1} /\ q[1] = n
      BY <2>1
    <3>. QED  BY <1>1, <3>1
  <2>2. CASE q = <<n, l>>
    <3>1. DOMAIN q = {1, 2} /\ q[1] = n /\ q[2] = l
      BY <2>2
    <3>. QED  BY <1>1, <3>1
  <2>. QED  BY <2>1, <2>2 DEF n, l
<1>3. /\ DOMAIN made \subseteq DOMAIN made' /\ live' \cap DOMAIN made \subseteq live
      /\ \A r \in DOMAIN made : reported'[r] = reported[r]
      /\ \A r \in DOMAIN made' \ DOMAIN made : reported'[r] = 0
  OBVIOUS
<1>4. \A j, k \in DOMAIN q :
          Ending(q[j]) /\ Ending(q[k]) /\ q[j].session = q[k].session => j = k
  BY <1>2
<1>5. \A k \in DOMAIN q : Ending(q[k]) => q[k].session \in live \ live'
  BY <1>2
<1>. QED  BY <1>3, <1>4, <1>5, OnceStep

LEMMA OnceSweep ==
    ASSUME TypeInv, OnceInv, Sweep
    PROVE  OnceInv'
<1>1. PICK S \in (SUBSET {s \in live : mode[s] # "direct" /\ rows[s] # "none"}) \ {{}} :
          /\ EndLocked(S)
          /\ \E order \in [1..Cardinality(S) -> S] :
                /\ \A s \in S : \E k \in DOMAIN order : order[k] = s
                /\ todo' = [todo EXCEPT ![0] = [k \in DOMAIN order |-> Notify(order[k], devices)]]
  BY DEF Sweep
<1>2. PICK order \in [1..Cardinality(S) -> S] :
          /\ \A s \in S : \E k \in DOMAIN order : order[k] = s
          /\ todo' = [todo EXCEPT ![0] = [k \in DOMAIN order |-> Notify(order[k], devices)]]
  BY <1>1
<1>3. Cardinality(S) \in Nat /\ S \subseteq live /\ IsFiniteSet(S)
  <2>1. S \subseteq live
    OBVIOUS
  <2>. QED  BY <2>1, LiveFinite, FS_Subset, FS_CardinalityType DEF TypeInv
<1>4. IsFiniteSet(1..Cardinality(S)) /\ Cardinality(1..Cardinality(S)) = Cardinality(S)
  <2>. DEFINE n == Cardinality(S)
  <2>1. n \in Int /\ 1 \in Int /\ n \in Nat
    BY <1>3
  <2>. HIDE DEF n
  <2>2. IsFiniteSet(1..n) /\ Cardinality(1..n) = IF 1 > n THEN 0 ELSE n - 1 + 1
    BY <2>1, FS_Interval
  <2>3. Cardinality(1..n) = n
    BY <2>1, <2>2
  <2>. QED  BY <2>2, <2>3 DEF n
<1>5. order \in Surjection(1..Cardinality(S), S)
  BY <1>2 DEF Surjection
<1>6. order \in Injection(1..Cardinality(S), S)
  BY <1>4, <1>5, FS_SurjSameCardinalityImpliesInj
<1>7. \A j, k \in 1..Cardinality(S) : order[j] = order[k] => j = k
  BY <1>6 DEF Injection, IsInjective
<1>. DEFINE q == [k \in DOMAIN order |-> Notify(order[k], devices)]
<1>8. /\ DOMAIN q = 1..Cardinality(S)
      /\ \A k \in DOMAIN q : q[k].session = order[k] /\ order[k] \in S
  BY DEF Notify
<1>9. todo' = [todo EXCEPT ![0] = q] /\ 0 \in Tasks
  BY <1>2, TasksOfConns
<1>. HIDE DEF q
<1>10. live' = live \ S /\ UNCHANGED <<made, reported>>
  BY <1>1 DEF Sweep, EndLocked
<1>11. \A k \in DOMAIN q : q[k].session \in live \ live'
  BY <1>3, <1>8, <1>10
<1>12. \A j, k \in DOMAIN q : q[j].session = q[k].session => j = k
  BY <1>7, <1>8
<1>. QED  BY <1>9, <1>10, <1>11, <1>12, OnceStep

LEMMA OnceConnect ==
    ASSUME TypeInv, OnceInv, NEW c \in Conns, NEW t \in Ids, Connect(c, t)
    PROVE  OnceInv'
<1>. DEFINE v == dev[c]
            n == Len(made) + 1
            a == IF Replaced(v) = {} THEN <<>> ELSE <<Notify(inSession[v], devices)>>
            b1 == [do |-> "openRow", session |-> n]
            b2 == Send(devices[t], About("incoming", n))
            b3 == Send(c, About("ready", n))
            b == <<b1, b2, b3>>
<1>1. /\ todo' = [todo EXCEPT ![c] = a \o b] /\ live' = (live \ Replaced(v)) \cup {n}
      /\ reported' = Append(reported, 0) /\ c \in Tasks
      /\ \E x : made' = Append(made, x)
  BY TasksOfConns DEF Connect
<1>2. /\ Len(made) \in Nat /\ DOMAIN made = 1..Len(made) /\ made \in Seq([viewer : Ids, host : Ids])
      /\ reported \in Seq(Nat) /\ Len(reported) = Len(made) /\ live \subseteq 1..Len(made)
  BY CountType, LenProperties DEF TypeInv, TypeOK
<1>3. DOMAIN made' = 1..n
  BY <1>1, <1>2
<1>4. /\ \A s \in DOMAIN made : reported'[s] = reported[s]
      /\ \A s \in DOMAIN made' \ DOMAIN made : reported'[s] = 0
  <2>1. /\ \A s \in 1..Len(made) : reported'[s] = reported[s]
        /\ reported'[n] = 0
    BY <1>1, <1>2
  <2>2. \A s \in DOMAIN made' \ DOMAIN made : s = n
    BY <1>2, <1>3
  <2>. QED  BY <1>2, <2>1, <2>2
<1>5. ~Ending(b1) /\ ~Ending(b2) /\ ~Ending(b3)
  BY DEF Send, Ending
<1>6. \/ a = <<>>
      \/ Len(a) = 1 /\ a[1].session = inSession[v] /\ inSession[v] \in live \ live'
  <2>1. CASE Replaced(v) = {}
    BY <2>1
  <2>2. CASE Replaced(v) # {}
    <3>1. inSession[v] \in live /\ Replaced(v) = {inSession[v]}
      BY <2>2, ReplacedLive
    <3>2. inSession[v] # n
      BY <1>2, <3>1
    <3>3. inSession[v] \notin live'
      BY <1>1, <3>1, <3>2
    <3>4. Len(a) = 1 /\ a[1] = Notify(inSession[v], devices)
      BY <2>2
    <3>. QED  BY <3>1, <3>3, <3>4 DEF Notify
  <2>. QED  BY <2>1, <2>2
<1>7. PICK x : x = Notify(inSession[v], devices)
  OBVIOUS
<1>8. a \in Seq({x})
  <2>1. <<>> \in Seq({x}) /\ <<x>> \in Seq({x})
    OBVIOUS
  <2>. QED  BY <1>7, <2>1
<1>. HIDE DEF a, b1, b2, b3
<1>12. /\ b \in Seq({b1, b2, b3}) /\ Len(b) = 3 /\ b[1] = b1 /\ b[2] = b2 /\ b[3] = b3
  OBVIOUS
<1>13. PICK q : q = a \o b
  OBVIOUS
<1>. HIDE DEF b
<1>9. /\ \A k \in DOMAIN q : Ending(q[k]) => k = 1 /\ q[k].session \in live \ live'
  <2>1. CASE a = <<>>
    <3>1. DOMAIN q = {1, 2, 3} /\ q[1] = b1 /\ q[2] = b2 /\ q[3] = b3
      BY <1>12, <1>13, <2>1
    <3>. QED  BY <1>5, <3>1
  <2>2. CASE Len(a) = 1 /\ a[1].session = inSession[v] /\ inSession[v] \in live \ live'
    <3>. DEFINE T == {x, b1, b2, b3}
    <3>0. {x} \subseteq T /\ {b1, b2, b3} \subseteq T
      OBVIOUS
    <3>. HIDE DEF T
    <3>1. a \in Seq(T) /\ b \in Seq(T) /\ Len(a) = 1 /\ Len(b) = 3
      BY <1>8, <1>12, <2>2, <3>0
    <3>2. /\ q \in Seq(T) /\ Len(q) = 4
          /\ q[1] = a[1] /\ q[2] = b[1] /\ q[3] = b[2] /\ q[4] = b[3]
      <4>1. /\ a \o b \in Seq(T) /\ Len(a \o b) = Len(a) + Len(b)
            /\ \A i \in 1..(Len(a) + Len(b)) :
                  (a \o b)[i] = IF i <= Len(a) THEN a[i] ELSE b[i - Len(a)]
        BY <3>1, ConcatProperties
      <4>2. \A i \in 1..4 : q[i] = IF i <= 1 THEN a[i] ELSE b[i - 1]
        BY <1>13, <3>1, <4>1
      <4>. QED  BY <1>13, <3>1, <4>1, <4>2
    <3>3. DOMAIN q = {1, 2, 3, 4} /\ q[1] = a[1] /\ q[2] = b1 /\ q[3] = b2 /\ q[4] = b3
      <4>1. DOMAIN q = 1..4
        BY <3>2, LenProperties
      <4>. QED  BY <1>12, <3>2, <4>1
    <3>. QED  BY <1>5, <2>2, <3>3
  <2>. QED  BY <1>6, <2>1, <2>2
<1>10. live' \cap DOMAIN made \subseteq live /\ DOMAIN made \subseteq DOMAIN made'
  BY <1>1, <1>2, <1>3
<1>11. todo' = [todo EXCEPT ![c] = q]
  BY <1>1, <1>13
<1>. HIDE DEF n
<1>14. \A j, k \in DOMAIN q :
           Ending(q[j]) /\ Ending(q[k]) /\ q[j].session = q[k].session => j = k
  BY <1>9
<1>15. \A k \in DOMAIN q : Ending(q[k]) => q[k].session \in live \ live'
  BY <1>9
<1>. QED  BY <1>1, <1>4, <1>10, <1>11, <1>14, <1>15, OnceStep

\* The first step is done, and was not about the end of a session.
LEMMA OnceRest ==
    ASSUME TypeInv, OnceInv, NEW t \in Tasks, todo[t] # <<>>,
           todo' = [todo EXCEPT ![t] = Tail(todo[t])],
           UNCHANGED <<made, reported, live>>
    PROVE  OnceInv'
<1>. PICK q : q = Tail(todo[t])
  OBVIOUS
<1>1. /\ todo[t] \in Seq(Steps)
      /\ \A k \in DOMAIN q : k \in Nat /\ k + 1 \in DOMAIN todo[t] /\ q[k] = todo[t][k + 1]
  BY RestType
<1>2. ASSUME NEW j \in DOMAIN q, NEW k \in DOMAIN q, Ending(q[j]), Ending(q[k]),
             q[j].session = q[k].session
      PROVE  j = k
  <2>1. /\ j \in Nat /\ k \in Nat /\ j + 1 \in DOMAIN todo[t] /\ k + 1 \in DOMAIN todo[t]
        /\ Ending(todo[t][j + 1]) /\ Ending(todo[t][k + 1])
        /\ todo[t][j + 1].session = todo[t][k + 1].session
    BY <1>1, <1>2
  <2>2. j + 1 = k + 1
    BY <2>1 DEF OnceInv
  <2>. QED  BY <2>1, <2>2
<1>3. ASSUME NEW k \in DOMAIN q, Ending(q[k])
      PROVE  \E j \in DOMAIN todo[t] : Ending(todo[t][j]) /\ todo[t][j].session = q[k].session
  BY <1>1, <1>3
<1>4. Inherited(t, q)
  BY <1>2, <1>3 DEF Inherited
<1>. QED  BY <1>4, OnceInherited

\* The end of a session was told, and its row is what is left to do about it.
LEMMA OnceNotify ==
    ASSUME TypeInv, OnceInv, NEW t \in Tasks, StepNotify(t)
    PROVE  OnceInv'
<1>. PICK x : x = Head(todo[t])
  OBVIOUS
<1>. PICK y : y = [do |-> "closeRow", session |-> x.session]
  OBVIOUS
<1>0. PICK q : q = <<y>> \o Tail(todo[t])
  OBVIOUS
<1>1. /\ todo[t] # <<>> /\ Ending(x) /\ todo' = [todo EXCEPT ![t] = q]
      /\ UNCHANGED <<made, reported, live>>
  BY <1>0 DEF StepNotify, tableVars, Ending
<1>2. /\ todo[t] \in Seq(Steps) /\ x = todo[t][1] /\ 1 \in DOMAIN todo[t]
      /\ Tail(todo[t]) \in Seq(Steps) /\ Len(Tail(todo[t])) = Len(todo[t]) - 1
      /\ \A k \in 1..Len(Tail(todo[t])) : Tail(todo[t])[k] = todo[t][k + 1]
      /\ DOMAIN todo[t] = 1..Len(todo[t]) /\ Len(todo[t]) \in Nat
  BY <1>1, RestType, HeadTailProperties, LenProperties
<1>3. /\ <<y>> \in Seq({y}) /\ Len(<<y>>) = 1 /\ <<y>>[1] = y
  OBVIOUS
<1>4. DOMAIN q = DOMAIN todo[t] /\ q[1] = y /\ \A k \in DOMAIN q : k # 1 => q[k] = todo[t][k]
  <2>. PICK r : r = Tail(todo[t])
    OBVIOUS
  <2>1. /\ r \in Seq(Steps) /\ Len(r) = Len(todo[t]) - 1
        /\ \A k \in 1..Len(r) : r[k] = todo[t][k + 1]
        /\ q = <<y>> \o r
    BY <1>0, <1>2
  <2>2. /\ Len(q) = Len(todo[t]) /\ DOMAIN q = 1..Len(q) /\ q[1] = y
        /\ \A k \in 1..Len(r) : q[k + 1] = r[k]
    BY <1>2, <1>3, <2>1
  <2>3. ASSUME NEW k \in DOMAIN q, k # 1 PROVE q[k] = todo[t][k]
    <3>1. k - 1 \in 1..Len(r) /\ (k - 1) + 1 = k
      BY <1>2, <2>1, <2>2, <2>3
    <3>2. q[(k - 1) + 1] = r[k - 1] /\ r[k - 1] = todo[t][(k - 1) + 1]
      BY <2>1, <2>2, <3>1
    <3>. QED  BY <3>1, <3>2
  <2>. QED  BY <1>2, <2>2, <2>3
<1>5. \A k \in DOMAIN q : Ending(q[k]) =>
          k \in DOMAIN todo[t] /\ Ending(todo[t][k]) /\ todo[t][k].session = q[k].session
  <2>1. y.session = todo[t][1].session /\ Ending(todo[t][1])
    BY <1>1, <1>2
  <2>. QED  BY <1>2, <1>4, <2>1
<1>6. \A j, k \in DOMAIN q :
          Ending(q[j]) /\ Ending(q[k]) /\ q[j].session = q[k].session => j = k
  <2>. SUFFICES ASSUME NEW j \in DOMAIN q, NEW k \in DOMAIN q, Ending(q[j]), Ending(q[k]),
                       q[j].session = q[k].session
                PROVE  j = k
    OBVIOUS
  <2>1. /\ j \in DOMAIN todo[t] /\ k \in DOMAIN todo[t]
        /\ Ending(todo[t][j]) /\ Ending(todo[t][k])
        /\ todo[t][j].session = todo[t][k].session
    BY <1>5
  <2>. QED  BY <2>1 DEF OnceInv
<1>7. Inherited(t, q)
  BY <1>5, <1>6, Zenon DEF Inherited
<1>. QED  BY <1>1, <1>7, OnceInherited

\* The end of a session is worked off; nobody else has anything to do about it.
LEMMA OnceCloseRow ==
    ASSUME TypeInv, OnceInv, NEW t \in Tasks, StepCloseRow(t)
    PROVE  OnceInv'
<1>. PICK x : x = Head(todo[t])
  OBVIOUS
<1>. PICK q : q = Tail(todo[t])
  OBVIOUS
<1>1. /\ todo[t] # <<>> /\ Ending(x) /\ todo' = [todo EXCEPT ![t] = q]
      /\ reported' = [reported EXCEPT ![x.session] = @ + 1] /\ UNCHANGED <<made, live>>
  BY DEF StepCloseRow, Rest, tableVars, Ending
<1>2. /\ x = todo[t][1] /\ 1 \in DOMAIN todo[t]
      /\ \A k \in DOMAIN q : k \in Nat /\ k # 0 /\ k + 1 \in DOMAIN todo[t] /\ q[k] = todo[t][k + 1]
  BY <1>1, RestType
<1>3. /\ todo'[t] = q /\ \A u \in Tasks : u # t => todo'[u] = todo[u]
  BY <1>1 DEF TypeInv, TypeOK
<1>4. x.session \in DOMAIN made /\ x.session \notin live /\ reported[x.session] = 0
  BY <1>1, <1>2 DEF OnceInv
<1>5. /\ reported'[x.session] = 1
      /\ \A s \in DOMAIN made : s # x.session => reported'[s] = reported[s]
  <2>1. DOMAIN reported = DOMAIN made
    BY DEF TypeInv, TypeOK
  <2>. QED  BY <1>1, <1>4, <2>1
<1>6. ASSUME NEW u \in Tasks, NEW k \in DOMAIN todo'[u], Ending(todo'[u][k])
      PROVE  /\ todo'[u][k].session # x.session
             /\ \E j \in DOMAIN todo[u] : /\ Ending(todo[u][j]) /\ todo[u][j].session = todo'[u][k].session
                                          /\ j = IF u = t THEN k + 1 ELSE k
  <2>1. CASE u = t
    <3>1. /\ k \in Nat /\ k # 0 /\ k + 1 \in DOMAIN todo[t] /\ todo'[u][k] = todo[t][k + 1]
      BY <1>2, <1>3, <2>1
    <3>2. todo[t][k + 1].session # todo[t][1].session
      <4>1. k + 1 # 1
        BY <3>1
      <4>. QED  BY <1>1, <1>2, <1>6, <3>1, <4>1 DEF OnceInv
    <3>. QED  BY <1>2, <1>6, <2>1, <3>1, <3>2
  <2>2. CASE u # t
    BY <1>1, <1>2, <1>3, <1>6, <2>2 DEF OnceInv
  <2>. QED  BY <2>1, <2>2
<1>7. ASSUME NEW u \in Tasks, NEW k \in DOMAIN todo'[u], Ending(todo'[u][k])
      PROVE  LET s == todo'[u][k].session
             IN s \in DOMAIN made' /\ s \notin live' /\ reported'[s] = 0
  BY <1>1, <1>5, <1>6, <1>7 DEF OnceInv
<1>8. ASSUME NEW u \in Tasks, NEW w \in Tasks, NEW j \in DOMAIN todo'[u], NEW k \in DOMAIN todo'[w],
             Ending(todo'[u][j]), Ending(todo'[w][k]), todo'[u][j].session = todo'[w][k].session
      PROVE  u = w /\ j = k
  <2>1. PICK a \in DOMAIN todo[u] : /\ Ending(todo[u][a]) /\ todo[u][a].session = todo'[u][j].session
                                    /\ a = IF u = t THEN j + 1 ELSE j
    BY <1>6, <1>8
  <2>2. PICK b \in DOMAIN todo[w] : /\ Ending(todo[w][b]) /\ todo[w][b].session = todo'[w][k].session
                                    /\ b = IF w = t THEN k + 1 ELSE k
    BY <1>6, <1>8
  <2>3. u = w /\ a = b
    BY <1>8, <2>1, <2>2 DEF OnceInv
  <2>4. u = t => j \in Nat /\ k \in Nat
    BY <1>2, <1>3, <1>8, <2>3
  <2>5. CASE u = t
    <3>1. j + 1 = k + 1 /\ j \in Nat /\ k \in Nat
      BY <2>1, <2>2, <2>3, <2>4, <2>5
    <3>. QED  BY <2>3, <3>1
  <2>6. CASE u # t
    BY <2>1, <2>2, <2>3, <2>6
  <2>. QED  BY <2>5, <2>6
<1>9. \A s \in DOMAIN made' : reported'[s] \in {0, 1} /\ (s \in live' => reported'[s] = 0)
  BY <1>1, <1>4, <1>5 DEF OnceInv
<1>. QED  BY <1>7, <1>8, <1>9 DEF OnceInv

LEMMA OnceSteps ==
    ASSUME TypeInv, OnceInv, NEW t \in Tasks, Step(t)
    PROVE  OnceInv'
<1>1. CASE StepSend(t) \/ StepOpenRow(t) \/ (t \in Conns /\ StepLeave(t))
  BY <1>1, OnceRest DEF StepSend, StepOpenRow, StepLeave, Rest, tableVars
<1>2. CASE StepStalled(t)
  <2>. PICK s : s = Head(todo[t]).msg.session
    OBVIOUS
  <2>1. /\ todo' = [todo EXCEPT ![t] = IF s \in live THEN <<Notify(s, devices)>> ELSE <<>>]
        /\ UNCHANGED <<made, reported>> /\ live' = live \ ({s} \cap live)
    BY <1>2 DEF StepStalled, EndLocked
  <2>2. CASE s \in live
    BY <2>1, <2>2, OnceTold
  <2>3. CASE s \notin live
    BY <2>1, <2>3, SilentOnes, OnceSilent
  <2>. QED  BY <2>2, <2>3
<1>3. CASE StepNotify(t)
  BY <1>3, OnceNotify
<1>4. CASE StepCloseRow(t)
  BY <1>4, OnceCloseRow
<1>5. CASE t \in Conns /\ StepDetach(t)
  <2>. PICK i : i = dev[t]
    OBVIOUS
  <2>. PICK devs : devs = [devices EXCEPT ![i] = 0]
    OBVIOUS
  <2>1. CASE devices[i] = t /\ inSession[i] \in live
    <3>1. /\ todo' = [todo EXCEPT ![t] = <<Notify(inSession[i], devs), [do |-> "leave"]>>]
          /\ live' = live \ ({inSession[i]} \cap live) /\ UNCHANGED <<made, reported>>
      BY <1>5, <2>1 DEF StepDetach, EndLocked
    <3>2. inSession[i] \in live \ live' /\ live' \subseteq live
      BY <2>1, <3>1
    <3>. QED  BY <3>1, <3>2, OnceTold
  <2>2. CASE ~(devices[i] = t /\ inSession[i] \in live)
    <3>1. /\ todo' = [todo EXCEPT ![t] = <<[do |-> "leave"]>>]
          /\ live' \subseteq live /\ UNCHANGED <<made, reported>>
      BY <1>5, <2>2 DEF StepDetach, EndLocked
    <3>. QED  BY <3>1, SilentOnes, OnceSilent
  <2>. QED  BY <2>1, <2>2
<1>. QED  BY <1>1, <1>2, <1>3, <1>4, <1>5 DEF Step

LEMMA OnceNext == TypeInv /\ OnceInv /\ [Next]_vars => OnceInv'
<1>. SUFFICES ASSUME TypeInv, OnceInv, [Next]_vars PROVE OnceInv'
  OBVIOUS
<1>1. ASSUME NEW c \in Conns, NEW i \in Ids, NEW b \in BOOLEAN, Attach(c, i, b) PROVE OnceInv'
  BY <1>1, TasksOfConns, SilentOnes, OnceSilent DEF Attach
<1>2. ASSUME NEW c \in Conns, Kick(c) \/ Close(c) PROVE OnceInv'
  BY <1>2, TasksOfConns, SilentOnes, OnceSilent DEF Kick, Close, tableVars
<1>3. ASSUME NEW c \in Conns, WriterEnds(c) \/ Write(c) PROVE OnceInv'
  BY <1>3, OnceSame DEF WriterEnds, Write, tableVars
<1>4. ASSUME NEW c \in Conns, Request(c) PROVE OnceInv'
  <2>1. ASSUME NEW b \in BOOLEAN, SetIncomingEnabled(c, b) PROVE OnceInv'
    BY <2>1, OnceSame DEF SetIncomingEnabled
  <2>2. ASSUME NEW t \in Ids, Connect(c, t) PROVE OnceInv'
    BY <2>2, OnceConnect
  <2>3. ASSUME NEW t \in Ids, ConnectBusy(c, t) PROVE OnceInv'
    <3>1. live' \subseteq live /\ UNCHANGED <<made, reported>> /\ todo' = [todo EXCEPT ![c] = <<Send(c, Reply)>>]
      BY <2>3 DEF ConnectBusy, EndLocked
    <3>. QED  BY <3>1, TasksOfConns, SilentOnes, OnceSilent
  <2>4. ASSUME ConnectRefused(c) PROVE OnceInv'
    BY <2>4, TasksOfConns, SilentOnes, OnceSilent DEF ConnectRefused, tableVars
  <2>5. ASSUME NEW s \in live, Relay(c, s) PROVE OnceInv'
    <3>. PICK to : to = devices[PeerOf(s, dev[c])]
      OBVIOUS
    <3>. PICK m : m = [kind |-> "relay", session |-> s, from |-> dev[c]]
      OBVIOUS
    <3>1. /\ todo' = [todo EXCEPT ![c] = IF to = 0 THEN <<>>
                                         ELSE <<[do |-> "relay", to |-> to, msg |-> m]>>]
          /\ UNCHANGED <<made, reported, live>>
      BY <2>5 DEF Relay
    <3>2. CASE to = 0
      BY <3>1, <3>2, TasksOfConns, SilentOnes, OnceSilent
    <3>3. CASE to # 0
      BY <3>1, <3>3, TasksOfConns, SilentOnes, OnceSilent
    <3>. QED  BY <3>2, <3>3
  <2>6. ASSUME NEW s \in live, EndSession(c, s) PROVE OnceInv'
    <3>1. /\ live' = live \ {s} /\ UNCHANGED <<made, reported>> /\ c \in Tasks
          /\ todo' = [todo EXCEPT ![c] = <<Notify(s, devices)>>]
      BY <2>6, TasksOfConns DEF EndSession, EndLocked
    <3>2. s \in live \ live' /\ live' \subseteq live
      BY <3>1
    <3>. QED  BY <3>1, <3>2, OnceTold
  <2>7. ASSUME NEW s \in live, NEW m \in {"relay", "direct"}, SessionMode(c, s, m) PROVE OnceInv'
    BY <2>7, OnceSame DEF SessionMode
  <2>. QED  BY <1>4, <2>1, <2>2, <2>3, <2>4, <2>5, <2>6, <2>7 DEF Request
<1>5. CASE Sweep
  BY <1>5, OnceSweep
<1>6. ASSUME NEW t \in Tasks, Step(t) PROVE OnceInv'
  BY <1>6, OnceSteps
<1>7. CASE UNCHANGED vars
  BY <1>7, OnceSame DEF vars, tableVars
<1>. QED  BY <1>1, <1>2, <1>3, <1>4, <1>5, <1>6, <1>7 DEF Next

\* The end of a session is told and recorded by one task only, once, and never while the
\* session lives: whoever ends it takes it out of the table under the lock, so none of
\* those who want to end it at the same time does so again.
THEOREM ReportedOnceHolds == Spec => []ReportedOnce
<1>1. ASSUME TypeInv, OnceInv PROVE ReportedOnce
  <2>. SUFFICES ASSUME NEW s \in DOMAIN made
                PROVE  Cardinality(Pending(s)) + reported[s] <= (IF s \in live THEN 0 ELSE 1)
    BY DEF ReportedOnce
  <2>1. \A x \in Pending(s) :
            \E t \in Tasks : \E k \in DOMAIN todo[t] :
                x = <<t, k>> /\ Ending(todo[t][k]) /\ todo[t][k].session = s
    BY DEF Pending, Ending
  <2>2. \A x, y \in Pending(s) : x = y
    BY <1>1, <2>1 DEF OnceInv
  <2>3. Pending(s) # {} => reported[s] = 0 /\ s \notin live
    BY <1>1, <2>1 DEF OnceInv
  <2>4. reported[s] \in {0, 1} /\ (s \in live => reported[s] = 0)
    BY <1>1 DEF OnceInv
  <2>5. CASE Pending(s) = {}
    <3>1. Cardinality(Pending(s)) = 0
      BY <2>5, FS_EmptySet
    <3>. QED  BY <2>4, <3>1
  <2>6. CASE Pending(s) # {}
    <3>1. PICK x : Pending(s) = {x}
      BY <2>2, <2>6
    <3>2. Cardinality(Pending(s)) = 1
      BY <3>1, FS_Singleton
    <3>. QED  BY <2>3, <2>6, <3>2
  <2>. QED  BY <2>5, <2>6
<1>. QED  BY <1>1, InitOnce, OnceNext, TypeHolds, PTL DEF Spec
=============================================================================
