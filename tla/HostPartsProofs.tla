-------------------------- MODULE HostPartsProofs ---------------------------
(***************************************************************************)
(* Proofs about the parts of a host.  About Broker, for any number of      *)
(* connections, processes, agents and any size of the pipes: type          *)
(* correctness, that at most one agent with a grant runs, and that no      *)
(* agent runs for nobody.  About VideoStream, for any lane, any number of  *)
(* orders, pictures and mishaps: the stream is whole, the session loop     *)
(* knows the displays, and the last picture arrives.  About DeviceFiles,   *)
(* for any devices, commands, failures and deaths of the process: what was *)
(* saved is kept, and the engine and the page follow it.  About Signaling, *)
(* for any number of changes of the switch, identities and failures: the   *)
(* server believes what the user chose once nothing is on its way, and an  *)
(* identity the server knows is never thrown away.                         *)
(***************************************************************************)
EXTENDS HostParts, SequenceTheorems, TLAPS

AtWork    == {"starting", "install", "inject", "video", "asked"}
Stopping  == {"stopInput", "stopVideo", "kill"}
Ending    == Stopping \cup {"end"}

\* What a thread is doing goes with the agent it deals with and with its reason.
ShapeOK ==
    /\ \A t \in Threads : doing[t] \in AtWork \cup Stopping => helper[t] \in Agents
    /\ \A c \in Conns : doing[c] \in Ending => why[c] \in {"late", "revoke", "gone"}
    /\ doing[Watchdog] \in Ending \cup {"idle"}
    /\ doing[Watchdog] \in Ending => why[Watchdog] = "lapse"

ThreadsOK ==
    /\ doing \in [Threads -> {"off", "idle", "leaving"} \cup AtWork \cup Ending]
    /\ helper \in [Threads -> 0..MaxAgents]
    /\ why \in [Threads -> {"none", "late", "revoke", "gone", "lapse"}]
    /\ ShapeOK

TypeInv == TypeOK /\ ShapeOK

-----------------------------------------------------------------------------
(* Types *)

LEMMA ThreadFacts == Watchdog \notin Conns /\ Conns \subseteq Threads /\ Watchdog \in Threads
                     /\ Nobody \notin Threads
BY ThreadsAssumption DEF Threads

LEMMA RepliedType == \A c : Replied(c) \in {"leaving", "idle"}
BY DEF Replied

LEMMA TypeInit == Init => TypeInv
<1>. SUFFICES ASSUME Init PROVE TypeInv
  OBVIOUS
<1>1. inPipe \in [Agents -> Seq({"event", "shutdown"})] /\ \A g \in Agents : Len(inPipe[g]) <= PipeRoom
  BY EmptySeq, RoomAssumption DEF Init
<1>. QED
  BY <1>1, ThreadFacts, RoomAssumption
  DEF Init, TypeInv, TypeOK, ShapeOK, AtWork, Stopping, Ending, Agents

LEMMA PutType ==
    ASSUME TypeOK, NEW g \in Agents, NEW m \in {"event", "shutdown"}, Room(g), Put(g, m)
    PROVE  /\ inPipe' \in [Agents -> Seq({"event", "shutdown"})]
           /\ \A h \in Agents : Len(inPipe'[h]) <= PipeRoom
<1>1. inPipe[g] \in Seq({"event", "shutdown"}) /\ Len(inPipe[g]) \in Nat /\ Len(inPipe[g]) < PipeRoom
  BY LenProperties DEF TypeOK, Room
<1>2. /\ Append(inPipe[g], m) \in Seq({"event", "shutdown"})
      /\ Len(Append(inPipe[g], m)) = Len(inPipe[g]) + 1
  BY <1>1, AppendProperties
<1>3. Len(Append(inPipe[g], m)) <= PipeRoom
  BY <1>1, <1>2, RoomAssumption
<1>. QED  BY <1>2, <1>3 DEF TypeOK, Put

LEMMA DieType ==
    ASSUME TypeOK, NEW g \in Agents, Die(g)
    PROVE  /\ agent' \in [Agents -> {"none", "starting", "up", "released", "stuck", "dead"}]
           /\ inPipe' \in [Agents -> Seq({"event", "shutdown"})]
           /\ \A h \in Agents : Len(inPipe'[h]) <= PipeRoom
           /\ video' \in [Agents -> {"on", "told", "off"}]
<1>1. <<>> \in Seq({"event", "shutdown"}) /\ Len(<<>>) <= PipeRoom
  BY EmptySeq, RoomAssumption
<1>. QED  BY <1>1 DEF Die, TypeOK

LEMMA ReadType ==
    ASSUME TypeOK, NEW g \in Agents, AgentReads(g)
    PROVE  TypeOK'
<1>1. inPipe[g] \in Seq({"event", "shutdown"}) /\ inPipe[g] # <<>> /\ Len(inPipe[g]) <= PipeRoom
  BY DEF TypeOK, AgentReads
<1>2. /\ Tail(inPipe[g]) \in Seq({"event", "shutdown"})
      /\ Len(Tail(inPipe[g])) = Len(inPipe[g]) - 1 /\ Len(inPipe[g]) \in Nat
  BY <1>1, HeadTailProperties, LenProperties
<1>3. Len(Tail(inPipe[g])) <= PipeRoom
  BY <1>1, <1>2, RoomAssumption
<1>. QED
  BY <1>2, <1>3 DEF AgentReads, TypeOK, connVars, threadVars, grantVars

LEMMA ThreadsAndTypes == TypeInv => ThreadsOK
BY DEF TypeInv, TypeOK, ThreadsOK, AtWork, Ending, Stopping

\* A thread that serves a connection goes on with a request, or is done with it.
LEMMA MoveType ==
    ASSUME ThreadsOK, NEW c \in Conns, NEW w \in {"off", "idle", "leaving"} \cup AtWork,
           NEW g \in 0..MaxAgents, w \in AtWork => g \in Agents, GoOn(c, w, g), why' = why
    PROVE  ThreadsOK'
BY ThreadFacts DEF ThreadsOK, ShapeOK, GoOn, AtWork, Ending, Stopping

LEMMA GotoType ==
    ASSUME ThreadsOK, NEW c \in Conns, NEW w \in {"off", "idle", "leaving"}, Goto(c, w), why' = why
    PROVE  ThreadsOK'
BY MoveType, RoomAssumption DEF Goto, AtWork

LEMMA EndType ==
    ASSUME ThreadsOK, NEW c \in Conns, NEW w \in Ending, NEW r \in {"late", "revoke", "gone"},
           NEW g \in 0..MaxAgents, w # "end" => g \in Agents, GoOn(c, w, g), Because(c, r)
    PROVE  ThreadsOK'
BY ThreadFacts DEF ThreadsOK, ShapeOK, GoOn, Because, AtWork, Ending, Stopping

LEMMA StopType ==
    ASSUME ThreadsOK, NEW t \in Threads, doing[t] \in Ending, NEW w \in Stopping,
           NEW g \in Agents, GoOn(t, w, g), why' = why
    PROVE  ThreadsOK'
BY ThreadFacts, RoomAssumption DEF ThreadsOK, ShapeOK, GoOn, AtWork, Ending, Stopping, Agents

LEMMA DropToken ==
    ASSUME token \in [Conns -> 0..MaxAgents], NEW c \in Conns
    PROVE  [token EXCEPT ![c] = 0] \in [Conns -> 0..MaxAgents]
<1>1. 0 \in 0..MaxAgents
  BY RoomAssumption
<1>. QED  BY <1>1

LEMMA FinishType ==
    ASSUME TypeInv, NEW t \in Threads, doing[t] \in Ending, Finish(t)
    PROVE  /\ app' \in [Conns -> Pids \cup {NoPid}]
           /\ cutOff' \subseteq Conns /\ owners' \subseteq Conns
           /\ token' \in [Conns -> 0..MaxAgents]
           /\ ThreadsOK'
           /\ \E w \in {"off", "idle", "leaving"} : Goto(t, w)
<1>0. ThreadsOK
  BY ThreadsAndTypes
<1>1. CASE t = Watchdog
  <2>1. why[t] = "lapse" /\ Goto(t, "idle") /\ UNCHANGED connVars /\ Because(t, "none")
    BY <1>1 DEF TypeInv, ShapeOK, Finish
  <2>2. ThreadsOK'
    BY <1>0, <1>1, <2>1, ThreadFacts, RoomAssumption
    DEF ThreadsOK, ShapeOK, Goto, GoOn, Because, AtWork, Stopping, Ending, Agents
  <2>. QED
    BY <2>1, <2>2 DEF TypeInv, TypeOK, connVars
<1>2. CASE t \in Conns
  <2>1. why[t] \in {"late", "revoke", "gone"}
    BY <1>2 DEF TypeInv, ShapeOK
  <2>2. /\ Because(t, "none")
        /\ \/ Goto(t, "off") /\ Forget(t)
           \/ Goto(t, Replied(t)) /\ UNCHANGED connVars
           \/ /\ token' = [token EXCEPT ![t] = 0] /\ Goto(t, Replied(t))
              /\ UNCHANGED <<app, cutOff, owners>>
    BY <2>1 DEF Finish
  <2>3. PICK w \in {"off", "idle", "leaving"} : Goto(t, w)
    BY <2>2, RepliedType
  <2>4. /\ app' \in [Conns -> Pids \cup {NoPid}] /\ cutOff' \subseteq Conns
        /\ owners' \subseteq Conns /\ token' \in [Conns -> 0..MaxAgents]
    BY <1>2, <2>2, DropToken DEF TypeInv, TypeOK, Forget, connVars
  <2>5. ThreadsOK'
    BY <1>0, <1>2, <2>2, <2>3, ThreadFacts, RoomAssumption
    DEF ThreadsOK, ShapeOK, Goto, GoOn, Because, AtWork, Stopping, Ending, Agents
  <2>. QED  BY <2>3, <2>4, <2>5
<1>. QED  BY <1>1, <1>2 DEF Threads

\* The rest of TypeOK: connections, grants and agents.
StateOK ==
    /\ app \in [Conns -> Pids \cup {NoPid}]
    /\ cutOff \subseteq Conns /\ owners \subseteq Conns
    /\ token \in [Conns -> 0..MaxAgents]
    /\ mutex \in Threads \cup {Nobody} /\ slot \in 0..MaxAgents /\ stale \subseteq Agents
    /\ boundTo \in [Agents -> Pids \cup {NoPid}]
    /\ agent \in [Agents -> {"none", "starting", "up", "released", "stuck", "dead"}]
    /\ inPipe \in [Agents -> Seq({"event", "shutdown"})]
    /\ \A g \in Agents : Len(inPipe[g]) <= PipeRoom
    /\ video \in [Agents -> {"on", "told", "off"}]
    /\ videoHeld \in [Agents -> Conns \cup {Nobody}]

LEMMA TypeParts == TypeInv <=> ThreadsOK /\ StateOK
BY DEF TypeInv, TypeOK, ThreadsOK, StateOK, AtWork, Ending, Stopping

LEMMA PartsNext == ThreadsOK' /\ StateOK' => TypeInv'
BY DEF TypeInv, TypeOK, ThreadsOK, StateOK, AtWork, Ending, Stopping

LEMMA ClientType ==
    ASSUME TypeInv, NEW c \in Conns, Client(c) \/ LoopEnds(c)
    PROVE  TypeInv'
<1>. USE DEF connVars, threadVars, grantVars, agentVars
<1>0. ThreadsOK /\ StateOK
  BY TypeParts
<1>1. ASSUME NEW p \in Pids, Accept(c, p) PROVE ThreadsOK' /\ StateOK'
  BY <1>0, <1>1, GotoType DEF Accept, StateOK
<1>2. CASE Cut(c)
  BY <1>0, <1>2, PartsNext DEF Cut, Serving, StateOK, ThreadsOK, ShapeOK
<1>3. CASE Malformed(c) \/ LoopEnds(c)
  BY <1>0, <1>3, GotoType, PartsNext DEF Malformed, LoopEnds, StateOK
<1>4. CASE Attach(c)
  BY <1>0, <1>4, GotoType, RepliedType, PartsNext DEF Attach, StateOK
<1>5. CASE Heartbeat(c)
  BY <1>0, <1>5, PartsNext DEF Heartbeat, StateOK, ThreadsOK, ShapeOK
<1>6. CASE Revoke(c)
  <2>1. /\ token' \in {token, [token EXCEPT ![c] = 0]}
        /\ \/ Goto(c, "end") /\ Because(c, "revoke")
           \/ Goto(c, Replied(c)) /\ why' = why
    BY <1>6 DEF Revoke
  <2>2. StateOK'
    BY <1>0, <1>6, <2>1, DropToken DEF Revoke, StateOK
  <2>3. ASSUME Goto(c, "end"), Because(c, "revoke") PROVE ThreadsOK'
    BY <1>0, <2>3, EndType, RoomAssumption DEF Goto, Ending
  <2>4. ASSUME Goto(c, Replied(c)), why' = why PROVE ThreadsOK'
    BY <1>0, <2>4, GotoType, RepliedType
  <2>. QED  BY <2>1, <2>2, <2>3, <2>4, PartsNext
<1>7. CASE AskInput(c) \/ AskPicture(c)
  <2>1. slot \in Agents /\ (GoOn(c, "inject", slot) \/ GoOn(c, "video", slot)) /\ why' = why
    BY <1>0, <1>7, RoomAssumption DEF AskInput, AskPicture, Current, StateOK, Agents
  <2>2. ThreadsOK'
    BY <1>0, <2>1, MoveType, RoomAssumption DEF AtWork, Agents
  <2>. QED  BY <1>0, <1>7, <2>2, PartsNext DEF AskInput, AskPicture, StateOK
<1>8. ASSUME NEW g \in Agents, AskGrant(c, g) PROVE ThreadsOK' /\ StateOK'
  <2>1. ThreadsOK'
    BY <1>0, <1>8, MoveType DEF AskGrant, AtWork, Agents
  <2>. QED  BY <1>0, <1>8, <2>1 DEF AskGrant, StateOK
<1>. QED
  BY <1>1, <1>2, <1>3, <1>4, <1>5, <1>6, <1>7, <1>8, PartsNext DEF Client

LEMMA GoingType ==
    ASSUME TypeInv, NEW t \in Threads, Going(t)
    PROVE  TypeInv'
<1>. USE DEF connVars, threadVars, grantVars, agentVars
<1>0. ThreadsOK /\ StateOK /\ TypeOK
  BY TypeParts DEF TypeInv
<1>1. CASE Leave(t)
  <2>1. t \in Conns
    BY <1>1 DEF Leave
  <2>2. \/ Goto(t, "end") /\ Because(t, "gone") /\ UNCHANGED connVars
        \/ Goto(t, "off") /\ Forget(t) /\ why' = why
    BY <1>1 DEF Leave
  <2>3. ThreadsOK'
    <3>1. CASE Goto(t, "end") /\ Because(t, "gone")
      BY <1>0, <2>1, <3>1, EndType, RoomAssumption DEF Goto, Ending
    <3>2. CASE Goto(t, "off") /\ why' = why
      BY <1>0, <2>1, <3>2, GotoType
    <3>. QED  BY <2>2, <3>1, <3>2
  <2>4. StateOK'
    BY <1>0, <1>1, <2>1, <2>2, DropToken DEF Leave, StateOK, Forget
  <2>. QED  BY <2>3, <2>4, PartsNext
<1>2. CASE AgentReady(t)
  <2>1. t \in Conns /\ helper[t] \in Agents
    BY <1>0, <1>2 DEF AgentReady, ThreadsOK, ShapeOK, AtWork
  <2>2. ThreadsOK'
    BY <1>0, <1>2, <2>1, MoveType DEF AgentReady, AtWork, Agents
  <2>. QED  BY <1>0, <1>2, <2>1, <2>2, PartsNext DEF AgentReady, StateOK
<1>3. CASE AgentFails(t)
  <2>1. t \in Conns /\ helper[t] \in Agents
    BY <1>0, <1>3 DEF AgentFails, ThreadsOK, ShapeOK, AtWork
  <2>2. ThreadsOK'
    BY <1>0, <1>3, <2>1, GotoType, RepliedType DEF AgentFails
  <2>. QED  BY <1>0, <1>3, <2>1, <2>2, DieType, PartsNext DEF AgentFails, StateOK
<1>4. CASE Install(t)
  <2>1. t \in Conns /\ helper[t] \in Agents
    BY <1>0, <1>4 DEF Install, ThreadsOK, ShapeOK, AtWork
  <2>2. ThreadsOK'
    BY <1>0, <1>4, <2>1, GotoType, RepliedType DEF Install
  <2>. QED
    BY <1>0, <1>4, <2>1, <2>2, RoomAssumption, PartsNext DEF Install, StateOK, Agents
<1>5. CASE TooLate(t)
  <2>1. t \in Conns /\ helper[t] \in Agents
    BY <1>0, <1>5 DEF TooLate, ThreadsOK, ShapeOK, AtWork
  <2>2. ThreadsOK'
    BY <1>0, <1>5, <2>1, EndType DEF TooLate, Ending, Stopping, Agents
  <2>. QED  BY <1>0, <1>5, <2>2, PartsNext DEF TooLate, StateOK
<1>6. CASE Relay(t)
  <2>1. t \in Conns /\ helper[t] \in Agents
    BY <1>0, <1>6 DEF Relay, ThreadsOK, ShapeOK, AtWork
  <2>2. ThreadsOK'
    BY <1>0, <1>6, <2>1, GotoType, RepliedType DEF Relay
  <2>. QED  BY <1>0, <1>6, <2>1, <2>2, PutType, PartsNext DEF Relay, StateOK
<1>7. CASE VideoSend(t)
  <2>1. t \in Conns /\ helper[t] \in Agents
    BY <1>0, <1>7 DEF VideoSend, ThreadsOK, ShapeOK, AtWork
  <2>2. GoOn(t, "asked", helper[t]) \/ Goto(t, Replied(t))
    BY <1>7 DEF VideoSend
  <2>3. ThreadsOK'
    <3>1. CASE GoOn(t, "asked", helper[t])
      BY <1>0, <1>7, <2>1, <3>1, MoveType DEF VideoSend, AtWork, Agents
    <3>2. CASE Goto(t, Replied(t))
      BY <1>0, <1>7, <2>1, <3>2, GotoType, RepliedType DEF VideoSend
    <3>. QED  BY <2>2, <3>1, <3>2
  <2>. QED  BY <1>0, <1>7, <2>1, <2>3, PartsNext DEF VideoSend, StateOK
<1>8. CASE VideoAnswer(t)
  <2>1. t \in Conns /\ helper[t] \in Agents
    BY <1>0, <1>8 DEF VideoAnswer, ThreadsOK, ShapeOK, AtWork
  <2>2. ThreadsOK'
    BY <1>0, <1>8, <2>1, GotoType, RepliedType DEF VideoAnswer
  <2>. QED  BY <1>0, <1>8, <2>1, <2>2, PartsNext DEF VideoAnswer, StateOK
<1>9. CASE TakeGrant(t)
  <2>1. slot \in Agents
    BY <1>0, <1>9, RoomAssumption DEF TakeGrant, StateOK, Agents
  <2>2. ThreadsOK'
    BY <1>0, <1>9, <2>1, StopType DEF TakeGrant, Ending, Stopping
  <2>. QED
    BY <1>0, <1>9, <2>2, RoomAssumption, PartsNext DEF TakeGrant, StateOK
<1>10. CASE NothingToEnd(t)
  BY <1>0, <1>10, FinishType, PartsNext DEF NothingToEnd, StateOK, Ending
<1>11. CASE StopInput(t)
  <2>1. helper[t] \in Agents
    BY <1>0, <1>11 DEF StopInput, ThreadsOK, ShapeOK, Stopping
  <2>2. ThreadsOK'
    BY <1>0, <1>11, <2>1, StopType DEF StopInput, Ending, Stopping
  <2>. QED  BY <1>0, <1>11, <2>1, <2>2, PutType, PartsNext DEF StopInput, StateOK
<1>12. CASE StopVideo(t)
  <2>1. helper[t] \in Agents
    BY <1>0, <1>12 DEF StopVideo, ThreadsOK, ShapeOK, Stopping
  <2>2. ThreadsOK'
    BY <1>0, <1>12, <2>1, StopType DEF StopVideo, Ending, Stopping
  <2>. QED  BY <1>0, <1>12, <2>1, <2>2, PartsNext DEF StopVideo, StateOK
<1>13. CASE Kill(t)
  <2>1. helper[t] \in Agents
    BY <1>0, <1>13 DEF Kill, ThreadsOK, ShapeOK, Stopping
  <2>. QED
    BY <1>0, <1>13, <2>1, FinishType, DieType, PartsNext DEF Kill, StateOK, Ending, Stopping
<1>. QED
  BY <1>1, <1>2, <1>3, <1>4, <1>5, <1>6, <1>7, <1>8, <1>9, <1>10, <1>11, <1>12, <1>13 DEF Going

LEMMA OtherType ==
    ASSUME TypeInv,
           \/ Sweep \/ UNCHANGED vars
           \/ \E g \in Agents : Lapse(g) \/ AgentGoing(g) \/ AgentCrashes(g) \/ AgentHangs(g)
    PROVE  TypeInv'
<1>. USE ThreadFacts DEF TypeInv, ShapeOK, connVars, threadVars, grantVars, agentVars
<1>1. CASE Sweep
  <2>1. Goto(Watchdog, "end") /\ Because(Watchdog, "lapse") /\ ThreadsOK /\ StateOK
    BY <1>1, TypeParts DEF Sweep
  <2>2. ThreadsOK'
    BY <2>1, RoomAssumption DEF ThreadsOK, ShapeOK, Goto, GoOn, Because, AtWork, Stopping, Ending
  <2>. QED  BY <1>1, <2>1, <2>2, PartsNext DEF Sweep, StateOK
<1>2. CASE UNCHANGED vars
  BY <1>2 DEF vars, TypeOK
<1>3. ASSUME NEW g \in Agents, Lapse(g) \/ AgentHangs(g) \/ VideoEnds(g) PROVE TypeInv'
  <2>1. CASE Lapse(g)
    BY <2>1 DEF Lapse, TypeOK
  <2>2. CASE AgentHangs(g)
    BY <2>2 DEF AgentHangs, TypeOK
  <2>3. CASE VideoEnds(g)
    BY <2>3 DEF VideoEnds, TypeOK
  <2>. QED  BY <1>3, <2>1, <2>2, <2>3
<1>4. ASSUME NEW g \in Agents, AgentExits(g) \/ AgentCrashes(g) PROVE TypeInv'
  BY <1>4, DieType DEF AgentExits, AgentCrashes, TypeOK
<1>5. ASSUME NEW g \in Agents, AgentReads(g) PROVE TypeInv'
  BY <1>5, ReadType DEF AgentReads
<1>. QED  BY <1>1, <1>2, <1>3, <1>4, <1>5 DEF AgentGoing

LEMMA TypeNext == TypeInv /\ [Next]_vars => TypeInv'
BY ClientType, GoingType, OtherType DEF Next

LEMMA TypeHolds == Spec => []TypeInv
BY TypeInit, TypeNext, PTL DEF Spec

\* The types of Broker's variables, and the room of the agents' input pipes
\* (write_msg to an agent waits while the pipe is full).
THEOREM BrokerTypeCorrect == Spec => []TypeOK
<1>1. TypeInv => TypeOK
  BY DEF TypeInv
<1>. QED  BY <1>1, TypeHolds, PTL

-----------------------------------------------------------------------------
(* Who an agent runs for *)

\* The thread starts an agent or is about to install it.
Raising(t) == doing[t] \in {"starting", "install"}

\* The mutex is held over several steps by the thread that stops an agent.
MutexOK == \A t \in Threads : mutex = t <=> doing[t] \in Stopping

\* The agent of the live grant has been started; no thread is still raising it.
SlotOK == slot # 0 => /\ agent[slot] \notin {"none", "starting"}
                      /\ \A t \in Threads : Raising(t) => helper[t] # slot

\* An agent that is being raised never had a grant, and one thread looks after it.
StartOK ==
    /\ \A g \in Agents : agent[g] \in {"none", "starting"} => ~Granted(g)
    /\ \A t \in Threads : doing[t] = "starting" => agent[helper[t]] = "starting"
    /\ \A t \in Threads : doing[t] = "install" =>
          ~Granted(helper[t]) /\ agent[helper[t]] \notin {"none", "starting"}
    /\ \A s, t \in Threads : Raising(s) /\ Raising(t) /\ s # t => helper[s] # helper[t]

\* While an agent that had the grant is being stopped nobody has it, and nobody is
\* raising that agent.
StopOK == \A t \in Threads : mutex = t =>
             /\ Granted(helper[t]) => slot = 0
             /\ \A u \in Threads : Raising(u) => helper[u] # helper[t]

\* An agent whose grant has ended runs on only in the hands of the thread stopping it.
EndedOK == \A g \in Agents : Granted(g) /\ Running(g) /\ slot # g =>
              mutex \in Threads /\ helper[mutex] = g

OwnInv == MutexOK /\ SlotOK /\ StartOK /\ StopOK /\ EndedOK /\ NoStrayAgent

LEMMA RaisingType == ASSUME TypeInv PROVE \A t \in Threads : Raising(t) => helper[t] \in Agents
BY DEF TypeInv, ShapeOK, AtWork, Raising

LEMMA SlotType == ASSUME TypeInv PROVE slot # 0 => slot \in Agents
BY RoomAssumption DEF TypeInv, TypeOK, Agents

LEMMA OwnInit == Init => OwnInv
<1>. SUFFICES ASSUME Init PROVE OwnInv
  OBVIOUS
<1>1. /\ \A t \in Threads : doing[t] \in {"idle", "off"}
      /\ \A g \in Agents : ~Granted(g) /\ ~Running(g)
      /\ mutex \notin Threads /\ slot = 0
  BY ThreadFacts DEF Init, Granted, Running
<1>2. MutexOK
  BY <1>1 DEF MutexOK, Stopping
<1>3. SlotOK /\ StartOK /\ StopOK /\ EndedOK /\ NoStrayAgent
  BY <1>1 DEF Raising, SlotOK, StartOK, StopOK, EndedOK, NoStrayAgent
<1>. QED  BY <1>2, <1>3 DEF OwnInv

\* A thread that has no agent in hand goes on without taking one.
LEMMA OwnMove ==
    ASSUME TypeInv, OwnInv, NEW t \in Threads, NEW w, NEW g,
           doing[t] \notin {"starting", "install"} \cup Stopping,
           w \notin {"starting", "install"} \cup Stopping,
           GoOn(t, w, g), UNCHANGED <<mutex, slot, boundTo, agent>>
    PROVE  OwnInv'
<1>1. \A u \in Threads : u # t => doing'[u] = doing[u] /\ helper'[u] = helper[u]
  BY DEF GoOn, TypeInv, TypeOK
<1>2. doing'[t] = w
  BY DEF GoOn, TypeInv, TypeOK
<1>3. mutex # t
  BY DEF OwnInv, Raising, MutexOK
<1>4. MutexOK'
  BY <1>1, <1>2, <1>3 DEF OwnInv, Raising, MutexOK
<1>5. \A u \in Threads : Raising(u)' => Raising(u) /\ helper'[u] = helper[u]
  BY <1>1, <1>2 DEF Raising
<1>6. SlotOK'
  BY <1>5 DEF OwnInv, SlotOK
<1>7. StopOK'
  BY <1>1, <1>3, <1>5 DEF OwnInv, StopOK, Granted
<1>8. EndedOK'
  BY <1>1, <1>3 DEF OwnInv, EndedOK, Granted, Running
<1>9. StartOK'
  BY <1>1, <1>2 DEF OwnInv, Raising, StartOK, Granted
<1>10. NoStrayAgent'
  BY <1>1, <1>3 DEF OwnInv, Raising, NoStrayAgent, Running
<1>. QED  BY <1>4, <1>6, <1>7, <1>8, <1>9, <1>10 DEF OwnInv

LEMMA OwnGoto ==
    ASSUME TypeInv, OwnInv, NEW t \in Threads,
           doing[t] \notin {"starting", "install"} \cup Stopping,
           NEW w \in {"off", "idle", "leaving", "end"},
           Goto(t, w), UNCHANGED <<mutex, slot, boundTo, agent>>
    PROVE  OwnInv'
BY OwnMove DEF Goto, Stopping

\* An agent that has been started goes down, or nothing of interest happens.
LEMMA OwnStill ==
    ASSUME TypeInv, OwnInv, UNCHANGED <<doing, helper, mutex, slot, boundTo>>,
           \A g \in Agents : \/ agent'[g] = agent[g]
                            \/ /\ agent[g] \in {"up", "released", "stuck"}
                               /\ agent'[g] \in {"released", "stuck", "dead"}
    PROVE  OwnInv'
<1>1. MutexOK' /\ StopOK'
  BY DEF OwnInv, Raising, MutexOK, StopOK, Granted
<1>2. \A g \in Agents : Running(g)' => Running(g)
  BY DEF Running
<1>3. EndedOK'
  BY <1>2 DEF OwnInv, Raising, EndedOK, Granted
<1>4. NoStrayAgent'
  BY <1>2 DEF OwnInv, Raising, NoStrayAgent
<1>5. SlotOK'
  <2>1. slot # 0 => slot \in Agents
    BY SlotType
  <2>. QED  BY <2>1 DEF OwnInv, Raising, SlotOK, Granted
<1>6. StartOK'
  <2>1. \A t \in Threads : doing[t] \in {"starting", "install"} => helper[t] \in Agents
    BY RaisingType DEF Raising
  <2>. QED  BY <2>1 DEF OwnInv, Raising, StartOK, Granted
<1>. QED  BY <1>1, <1>3, <1>4, <1>5, <1>6 DEF OwnInv

LEMMA OwnClient ==
    ASSUME TypeInv, OwnInv, NEW c \in Conns, Client(c) \/ LoopEnds(c)
    PROVE  OwnInv'
<1>. USE ThreadFacts DEF connVars, threadVars, grantVars, agentVars, Ready
<1>1. ASSUME NEW p \in Pids, Accept(c, p) PROVE OwnInv'
  BY <1>1, OwnGoto DEF Accept, Stopping
<1>2. CASE Cut(c) \/ Heartbeat(c)
  BY <1>2, OwnStill DEF Cut, Heartbeat
<1>3. CASE Malformed(c) \/ LoopEnds(c)
  BY <1>3, OwnGoto DEF Malformed, LoopEnds, Stopping
<1>4. CASE Attach(c)
  BY <1>4, OwnGoto, RepliedType DEF Attach, Stopping
<1>5. CASE Revoke(c)
  <2>1. Goto(c, "end") \/ Goto(c, Replied(c))
    BY <1>5 DEF Revoke
  <2>. QED  BY <1>5, <2>1, OwnGoto, RepliedType DEF Revoke, Stopping
<1>6. CASE AskInput(c) \/ AskPicture(c)
  <2>1. GoOn(c, "inject", slot) \/ GoOn(c, "video", slot)
    BY <1>6 DEF AskInput, AskPicture
  <2>. QED  BY <1>6, <2>1, OwnMove DEF AskInput, AskPicture, Stopping
<1>7. ASSUME NEW g \in Agents, AskGrant(c, g) PROVE OwnInv'
  <2>1. /\ \A u \in Threads : u # c => doing'[u] = doing[u] /\ helper'[u] = helper[u]
        /\ doing'[c] = "starting" /\ helper'[c] = g /\ doing[c] = "idle"
        /\ \A h \in Agents : h # g => agent'[h] = agent[h]
        /\ agent[g] = "none" /\ agent'[g] = "starting" /\ slot = 0
        /\ UNCHANGED <<mutex, slot, boundTo>>
    BY <1>7 DEF AskGrant, GoOn, TypeInv, TypeOK
  <2>2. ~Granted(g) /\ ~Granted(g)'
    BY <2>1 DEF OwnInv, Raising, StartOK, Granted
  <2>3. MutexOK' /\ mutex # c
    BY <2>1 DEF OwnInv, Raising, MutexOK, Stopping
  <2>4. \A u \in Threads : Raising(u) => helper[u] # g
    BY <2>1 DEF OwnInv, Raising, StartOK
  <2>5. SlotOK' /\ \A u \in Threads : mutex # u
    BY <2>1, <1>7, ThreadFacts DEF SlotOK, AskGrant
  <2>6. StopOK'
    BY <2>1, <2>5 DEF StopOK
  <2>7. EndedOK'
    BY <2>1, <2>2, <2>5 DEF OwnInv, EndedOK, Granted, Running
  <2>8. \A u \in Threads : Raising(u) => helper[u] \in Agents
    BY RaisingType
  <2>9. StartOK'
    BY <2>1, <2>2, <2>4, <2>8 DEF OwnInv, Raising, StartOK, Granted
  <2>10. NoStrayAgent'
    BY <2>1, <2>3 DEF OwnInv, Raising, NoStrayAgent, Running
  <2>. QED  BY <2>3, <2>5, <2>6, <2>7, <2>9, <2>10 DEF OwnInv
<1>. QED  BY <1>1, <1>2, <1>3, <1>4, <1>5, <1>6, <1>7 DEF Client

\* start_agent comes to an end.
LEMMA OwnStarted ==
    ASSUME TypeInv, OwnInv, NEW c \in Conns, AgentReady(c) \/ AgentFails(c)
    PROVE  OwnInv'
<1>1. PICK g \in Agents : g = helper[c]
  BY ThreadFacts DEF AgentReady, AgentFails, TypeInv, ShapeOK, AtWork
<1>2. /\ \A u \in Threads : u # c => doing'[u] = doing[u] /\ helper'[u] = helper[u]
      /\ \/ doing'[c] = "install" /\ helper'[c] = g /\ agent'[g] = "up"
         \/ doing'[c] \in {"leaving", "idle"} /\ agent'[g] = "dead"
      /\ doing[c] = "starting" /\ c \in Threads
      /\ \A h \in Agents : h # g => agent'[h] = agent[h]
      /\ UNCHANGED <<mutex, slot, boundTo>>
  BY <1>1, ThreadFacts, RepliedType
  DEF AgentReady, AgentFails, Goto, GoOn, Die, TypeInv, TypeOK, grantVars
<1>3. agent[g] = "starting" /\ ~Granted(g) /\ ~Granted(g)'
  BY <1>1, <1>2 DEF OwnInv, Raising, StartOK, Granted
<1>4. MutexOK' /\ mutex # c
  BY <1>2 DEF OwnInv, Raising, MutexOK, Stopping
<1>5. \A u \in Threads : u # c /\ Raising(u) => helper[u] # g
  BY <1>1, <1>2 DEF OwnInv, Raising, StartOK
<1>6. \A u \in Threads : Raising(u) => helper[u] \in Agents
  BY RaisingType
<1>7. slot # 0 => slot \in Agents /\ slot # g
  BY <1>3, RoomAssumption DEF TypeInv, TypeOK, Agents, OwnInv, SlotOK
<1>8. /\ Raising(c) /\ helper[c] = g
       /\ \A u \in Threads : Raising(u)' => Raising(u) /\ helper'[u] = helper[u]
  BY <1>1, <1>2 DEF Raising
<1>9. SlotOK'
  BY <1>2, <1>7, <1>8 DEF OwnInv, SlotOK
<1>10. StopOK'
  BY <1>2, <1>4, <1>8 DEF OwnInv, StopOK, Granted
<1>11. EndedOK'
  BY <1>2, <1>3, <1>4 DEF OwnInv, EndedOK, Granted, Running
<1>12. StartOK'
  BY <1>2, <1>3, <1>5, <1>6 DEF OwnInv, Raising, StartOK, Granted
<1>13. NoStrayAgent'
  BY <1>1, <1>2, <1>4 DEF OwnInv, Raising, NoStrayAgent, Running
<1>. QED  BY <1>4, <1>9, <1>10, <1>11, <1>12, <1>13 DEF OwnInv

\* The second look at the slot.
LEMMA OwnInstall ==
    ASSUME TypeInv, OwnInv, NEW c \in Conns, Install(c)
    PROVE  OwnInv'
<1>1. PICK g \in Agents : g = helper[c]
  BY ThreadFacts DEF Install, TypeInv, ShapeOK, AtWork
<1>2. /\ \A u \in Threads : u # c => doing'[u] = doing[u] /\ helper'[u] = helper[u]
      /\ doing'[c] \in {"leaving", "idle"} /\ doing[c] = "install" /\ c \in Threads
      /\ mutex = Nobody /\ mutex' = mutex /\ agent' = agent
      /\ slot = 0 /\ slot' = g
      /\ \A h \in Agents : h # g => boundTo'[h] = boundTo[h]
      /\ boundTo'[g] = app[c]
  BY <1>1, ThreadFacts, RepliedType
  DEF Install, Goto, GoOn, TypeInv, TypeOK, agentVars
<1>3. agent[g] \notin {"none", "starting"}
  BY <1>1, <1>2 DEF OwnInv, Raising, StartOK
<1>4. \A u \in Threads : u # c /\ Raising(u) => helper[u] # g
  BY <1>1, <1>2 DEF OwnInv, Raising, StartOK
<1>5. \A u \in Threads : Raising(u) => helper[u] \in Agents
  BY RaisingType
<1>6. MutexOK' /\ mutex \notin Threads
  BY <1>2, ThreadFacts DEF OwnInv, Raising, MutexOK, Stopping
<1>7. \A h \in Agents : h # g => Granted(h)' = Granted(h)
  BY <1>2 DEF Granted
<1>8. \A u \in Threads : Raising(u)' => /\ Raising(u) /\ u # c
                                          /\ helper'[u] = helper[u] /\ helper[u] # g
  BY <1>2, <1>4 DEF Raising
<1>9. SlotOK' /\ StopOK'
  BY <1>2, <1>3, <1>6, <1>8 DEF SlotOK, StopOK
<1>10. EndedOK'
  <2>1. \A h \in Agents : Granted(h) /\ Running(h) => h = slot
    BY <1>6 DEF OwnInv, EndedOK
  <2>. QED  BY <1>2, <1>7, <2>1, RoomAssumption DEF EndedOK, Running, Agents
<1>11. StartOK'
  <2>1. \A h \in Agents : agent'[h] \in {"none", "starting"} => ~Granted(h)'
    BY <1>2, <1>3, <1>7 DEF OwnInv, Raising, StartOK
  <2>2. \A u \in Threads : doing'[u] = "install" =>
           ~Granted(helper[u])' /\ agent'[helper[u]] \notin {"none", "starting"}
           /\ helper'[u] = helper[u]
    BY <1>2, <1>4, <1>5, <1>7 DEF OwnInv, Raising, StartOK, Granted
  <2>. QED  BY <1>2, <2>1, <2>2 DEF OwnInv, Raising, StartOK, Granted
<1>12. NoStrayAgent'
  <2>1. \A h \in Agents : Running(h) => h = slot \/ \E u \in Threads : helper[u] = h /\ Raising(u)
    BY <1>6 DEF OwnInv, NoStrayAgent, Raising
  <2>2. \A u \in Threads : Raising(u) => u = c \/ (Raising(u)' /\ helper'[u] = helper[u])
    BY <1>2 DEF Raising
  <2>3. \A h \in Agents : Running(h)' = Running(h) /\ h # slot
    BY <1>2, RoomAssumption DEF Running, Agents
  <2>. QED  BY <1>1, <1>2, <2>1, <2>2, <2>3 DEF NoStrayAgent, Raising
<1>. QED  BY <1>6, <1>9, <1>10, <1>11, <1>12 DEF OwnInv

LEMMA OwnTooLate ==
    ASSUME TypeInv, OwnInv, NEW c \in Conns, TooLate(c)
    PROVE  OwnInv'
<1>1. /\ \A u \in Threads : u # c => doing'[u] = doing[u]
      /\ \A u \in Threads : helper'[u] = helper[u]
      /\ doing'[c] = "stopInput" /\ doing[c] = "install" /\ c \in Threads
      /\ mutex = Nobody /\ mutex' = c
      /\ UNCHANGED <<agent, slot, boundTo>>
  BY ThreadFacts DEF TooLate, GoOn, TypeInv, TypeOK, agentVars
<1>2. ~Granted(helper[c])
  BY <1>1 DEF OwnInv, Raising, StartOK
<1>3. mutex \notin Threads
  BY <1>1, ThreadFacts
<1>4. MutexOK'
  BY <1>1, <1>3 DEF OwnInv, Raising, MutexOK, Stopping
<1>5. /\ Raising(c)
      /\ \A u \in Threads : Raising(u)' => Raising(u) /\ u # c
  BY <1>1 DEF Raising
<1>6. SlotOK'
  BY <1>1, <1>5 DEF OwnInv, SlotOK
<1>7. StopOK'
  BY <1>1, <1>2, <1>5 DEF OwnInv, StartOK, StopOK, Granted
<1>8. EndedOK'
  BY <1>1, <1>3 DEF OwnInv, EndedOK, Granted, Running
<1>9. StartOK'
  BY <1>1 DEF OwnInv, Raising, StartOK, Granted
<1>10. NoStrayAgent'
  BY <1>1, <1>3 DEF OwnInv, Raising, NoStrayAgent, Running
<1>. QED  BY <1>4, <1>6, <1>7, <1>8, <1>9, <1>10 DEF OwnInv

LEMMA OwnTake ==
    ASSUME TypeInv, OwnInv, NEW t \in Threads, TakeGrant(t)
    PROVE  OwnInv'
<1>1. /\ \A u \in Threads : u # t => doing'[u] = doing[u] /\ helper'[u] = helper[u]
      /\ doing'[t] = "stopInput" /\ helper'[t] = slot /\ doing[t] = "end"
      /\ mutex = Nobody /\ mutex' = t /\ slot' = 0
      /\ UNCHANGED <<agent, boundTo>>
  BY DEF TakeGrant, GoOn, TypeInv, TypeOK, agentVars
<1>2. mutex \notin Threads
  BY <1>1, ThreadFacts
<1>3. MutexOK'
  BY <1>1, <1>2 DEF OwnInv, Raising, MutexOK, Stopping
<1>4. \A u \in Threads : Raising(u)' => Raising(u) /\ u # t /\ helper'[u] = helper[u]
  BY <1>1 DEF Raising
<1>5. slot # 0
  BY DEF TakeGrant
<1>6. SlotOK' /\ StopOK'
  BY <1>1, <1>4, <1>5 DEF OwnInv, SlotOK, StopOK
<1>7. EndedOK'
  BY <1>1, <1>2 DEF OwnInv, EndedOK, Granted, Running
<1>8. StartOK'
  BY <1>1 DEF OwnInv, Raising, StartOK, Granted
<1>9. NoStrayAgent'
  BY <1>1, <1>2 DEF OwnInv, Raising, NoStrayAgent, Running
<1>. QED  BY <1>3, <1>6, <1>7, <1>8, <1>9 DEF OwnInv

LEMMA OwnStop ==
    ASSUME TypeInv, OwnInv, NEW t \in Threads, StopInput(t) \/ StopVideo(t)
    PROVE  OwnInv'
<1>1. /\ \A u \in Threads : u # t => doing'[u] = doing[u]
      /\ \A u \in Threads : helper'[u] = helper[u]
      /\ doing'[t] \in Stopping /\ doing[t] \in Stopping
      /\ UNCHANGED <<agent, mutex, slot, boundTo>>
  BY DEF StopInput, StopVideo, GoOn, TypeInv, TypeOK, grantVars, Stopping
<1>2. MutexOK'
  BY <1>1 DEF OwnInv, Raising, MutexOK
<1>3. \A u \in Threads : Raising(u)' => Raising(u)
  BY <1>1 DEF Raising, Stopping
<1>4. SlotOK'
  BY <1>1, <1>3 DEF OwnInv, SlotOK
<1>5. StopOK'
  BY <1>1, <1>3 DEF OwnInv, StopOK, Granted
<1>6. EndedOK'
  BY <1>1, <1>3 DEF OwnInv, EndedOK, Granted, Running
<1>7. StartOK'
  BY <1>1 DEF OwnInv, Raising, StartOK, Granted, Stopping
<1>8. NoStrayAgent'
  BY <1>1 DEF OwnInv, Raising, NoStrayAgent, Running, Stopping, MutexOK
<1>. QED  BY <1>2, <1>4, <1>5, <1>6, <1>7, <1>8 DEF OwnInv

LEMMA OwnKill ==
    ASSUME TypeInv, OwnInv, NEW t \in Threads, Kill(t)
    PROVE  OwnInv'
<1>1. PICK g \in Agents : g = helper[t]
  BY DEF Kill, TypeInv, ShapeOK, Stopping
<1>2. PICK w \in {"off", "idle", "leaving"} : Goto(t, w)
  BY FinishType DEF Kill, Ending, Stopping
<1>3. /\ \A u \in Threads : u # t => doing'[u] = doing[u] /\ helper'[u] = helper[u]
      /\ doing'[t] = w /\ doing[t] = "kill"
      /\ agent'[g] = "dead" /\ \A h \in Agents : h # g => agent'[h] = agent[h]
      /\ mutex' = Nobody /\ UNCHANGED <<slot, boundTo>>
  BY <1>1, <1>2 DEF Kill, Goto, GoOn, Die, TypeInv, TypeOK
<1>4. mutex = t
  BY <1>3 DEF OwnInv, Raising, MutexOK, Stopping
<1>5. MutexOK'
  BY <1>3, <1>4, ThreadFacts DEF OwnInv, Raising, MutexOK, Stopping
<1>6. \A h \in Agents : Running(h)' => Running(h) /\ h # g
  BY <1>3 DEF Running
<1>7. SlotOK'
  <2>1. slot # 0 => slot \in Agents
    BY SlotType
  <2>. QED  BY <1>3, <2>1 DEF OwnInv, Raising, SlotOK
<1>8. StopOK' /\ EndedOK'
  BY <1>1, <1>3, <1>4, <1>6, ThreadFacts DEF OwnInv, Raising, StopOK, EndedOK, Granted
<1>9. StartOK'
  <2>1. \A u \in Threads : Raising(u) => helper[u] \in Agents
    BY RaisingType
  <2>2. \A u \in Threads : Raising(u)' => /\ Raising(u) /\ doing'[u] = doing[u]
                                           /\ helper'[u] = helper[u] /\ helper[u] # g
    BY <1>1, <1>3, <1>4 DEF OwnInv, StopOK, Raising
  <2>. QED  BY <1>3, <2>1, <2>2 DEF OwnInv, Raising, StartOK, Granted
<1>10. NoStrayAgent'
  BY <1>1, <1>3, <1>4, <1>6 DEF OwnInv, Raising, NoStrayAgent
<1>. QED  BY <1>5, <1>7, <1>8, <1>9, <1>10 DEF OwnInv

LEMMA OwnGoing ==
    ASSUME TypeInv, OwnInv, NEW t \in Threads, Going(t)
    PROVE  OwnInv'
<1>. USE ThreadFacts DEF connVars, threadVars, grantVars, agentVars
<1>1. CASE Leave(t)
  <2>1. Goto(t, "end") \/ Goto(t, "off")
    BY <1>1 DEF Leave
  <2>. QED  BY <1>1, <2>1, OwnGoto DEF Leave, Stopping
<1>2. CASE Relay(t)
  <2>1. Goto(t, "idle") \/ Goto(t, Replied(t))
    BY <1>2 DEF Relay
  <2>. QED  BY <1>2, <2>1, OwnGoto, RepliedType DEF Relay, Stopping
<1>3. CASE VideoSend(t)
  <2>1. GoOn(t, "asked", helper[t]) \/ Goto(t, Replied(t))
    BY <1>3 DEF VideoSend
  <2>2. ASSUME GoOn(t, "asked", helper[t]) PROVE OwnInv'
    BY <1>3, <2>2, OwnMove DEF VideoSend, Stopping
  <2>3. ASSUME Goto(t, Replied(t)) PROVE OwnInv'
    BY <1>3, <2>3, OwnGoto, RepliedType DEF VideoSend, Stopping
  <2>. QED  BY <2>1, <2>2, <2>3
<1>4. CASE VideoAnswer(t)
  BY <1>4, OwnGoto, RepliedType DEF VideoAnswer, Stopping
<1>5. CASE NothingToEnd(t)
  <2>1. PICK w \in {"off", "idle", "leaving"} : Goto(t, w)
    BY <1>5, FinishType DEF NothingToEnd, Ending
  <2>. QED  BY <1>5, <2>1, OwnGoto DEF NothingToEnd, Stopping
<1>6. CASE AgentReady(t) \/ AgentFails(t)
  BY <1>6, OwnStarted DEF AgentReady, AgentFails
<1>7. CASE Install(t) \/ TooLate(t)
  BY <1>7, OwnInstall, OwnTooLate DEF Install, TooLate
<1>8. CASE TakeGrant(t)
  BY <1>8, OwnTake
<1>9. CASE StopInput(t) \/ StopVideo(t)
  BY <1>9, OwnStop
<1>10. CASE Kill(t)
  BY <1>10, OwnKill
<1>. QED
  BY <1>1, <1>2, <1>3, <1>4, <1>5, <1>6, <1>7, <1>8, <1>9, <1>10 DEF Going

LEMMA OwnOther ==
    ASSUME TypeInv, OwnInv,
           \/ Sweep \/ UNCHANGED vars
           \/ \E g \in Agents : Lapse(g) \/ AgentGoing(g) \/ AgentCrashes(g) \/ AgentHangs(g)
    PROVE  OwnInv'
<1>. USE DEF connVars, threadVars, grantVars, agentVars
<1>1. CASE Sweep
  BY <1>1, ThreadFacts, OwnGoto DEF Sweep, Stopping
<1>2. CASE UNCHANGED vars
  BY <1>2, OwnStill DEF vars
<1>3. ASSUME NEW g \in Agents, Lapse(g) \/ VideoEnds(g) PROVE OwnInv'
  BY <1>3, OwnStill DEF Lapse, VideoEnds
<1>4. ASSUME NEW g \in Agents, AgentReads(g) \/ AgentHangs(g) PROVE OwnInv'
  <2>1. agent \in [Agents -> {"none", "starting", "up", "released", "stuck", "dead"}]
    BY DEF TypeInv, TypeOK
  <2>2. /\ agent[g] = "up"
        /\ \/ agent' = agent \/ agent' = [agent EXCEPT ![g] = "released"]
           \/ agent' = [agent EXCEPT ![g] = "stuck"]
    BY <1>4 DEF AgentReads, AgentHangs
  <2>. QED  BY <1>4, <2>1, <2>2, OwnStill DEF AgentReads, AgentHangs
<1>5. ASSUME NEW g \in Agents, AgentExits(g) \/ AgentCrashes(g) PROVE OwnInv'
  <2>1. agent \in [Agents -> {"none", "starting", "up", "released", "stuck", "dead"}]
    BY DEF TypeInv, TypeOK
  <2>2. agent[g] \in {"up", "released", "stuck"} /\ agent' = [agent EXCEPT ![g] = "dead"]
    BY <1>5 DEF AgentExits, AgentCrashes, Die
  <2>. QED  BY <1>5, <2>1, <2>2, OwnStill DEF AgentExits, AgentCrashes
<1>. QED  BY <1>1, <1>2, <1>3, <1>4, <1>5 DEF AgentGoing

LEMMA OwnNext == TypeInv /\ OwnInv /\ [Next]_vars => OwnInv'
BY OwnClient, OwnGoing, OwnOther DEF Next

LEMMA OwnHolds == Spec => [](TypeInv /\ OwnInv)
<1>1. Init => TypeInv /\ OwnInv
  BY TypeInit, OwnInit
<1>2. TypeInv /\ OwnInv /\ [Next]_vars => TypeInv' /\ OwnInv'
  BY TypeNext, OwnNext
<1>. QED  BY <1>1, <1>2, PTL DEF Spec

\* No agent runs for nobody: whatever the threads are in the middle of, a running
\* agent has the grant, is about to be installed or is being stopped.
THEOREM NoStrayAgentHolds == Spec => []NoStrayAgent
<1>1. TypeInv /\ OwnInv => NoStrayAgent
  BY DEF OwnInv
<1>. QED  BY <1>1, OwnHolds, PTL

\* At most one agent that has or had the grant runs: end_grant keeps the mutex until
\* the agent is dead, and grant looks at the slot again before it installs.
THEOREM OneExecutorHolds == Spec => []OneExecutor
<1>1. ASSUME TypeInv, OwnInv,
             NEW g \in Agents, NEW h \in Agents,
             Granted(g), Running(g), Granted(h), Running(h)
      PROVE  g = h
  <2>1. g # slot => mutex \in Threads /\ helper[mutex] = g
    BY <1>1 DEF OwnInv, EndedOK
  <2>2. h # slot => mutex \in Threads /\ helper[mutex] = h
    BY <1>1 DEF OwnInv, EndedOK
  <2>3. mutex \in Threads /\ Granted(helper[mutex]) => slot = 0
    BY <1>1 DEF OwnInv, StopOK
  <2>4. g # 0 /\ h # 0
    BY RoomAssumption DEF Agents
  <2>. QED  BY <1>1, <2>1, <2>2, <2>3, <2>4
<1>2. TypeInv /\ OwnInv => OneExecutor
  BY <1>1 DEF OneExecutor
<1>. QED  BY <1>2, OwnHolds, PTL

-----------------------------------------------------------------------------
(* VideoStream: the inductive invariant *)

Levels == {"full", "low"}
Shown == [of : {0, 1}, v : Nat]
Unit == [pic : Shown, key : BOOLEAN]
LaneUnit == [pic : Shown, key : BOOLEAN, gap : BOOLEAN]
Orders == [kind : {"select"}, i : {0, 1}] \cup [kind : {"quality", "keyframe"}]
            \cup [kind : {"target"}, level : Levels] \cup [kind : {"elevated", "pause"}, on : BOOLEAN]
Report == [list : {1, 2}, active : {0, 1}]

LoopType == [active : {0, 1}, list : {1, 2}, level : Levels, view : BOOLEAN, elevated : BOOLEAN]
ThreadType == [pc : {"loop", "lost", "failed"}, active : {0, 1}, list : {1, 2}, level : Levels,
               paused : BOOLEAN, enc : Levels \cup {"none"}, held : Seq(Unit), force : BOOLEAN,
               service : BOOLEAN, use : BOOLEAN, gap : BOOLEAN]

PicturesOK ==
    /\ desk \in [count : {1, 2}, pic : Nat \ {0}, secure : BOOLEAN, grant : BOOLEAN]
    /\ host \in LoopType
    /\ th \in ThreadType /\ src \in [owed : BOOLEAN, kept : Nat]
    /\ ctl \in Seq(Orders) /\ news \in Seq(Report)
    /\ lane \in Seq(LaneUnit) /\ Len(lane) <= LaneRoom
    /\ arrived \in Shown /\ depth \in {0, 1}

\* An encoder holds back what it may; after a refused unit the next one, held back or to
\* come, is a key picture, or a new encoder will start with one.
Whole ==
    /\ V!StreamIsWhole
    /\ Len(th.held) <= depth
    /\ th.gap => IF th.held = <<>> THEN th.force \/ V!NeedsEncoder ELSE th.held[1].key

\* The last picture that is on its way, or that arrived.
Latest == IF lane = <<>> THEN arrived ELSE lane[Len(lane)].pic

\* A thread that owes nothing has sent what its capturer kept.
Shows == (depth = 0 /\ th.pc = "loop" /\ ~th.use /\ ~V!NeedsEncoder /\ ~src.owed) =>
            Latest = [of |-> th.active, v |-> src.kept]

\* The last order in ctl of one of the kinds asks for want; if there is none it is now.
Told(q, kinds, says, now, want) ==
    /\ \A k \in DOMAIN q :
          (q[k].kind \in kinds /\ \A j \in DOMAIN q : j > k => q[j].kind \notin kinds) =>
             says[q[k]] = want
    /\ (\A k \in DOMAIN q : q[k].kind \notin kinds) => now = want

Rated == {"select", "quality", "target"}
RateOf == [m \in Orders |-> IF m.kind = "target" THEN m.level ELSE "full"]
Said(b) == IF b THEN "on" ELSE "off"
SwitchOf == [m \in Orders |-> Said(m.kind \in {"elevated", "pause"} /\ m.on)]

RateNow == IF "level" \in untold THEN host.level ELSE th.level

\* What the session loop ordered last is what it believes.
Obeyed ==
    /\ Told(ctl, Rated, RateOf, RateNow, host.level)
    /\ Told(ctl, {"pause"}, SwitchOf, Said(th.paused), Said(~host.view))
    /\ Told(ctl, {"elevated"}, SwitchOf, Said(th.service), Said(host.elevated))

\* What the thread reported last is so; what the session loop believes is so too, when it
\* has heard everything and asked for no other display.
Reported ==
    "display" \notin untold =>
      IF news # <<>>
      THEN news[Len(news)].list = th.list /\ news[Len(news)].active = th.active
      ELSE (\A k \in DOMAIN ctl : ctl[k].kind # "select") =>
              host.active = th.active /\ host.list = th.list

PicturesInv == PicturesOK /\ Whole /\ Shows /\ (V!Running => Obeyed /\ Reported)

-----------------------------------------------------------------------------
(* VideoStream: lemmas about orders *)

LEMMA OrderFacts ==
    ASSUME NEW m \in Orders
    PROVE  /\ m.kind \in {"select", "quality", "keyframe", "target", "elevated", "pause"}
           /\ m.kind = "select" => m.i \in {0, 1}
           /\ m.kind = "target" => m.level \in Levels
           /\ m.kind \in {"elevated", "pause"} => m.on \in BOOLEAN
           /\ RateOf[m] = IF m.kind = "target" THEN m.level ELSE "full"
BY DEF Orders, RateOf

LEMMA ToldEmpty ==
    ASSUME NEW K, NEW F, NEW now, NEW want
    PROVE  Told(<<>>, K, F, now, want) <=> now = want
BY DEF Told

\* One more order: of one of the kinds it is the last of them, else it is none.
LEMMA ToldMore ==
    ASSUME NEW q \in Seq(Orders), NEW K, NEW F, NEW now, NEW want, NEW new, NEW m \in Orders,
           Told(q, K, F, now, want),
           IF m.kind \in K THEN F[m] = new ELSE new = want
    PROVE  Told(Append(q, m), K, F, now, new)
<1>1. PICK r : r = Append(q, m)
  OBVIOUS
<1>2. PICK n \in Nat : n = Len(q)
  OBVIOUS
<1>3. /\ r \in Seq(Orders) /\ Len(r) = n + 1 /\ r[n + 1] = m /\ DOMAIN q = 1..n /\ DOMAIN r = 1..(n + 1)
      /\ \A k \in 1..n : r[k] = q[k]
  BY <1>1, <1>2, AppendProperties
<1>4. ASSUME NEW k \in 1..(n + 1), r[k].kind \in K,
             \A j \in 1..(n + 1) : j > k => r[j].kind \notin K
      PROVE  F[r[k]] = new
  <2>1. CASE k = n + 1
    BY <1>3, <1>4, <2>1
  <2>2. CASE k # n + 1
    <3>1. k \in 1..n /\ n + 1 \in 1..(n + 1) /\ n + 1 > k
      BY <2>2
    <3>2. m.kind \notin K
      BY <1>3, <1>4, <3>1
    <3>3. \A j \in 1..n : j > k => q[j].kind \notin K
      <4>. TAKE j \in 1..n
      <4>1. j \in 1..(n + 1)
        OBVIOUS
      <4>. QED  BY <1>3, <1>4, <4>1
    <3>4. F[q[k]] = want
      BY <1>3, <1>4, <3>1, <3>3 DEF Told
    <3>. QED  BY <1>3, <3>1, <3>2, <3>4
  <2>. QED  BY <2>1, <2>2
<1>5. ASSUME \A k \in 1..(n + 1) : r[k].kind \notin K PROVE now = new
  <2>1. m.kind \notin K
    BY <1>3, <1>5
  <2>2. \A k \in 1..n : q[k].kind \notin K
    <3>. TAKE k \in 1..n
    <3>1. k \in 1..(n + 1)
      OBVIOUS
    <3>. QED  BY <1>3, <1>5, <3>1
  <2>. QED  BY <1>3, <2>1, <2>2 DEF Told
<1>. QED  BY <1>1, <1>3, <1>4, <1>5 DEF Told

\* The next order was carried out: of one of the kinds, what it asked for is now.
LEMMA ToldLess ==
    ASSUME NEW q \in Seq(Orders), q # <<>>, NEW K, NEW F, NEW now, NEW new, NEW want,
           Told(q, K, F, now, want),
           new = IF Head(q).kind \in K THEN F[Head(q)] ELSE now
    PROVE  Told(Tail(q), K, F, new, want)
<1>1. PICK r : r = Tail(q)
  OBVIOUS
<1>2. PICK n \in Nat : n + 1 = Len(q)
  <2>1. Len(q) \in Nat /\ Len(q) # 0
    OBVIOUS
  <2>2. Len(q) - 1 \in Nat /\ (Len(q) - 1) + 1 = Len(q)
    BY <2>1
  <2>. QED  BY <2>2
<1>3. /\ r \in Seq(Orders) /\ Len(r) = n /\ Head(q) = q[1] /\ DOMAIN q = 1..(n + 1) /\ DOMAIN r = 1..n
      /\ \A k \in 1..n : r[k] = q[k + 1]
  BY <1>1, <1>2, HeadTailProperties
<1>4. ASSUME NEW k \in 1..n, r[k].kind \in K, \A j \in 1..n : j > k => r[j].kind \notin K
      PROVE  F[r[k]] = want
  <2>1. k + 1 \in 1..(n + 1) /\ q[k + 1].kind \in K
    BY <1>3, <1>4
  <2>2. \A j \in 1..(n + 1) : j > k + 1 => q[j].kind \notin K
    <3>. TAKE j \in 1..(n + 1)
    <3>. HAVE j > k + 1
    <3>1. j - 1 \in 1..n /\ j - 1 > k /\ (j - 1) + 1 = j
      OBVIOUS
    <3>. QED  BY <1>3, <1>4, <3>1
  <2>. QED  BY <1>3, <2>1, <2>2 DEF Told
<1>5. ASSUME \A k \in 1..n : r[k].kind \notin K PROVE new = want
  <2>1. \A j \in 1..(n + 1) : j > 1 => q[j].kind \notin K
    <3>. TAKE j \in 1..(n + 1)
    <3>. HAVE j > 1
    <3>1. j - 1 \in 1..n /\ (j - 1) + 1 = j
      OBVIOUS
    <3>. QED  BY <1>3, <1>5, <3>1
  <2>2. 1 \in 1..(n + 1)
    OBVIOUS
  <2>3. CASE q[1].kind \in K
    BY <1>3, <2>1, <2>2, <2>3 DEF Told
  <2>4. CASE q[1].kind \notin K
    <3>1. \A j \in 1..(n + 1) : q[j].kind \notin K
      BY <2>1, <2>4
    <3>. QED  BY <1>3, <2>4, <3>1 DEF Told
  <2>. QED  BY <2>3, <2>4
<1>. QED  BY <1>1, <1>3, <1>4, <1>5 DEF Told

\* What is wanted may be taken for what is.
LEMMA ToldWanted ==
    ASSUME NEW q, NEW K, NEW F, NEW now, NEW want, Told(q, K, F, now, want)
    PROVE  Told(q, K, F, want, want)
BY DEF Told

LEMMA SaidIs ==
    ASSUME NEW a \in BOOLEAN, NEW b \in BOOLEAN
    PROVE  (Said(a) = Said(b)) <=> (a <=> b)
BY DEF Said

LEMMA SaidBy ==
    ASSUME NEW m \in Orders, m.kind \in {"elevated", "pause"}
    PROVE  SwitchOf[m] = Said(m.on)
BY OrderFacts DEF SwitchOf, Said

-----------------------------------------------------------------------------
(* VideoStream: the session loop *)

LEMMA PicturesInit == V!Init => PicturesInv
<1>. SUFFICES ASSUME V!Init PROVE PicturesInv
  OBVIOUS
<1>. PICK a \in V!Displays(desk.count), view \in BOOLEAN :
       /\ host = [active |-> a, list |-> desk.count, level |-> "full", view |-> view,
                  elevated |-> desk.grant]
       /\ th = [pc |-> "loop", active |-> a, list |-> desk.count, level |-> "full",
                paused |-> ~view, enc |-> "none", held |-> <<>>, force |-> TRUE,
                service |-> FALSE, use |-> FALSE, gap |-> FALSE]
  BY DEF V!Init
<1>1. /\ desk \in V!TheDesk /\ desk.pic = 1
      /\ ctl = IF desk.grant THEN <<[kind |-> "elevated", on |-> TRUE]>> ELSE <<>>
      /\ news = <<>> /\ src = V!FreshSource /\ lane = <<>> /\ arrived = V!NoPicture
      /\ depth \in {0, 1} /\ untold = {}
  BY DEF V!Init
<1>2. desk \in [count : {1, 2}, pic : Nat \ {0}, secure : BOOLEAN, grant : BOOLEAN]
  BY <1>1 DEF V!TheDesk, V!Pic
<1>3. a \in {0, 1}
  BY <1>2 DEF V!Displays
<1>4. PICK m \in Orders : m = [kind |-> "elevated", on |-> TRUE]
  BY DEF Orders
<1>5. ctl = <<>> \/ ctl = <<m>>
  BY <1>1, <1>4
<1>6. PicturesOK
  <2>1. host \in LoopType
    BY <1>2, <1>3 DEF LoopType, Levels
  <2>2. <<>> \in Seq(Unit)
    OBVIOUS
  <2>3. th \in ThreadType
    BY <1>2, <1>3, <2>2 DEF ThreadType, Levels
  <2>4. ctl \in Seq(Orders) /\ news \in Seq(Report) /\ lane \in Seq(LaneUnit)
    <3>1. <<>> \in Seq(Orders) /\ <<>> \in Seq(Report) /\ <<>> \in Seq(LaneUnit)
      OBVIOUS
    <3>2. <<m>> \in Seq(Orders)
      OBVIOUS
    <3>. QED  BY <1>1, <1>5, <3>1, <3>2
  <2>5. src \in [owed : BOOLEAN, kept : Nat] /\ arrived \in Shown
    BY <1>1 DEF V!FreshSource, V!NoPicture, Shown
  <2>6. Len(lane) <= LaneRoom
    BY <1>1, PicturesAssumption
  <2>. QED  BY <1>1, <1>2, <2>1, <2>3, <2>4, <2>5, <2>6 DEF PicturesOK
<1>7. Whole
  <2>1. DOMAIN lane = {} /\ Len(th.held) = 0
    BY <1>1
  <2>. QED  BY <1>1, <2>1 DEF Whole, V!StreamIsWhole
<1>8. Shows
  BY <1>1 DEF Shows, V!FreshSource
<1>9. Obeyed
  <2>1. RateNow = host.level /\ Said(th.paused) = Said(~host.view)
    BY <1>1 DEF RateNow
  <2>2. CASE ctl = <<>>
    <3>1. desk.grant = FALSE
      BY <1>1, <1>2, <1>4, <1>5, <2>2
    <3>. QED  BY <2>1, <2>2, <3>1, ToldEmpty DEF Obeyed
  <2>3. CASE ctl = <<m>>
    <3>1. desk.grant = TRUE
      <4>1. ctl # <<>>
        BY <2>3
      <4>2. desk.grant
        BY <1>1, <4>1
      <4>3. desk.grant \in BOOLEAN
        BY <1>2
      <4>. QED  BY <4>2, <4>3
    <3>2. m.kind = "elevated" /\ SwitchOf[m] = Said(TRUE)
      BY <1>4, SaidBy
    <3>3. /\ DOMAIN ctl = {1} /\ ctl[1] = m
      BY <2>3
    <3>4. Told(ctl, Rated, RateOf, RateNow, host.level)
      BY <2>1, <3>2, <3>3 DEF Told, Rated
    <3>5. Told(ctl, {"pause"}, SwitchOf, Said(th.paused), Said(~host.view))
      BY <2>1, <3>2, <3>3 DEF Told
    <3>6. Told(ctl, {"elevated"}, SwitchOf, Said(th.service), Said(host.elevated))
      BY <3>1, <3>2, <3>3 DEF Told
    <3>. QED  BY <3>4, <3>5, <3>6 DEF Obeyed
  <2>. QED  BY <1>5, <2>2, <2>3
<1>10. Reported
  BY <1>1 DEF Reported
<1>. QED  BY <1>6, <1>7, <1>8, <1>9, <1>10 DEF PicturesInv

\* An order: the session loop believes what it asks for.
LEMMA OrderKeeps ==
    ASSUME PicturesInv, V!Running, NEW m \in Orders, ctl' = Append(ctl, m),
           UNCHANGED <<desk, news, th, src, lane, arrived, depth, untold>>,
           host' \in LoopType,
           host'.level = IF m.kind \in Rated THEN RateOf[m] ELSE host.level,
           host'.view = IF m.kind = "pause" THEN ~m.on ELSE host.view,
           host'.elevated = IF m.kind = "elevated" THEN m.on ELSE host.elevated,
           m.kind # "select" => host'.active = host.active /\ host'.list = host.list
    PROVE  PicturesInv'
<1>1. /\ PicturesOK /\ Whole /\ Shows /\ Obeyed /\ Reported
      /\ ctl \in Seq(Orders) /\ news \in Seq(Report) /\ th \in ThreadType /\ host \in LoopType
  BY DEF PicturesInv, PicturesOK
<1>2. ctl' \in Seq(Orders)
  BY <1>1, AppendProperties
<1>3. PicturesOK'
  BY <1>1, <1>2 DEF PicturesOK
<1>4. Whole'
  BY <1>1 DEF Whole, V!StreamIsWhole, V!NeedsEncoder
<1>5. Shows'
  BY <1>1 DEF Shows, V!NeedsEncoder, Latest
<1>6. Obeyed'
  <2>1. Told(ctl', Rated, RateOf, RateNow, host'.level)
    <3>1. Told(ctl, Rated, RateOf, RateNow, host.level)
      BY <1>1 DEF Obeyed
    <3>2. IF m.kind \in Rated THEN RateOf[m] = host'.level ELSE host'.level = host.level
      OBVIOUS
    <3>. QED  BY <1>1, <3>1, <3>2, ToldMore
  <2>2. Told(ctl', Rated, RateOf, RateNow', host'.level)
    <3>1. CASE "level" \in untold
      BY <2>1, <3>1, ToldWanted DEF RateNow
    <3>2. CASE "level" \notin untold
      BY <2>1, <3>2 DEF RateNow
    <3>. QED  BY <3>1, <3>2
  <2>3. Told(ctl', {"pause"}, SwitchOf, Said(th.paused), Said(~host'.view))
    <3>1. Told(ctl, {"pause"}, SwitchOf, Said(th.paused), Said(~host.view))
      BY <1>1 DEF Obeyed
    <3>2. IF m.kind \in {"pause"} THEN SwitchOf[m] = Said(~host'.view)
                                  ELSE Said(~host'.view) = Said(~host.view)
      <4>1. CASE m.kind = "pause"
        <5>1. m.on \in BOOLEAN /\ host'.view = ~m.on
          BY <4>1, OrderFacts
        <5>2. SwitchOf[m] = Said(m.on)
          BY <4>1, SaidBy
        <5>. QED  BY <4>1, <5>1, <5>2 DEF Said
      <4>2. CASE m.kind # "pause"
        <5>1. host'.view = host.view
          BY <4>2
        <5>. QED  BY <4>2, <5>1 DEF Said
      <4>. QED  BY <4>1, <4>2
    <3>. QED  BY <1>1, <3>1, <3>2, ToldMore
  <2>4. Told(ctl', {"elevated"}, SwitchOf, Said(th.service), Said(host'.elevated))
    <3>1. Told(ctl, {"elevated"}, SwitchOf, Said(th.service), Said(host.elevated))
      BY <1>1 DEF Obeyed
    <3>2. IF m.kind \in {"elevated"} THEN SwitchOf[m] = Said(host'.elevated)
                                     ELSE Said(host'.elevated) = Said(host.elevated)
      <4>1. CASE m.kind = "elevated"
        BY <4>1, SaidBy
      <4>2. CASE m.kind # "elevated"
        <5>1. host'.elevated = host.elevated
          BY <4>2
        <5>. QED  BY <4>2, <5>1 DEF Said
      <4>. QED  BY <4>1, <4>2
    <3>. QED  BY <1>1, <3>1, <3>2, ToldMore
  <2>. QED  BY <2>2, <2>3, <2>4 DEF Obeyed
<1>7. Reported'
  <2>. SUFFICES ASSUME "display" \notin untold, news = <<>>,
                       \A k \in DOMAIN ctl' : ctl'[k].kind # "select"
                PROVE  host'.active = th.active /\ host'.list = th.list
    BY <1>1 DEF Reported
  <2>1. PICK n \in Nat : n = Len(ctl)
    BY <1>1
  <2>2. /\ DOMAIN ctl = 1..n /\ DOMAIN ctl' = 1..(n + 1) /\ ctl'[n + 1] = m
        /\ \A k \in 1..n : ctl'[k] = ctl[k]
    BY <1>1, <2>1, AppendProperties
  <2>3. m.kind # "select"
    BY <2>2
  <2>4. \A k \in 1..n : ctl[k].kind # "select"
    <3>. TAKE k \in 1..n
    <3>1. k \in 1..(n + 1)
      OBVIOUS
    <3>. QED  BY <2>2, <3>1
  <2>. QED  BY <1>1, <2>2, <2>3, <2>4 DEF Reported
<1>. QED  BY <1>3, <1>4, <1>5, <1>6, <1>7 DEF PicturesInv

\* What every message and order of the session loop does, and the end of a grant.
LEMMA AskSteps ==
    ASSUME PicturesInv,
           \/ \E i \in {0, 1} : V!SelectDisplay(i)
           \/ V!SetQuality \/ V!RequestKeyframe \/ V!SetView \/ V!SetElevated \/ V!AdaptTick
           \/ V!GrantLost
    PROVE  PicturesInv'
<1>. USE DEF Rated
<1>1. /\ V!Running /\ UNCHANGED <<desk, news, th, src, lane, arrived, depth, untold>>
      /\ host \in LoopType
  BY DEF V!SelectDisplay, V!SetQuality, V!RequestKeyframe, V!SetView, V!SetElevated, V!AdaptTick,
         V!GrantLost, V!Ask, PicturesInv, PicturesOK
<1>2. /\ host.active \in {0, 1} /\ host.list \in {1, 2} /\ host.level \in Levels
      /\ host.view \in BOOLEAN /\ host.elevated \in BOOLEAN /\ "full" \in Levels
  BY <1>1 DEF LoopType, Levels
<1>3. CASE \E i \in {0, 1} : V!SelectDisplay(i)
  <2>1. PICK i \in {0, 1} : V!SelectDisplay(i)
    BY <1>3
  <2>2. PICK m \in Orders : m = [kind |-> "select", i |-> i]
    BY DEF Orders
  <2>3. ctl' = Append(ctl, m) /\ host' = [host EXCEPT !.active = i, !.level = "full"]
    BY <2>1, <2>2 DEF V!SelectDisplay, V!Order
  <2>4. /\ host' \in LoopType /\ host'.level = "full" /\ host'.view = host.view
        /\ host'.elevated = host.elevated
    BY <1>1, <1>2, <2>3 DEF LoopType
  <2>5. m.kind = "select" /\ RateOf[m] = "full"
    BY <2>2, OrderFacts
  <2>. QED  BY <1>1, <2>3, <2>4, <2>5, OrderKeeps
<1>4. CASE V!SetQuality
  <2>1. PICK m \in Orders : m = [kind |-> "quality"]
    BY DEF Orders
  <2>2. ctl' = Append(ctl, m) /\ host' = [host EXCEPT !.level = "full"]
    BY <1>4, <2>1 DEF V!SetQuality, V!Order
  <2>3. /\ host' \in LoopType /\ host'.level = "full" /\ host'.view = host.view
        /\ host'.elevated = host.elevated /\ host'.active = host.active /\ host'.list = host.list
    BY <1>1, <1>2, <2>2 DEF LoopType
  <2>4. m.kind = "quality" /\ RateOf[m] = "full"
    BY <2>1, OrderFacts
  <2>. QED  BY <1>1, <2>2, <2>3, <2>4, OrderKeeps
<1>5. CASE V!RequestKeyframe
  <2>1. PICK m \in Orders : m = [kind |-> "keyframe"]
    BY DEF Orders
  <2>2. ctl' = Append(ctl, m) /\ host' = host
    BY <1>5, <2>1 DEF V!RequestKeyframe, V!Order
  <2>3. m.kind = "keyframe"
    BY <2>1
  <2>. QED  BY <1>1, <2>2, <2>3, OrderKeeps
<1>6. CASE V!SetView
  <2>1. PICK m \in Orders : m = [kind |-> "pause", on |-> host.view]
    BY <1>2 DEF Orders
  <2>2. ctl' = Append(ctl, m) /\ host' = [host EXCEPT !.view = ~host.view]
    BY <1>6, <2>1 DEF V!SetView, V!Order
  <2>3. /\ host' \in LoopType /\ host'.level = host.level /\ host'.view = ~host.view
        /\ host'.elevated = host.elevated /\ host'.active = host.active /\ host'.list = host.list
    BY <1>1, <1>2, <2>2 DEF LoopType
  <2>4. m.kind = "pause" /\ m.on = host.view
    BY <2>1
  <2>. QED  BY <1>1, <2>2, <2>3, <2>4, OrderKeeps
<1>7. CASE V!SetElevated
  <2>0. (~host.elevated) \in BOOLEAN
    OBVIOUS
  <2>1. PICK m \in Orders : m = [kind |-> "elevated", on |-> ~host.elevated]
    BY <2>0, Zenon DEF Orders
  <2>2. ctl' = Append(ctl, m) /\ host' = [host EXCEPT !.elevated = ~host.elevated]
    BY <1>7, <2>1 DEF V!SetElevated, V!Order
  <2>3. /\ host' \in LoopType /\ host'.level = host.level /\ host'.elevated = ~host.elevated
        /\ host'.view = host.view /\ host'.active = host.active /\ host'.list = host.list
    BY <1>1, <1>2, <2>2 DEF LoopType
  <2>4. m.kind = "elevated" /\ m.on = ~host.elevated
    BY <2>1
  <2>. QED  BY <1>1, <2>2, <2>3, <2>4, OrderKeeps
<1>8. CASE V!AdaptTick
  <2>1. PICK l \in Levels : /\ host' = [host EXCEPT !.level = l]
                            /\ V!Order([kind |-> "target", level |-> l])
    BY <1>8 DEF V!AdaptTick, Levels
  <2>2. PICK m \in Orders : m = [kind |-> "target", level |-> l]
    BY DEF Orders
  <2>3. ctl' = Append(ctl, m)
    BY <2>1, <2>2 DEF V!Order
  <2>4. /\ host' \in LoopType /\ host'.level = l /\ host'.view = host.view
        /\ host'.elevated = host.elevated /\ host'.active = host.active /\ host'.list = host.list
    BY <1>1, <1>2, <2>1 DEF LoopType
  <2>5. m.kind = "target" /\ RateOf[m] = l
    BY <2>2, OrderFacts
  <2>. QED  BY <1>1, <2>3, <2>4, <2>5, OrderKeeps
<1>9. CASE V!GrantLost
  <2>1. PICK m \in Orders : m = [kind |-> "elevated", on |-> FALSE]
    BY DEF Orders
  <2>2. ctl' = Append(ctl, m) /\ host' = [host EXCEPT !.elevated = FALSE]
    BY <1>9, <2>1 DEF V!GrantLost, V!Order
  <2>3. /\ host' \in LoopType /\ host'.level = host.level /\ host'.elevated = FALSE
        /\ host'.view = host.view /\ host'.active = host.active /\ host'.list = host.list
    BY <1>1, <1>2, <2>2 DEF LoopType
  <2>4. m.kind = "elevated" /\ m.on = FALSE
    BY <2>1
  <2>. QED  BY <1>1, <2>2, <2>3, <2>4, OrderKeeps
<1>. QED  BY <1>3, <1>4, <1>5, <1>6, <1>7, <1>8, <1>9

\* VideoEvent::Displays.
LEMMA NewsKeeps == ASSUME PicturesInv, V!HearNews PROVE PicturesInv'
<1>1. /\ news # <<>> /\ news' = Tail(news)
      /\ host' = [host EXCEPT !.list = Head(news).list, !.active = Head(news).active]
      /\ UNCHANGED <<desk, ctl, th, src, lane, arrived, depth, untold>>
  BY DEF V!HearNews
<1>2. /\ PicturesOK /\ Whole /\ Shows /\ (V!Running => Obeyed /\ Reported)
      /\ news \in Seq(Report) /\ host \in LoopType /\ th \in ThreadType
  BY DEF PicturesInv, PicturesOK
<1>3. PICK n \in Nat : n + 1 = Len(news)
  <2>1. Len(news) \in Nat /\ Len(news) # 0
    BY <1>1, <1>2
  <2>2. Len(news) - 1 \in Nat /\ (Len(news) - 1) + 1 = Len(news)
    BY <2>1
  <2>. QED  BY <2>2
<1>4. /\ news' \in Seq(Report) /\ Len(news') = n /\ Head(news) = news[1] /\ Head(news) \in Report
      /\ \A k \in 1..n : news'[k] = news[k + 1]
  BY <1>1, <1>2, <1>3, HeadTailProperties
<1>5. /\ host' \in LoopType /\ host'.level = host.level /\ host'.view = host.view
      /\ host'.elevated = host.elevated
      /\ host'.list = news[1].list /\ host'.active = news[1].active
  BY <1>1, <1>2, <1>4 DEF LoopType, Report
<1>6. PicturesOK'
  BY <1>1, <1>2, <1>4, <1>5 DEF PicturesOK
<1>7. Whole' /\ Shows'
  BY <1>1, <1>2 DEF Whole, V!StreamIsWhole, V!NeedsEncoder, Shows, Latest
<1>8. ASSUME V!Running' PROVE Obeyed' /\ Reported'
  <2>1. V!Running /\ Obeyed /\ Reported
    BY <1>1, <1>2, <1>8 DEF V!Running
  <2>2. Obeyed'
    <3>1. RateNow' = RateNow
      BY <1>1, <1>5 DEF RateNow
    <3>2. Said(~host'.view) = Said(~host.view) /\ Said(host'.elevated) = Said(host.elevated)
      BY <1>5
    <3>. QED  BY <1>1, <1>5, <2>1, <3>1, <3>2 DEF Obeyed
  <2>3. Reported'
    <3>. SUFFICES ASSUME "display" \notin untold PROVE Reported'
      BY <1>1 DEF Reported
    <3>1. news[n + 1].list = th.list /\ news[n + 1].active = th.active
      BY <1>1, <1>3, <2>1 DEF Reported
    <3>2. CASE n = 0
      <4>1. host'.list = th.list /\ host'.active = th.active
        BY <1>5, <3>1, <3>2
      <4>2. news' = <<>>
        BY <1>4, <3>2
      <4>. QED  BY <1>1, <4>1, <4>2 DEF Reported
    <3>3. CASE n # 0
      <4>1. n \in 1..n /\ news' # <<>>
        BY <1>4, <3>3
      <4>2. news'[Len(news')] = news[n + 1]
        BY <1>4, <4>1
      <4>. QED  BY <1>1, <3>1, <4>1, <4>2 DEF Reported
    <3>. QED  BY <3>2, <3>3
  <2>. QED  BY <2>2, <2>3
<1>. QED  BY <1>6, <1>7, <1>8 DEF PicturesInv

-----------------------------------------------------------------------------
(* VideoStream: the thread *)

\* What a turn leaves alone when it only works on the stream.
LEMMA QuietKeeps ==
    ASSUME PicturesInv, UNCHANGED <<host, ctl, news, untold>>, V!Running' => V!Running,
           th'.level = th.level, th'.paused = th.paused, th'.service = th.service,
           th'.active = th.active, th'.list = th.list
    PROVE  V!Running' => Obeyed' /\ Reported'
<1>. SUFFICES ASSUME V!Running' PROVE Obeyed' /\ Reported'
  OBVIOUS
<1>1. Obeyed /\ Reported
  BY DEF PicturesInv
<1>2. RateNow' = RateNow /\ Said(th'.paused) = Said(th.paused) /\ Said(th'.service) = Said(th.service)
  BY DEF RateNow
<1>3. Obeyed'
  BY <1>1, <1>2 DEF Obeyed
<1>4. Reported'
  BY <1>1 DEF Reported
<1>. QED  BY <1>3, <1>4

\* An order that was carried out: what the thread goes by is what the order says.
LEMMA CtlFacts ==
    ASSUME PicturesInv, ctl # <<>>, ctl' = Tail(ctl)
    PROVE  /\ Head(ctl) \in Orders /\ ctl' \in Seq(Orders)
           /\ (\A k \in DOMAIN ctl' : ctl'[k].kind # "select") =>
                 (Head(ctl).kind = "select" \/ \A k \in DOMAIN ctl : ctl[k].kind # "select")
<1>1. ctl \in Seq(Orders)
  BY DEF PicturesInv, PicturesOK
<1>2. PICK n \in Nat : n + 1 = Len(ctl)
  <2>1. Len(ctl) \in Nat /\ Len(ctl) # 0
    BY <1>1
  <2>2. Len(ctl) - 1 \in Nat /\ (Len(ctl) - 1) + 1 = Len(ctl)
    BY <2>1
  <2>. QED  BY <2>2
<1>3. /\ ctl' \in Seq(Orders) /\ Len(ctl') = n /\ Head(ctl) = ctl[1] /\ Head(ctl) \in Orders
      /\ DOMAIN ctl = 1..(n + 1) /\ DOMAIN ctl' = 1..n
      /\ \A k \in 1..n : ctl'[k] = ctl[k + 1]
  BY <1>1, <1>2, HeadTailProperties
<1>4. ASSUME \A k \in 1..n : ctl'[k].kind # "select", Head(ctl).kind # "select",
             NEW k \in 1..(n + 1)
      PROVE  ctl[k].kind # "select"
  <2>1. CASE k = 1
    BY <1>3, <1>4, <2>1
  <2>2. CASE k # 1
    <3>1. k - 1 \in 1..n /\ (k - 1) + 1 = k
      BY <2>2
    <3>. QED  BY <1>3, <1>4, <3>1
  <2>. QED  BY <2>1, <2>2
<1>. QED  BY <1>3, <1>4

\* The three things that the orders are about, after one of them.
LEMMA ObeyedLess ==
    ASSUME PicturesInv, V!Running, ctl # <<>>, ctl' = Tail(ctl), UNCHANGED host,
           th' \in ThreadType,
           \/ "level" \in untold'
           \/ /\ "level" \notin untold \/ Head(ctl).kind \in Rated
              /\ th'.level = IF Head(ctl).kind \in Rated THEN RateOf[Head(ctl)] ELSE th.level,
           th'.paused = IF Head(ctl).kind = "pause" THEN Head(ctl).on ELSE th.paused,
           th'.service = IF Head(ctl).kind = "elevated" THEN Head(ctl).on ELSE th.service
    PROVE  Obeyed'
<1>. DEFINE m == Head(ctl)
<1>1. m \in Orders /\ ctl \in Seq(Orders) /\ th \in ThreadType /\ Obeyed
  BY CtlFacts DEF PicturesInv, PicturesOK
<1>2. PICK r : r = IF m.kind \in Rated THEN RateOf[m] ELSE RateNow
  OBVIOUS
<1>3. Told(ctl', Rated, RateOf, r, host.level)
  BY <1>1, <1>2, ToldLess DEF Obeyed
<1>4. Told(ctl', Rated, RateOf, RateNow', host.level)
  <2>1. CASE "level" \in untold'
    BY <1>3, <2>1, ToldWanted DEF RateNow
  <2>2. CASE "level" \notin untold'
    <3>1. RateNow' = r
      BY <1>2, <2>2 DEF RateNow
    <3>. QED  BY <1>3, <3>1
  <2>. QED  BY <2>1, <2>2
<1>5. Told(ctl', {"pause"}, SwitchOf, Said(th'.paused), Said(~host.view))
  <2>1. Told(ctl, {"pause"}, SwitchOf, Said(th.paused), Said(~host.view))
    BY <1>1 DEF Obeyed
  <2>2. Said(th'.paused) = IF m.kind \in {"pause"} THEN SwitchOf[m] ELSE Said(th.paused)
    <3>1. CASE m.kind = "pause"
      BY <1>1, <3>1, SaidBy
    <3>2. CASE m.kind # "pause"
      BY <3>2
    <3>. QED  BY <3>1, <3>2
  <2>. QED  BY <1>1, <2>1, <2>2, ToldLess
<1>6. Told(ctl', {"elevated"}, SwitchOf, Said(th'.service), Said(host.elevated))
  <2>1. Told(ctl, {"elevated"}, SwitchOf, Said(th.service), Said(host.elevated))
    BY <1>1 DEF Obeyed
  <2>2. Said(th'.service) = IF m.kind \in {"elevated"} THEN SwitchOf[m] ELSE Said(th.service)
    <3>1. CASE m.kind = "elevated"
      BY <1>1, <3>1, SaidBy
    <3>2. CASE m.kind # "elevated"
      BY <3>2
    <3>. QED  BY <3>1, <3>2
  <2>. QED  BY <1>1, <2>1, <2>2, ToldLess
<1>. QED  BY <1>4, <1>5, <1>6 DEF Obeyed

\* A new encoder: nothing is held back, and the next picture is a key picture.
LEMMA NewEncoderWhole ==
    ASSUME PicturesInv, UNCHANGED <<lane, depth>>, th'.held = <<>>,
           th'.force \/ V!NeedsEncoder'
    PROVE  Whole'
<1>1. Len(th'.held) = 0 /\ depth \in {0, 1} /\ Whole
  BY DEF PicturesInv, PicturesOK
<1>. QED  BY <1>1 DEF Whole, V!StreamIsWhole

\* The same encoder, that may be asked for a key picture.
LEMMA SameEncoderWhole ==
    ASSUME PicturesInv, UNCHANGED <<lane, depth>>, th'.held = th.held, th'.enc = th.enc,
           th'.level = th.level, th'.gap = th.gap, th.force => th'.force
    PROVE  Whole'
BY DEF PicturesInv, Whole, V!StreamIsWhole, V!NeedsEncoder

LEMMA CtlKeeps == ASSUME PicturesInv, V!HandleCtl PROVE PicturesInv'
<1>. DEFINE m == Head(ctl)
<1>1. /\ th.pc = "loop" /\ ctl # <<>> /\ ctl' = Tail(ctl)
      /\ UNCHANGED <<desk, host, lane, arrived, depth>>
      /\ \/ m.kind = "select" /\ V!Select(m.i)
         \/ m.kind = "quality" /\ V!Quality
         \/ m.kind = "keyframe" /\ V!Keyframe
         \/ m.kind = "target" /\ V!Target(m.level)
         \/ m.kind = "elevated" /\ V!Elevated(m.on)
         \/ m.kind = "pause" /\ V!Pause(m.on)
  BY DEF V!HandleCtl
<1>2. /\ PicturesOK /\ Whole /\ Shows /\ Obeyed /\ Reported /\ V!Running
      /\ th \in ThreadType /\ src \in [owed : BOOLEAN, kept : Nat] /\ news \in Seq(Report)
  BY <1>1 DEF PicturesInv, PicturesOK, V!Running
<1>3. /\ m \in Orders /\ ctl' \in Seq(Orders)
      /\ (\A k \in DOMAIN ctl' : ctl'[k].kind # "select") =>
            (m.kind = "select" \/ \A k \in DOMAIN ctl : ctl[k].kind # "select")
  BY <1>1, CtlFacts
<1>4. /\ m.kind = "select" => m.i \in {0, 1}
      /\ m.kind = "target" => m.level \in Levels
      /\ m.kind \in {"elevated", "pause"} => m.on \in BOOLEAN
      /\ RateOf[m] = IF m.kind = "target" THEN m.level ELSE "full"
  BY <1>3, OrderFacts
<1>5. <<>> \in Seq(Unit) /\ "full" \in Levels /\ "none" \notin Levels /\ Levels \subseteq Levels \cup {"none"}
  BY DEF Levels
<1>. HIDE DEF m
\* An order that changes no display.
<1>6. ASSUME th' \in ThreadType, src' \in [owed : BOOLEAN, kept : Nat], UNCHANGED news,
             Whole', Shows', Obeyed', m.kind # "select",
             "display" \notin untold' => "display" \notin untold,
             th'.active = th.active, th'.list = th.list
      PROVE  PicturesInv'
  <2>1. PicturesOK'
    BY <1>1, <1>2, <1>3, <1>6 DEF PicturesOK
  <2>2. Reported'
    BY <1>1, <1>2, <1>3, <1>6 DEF Reported
  <2>. QED  BY <1>6, <2>1, <2>2 DEF PicturesInv
<1>7. CASE m.kind = "select" /\ V!Selected(m.i)
  <2>1. /\ m.i < th.list
        /\ th' = [th EXCEPT !.active = m.i, !.level = "full", !.enc = "none", !.held = <<>>, !.force = TRUE]
        /\ src' = V!FreshSource /\ news' = Append(news, [list |-> th.list, active |-> m.i])
        /\ untold' = {}
    BY <1>7 DEF V!Selected, V!Tell
  <2>2. /\ th' \in ThreadType /\ th'.active = m.i /\ th'.level = "full" /\ th'.enc = "none"
        /\ th'.held = <<>> /\ th'.force = TRUE /\ th'.list = th.list
        /\ th'.paused = th.paused /\ th'.service = th.service
    BY <1>2, <1>4, <1>5, <1>7, <2>1 DEF ThreadType
  <2>3. PICK r \in Report : r = [list |-> th.list, active |-> m.i]
    BY <1>2, <1>4, <1>7 DEF Report, ThreadType
  <2>4. /\ news' \in Seq(Report) /\ news' # <<>> /\ news'[Len(news')] = r
    BY <1>2, <2>1, <2>3, AppendProperties
  <2>5. src' \in [owed : BOOLEAN, kept : Nat] /\ src'.owed
    BY <2>1 DEF V!FreshSource
  <2>6. PicturesOK'
    BY <1>1, <1>2, <1>3, <2>2, <2>4, <2>5 DEF PicturesOK
  <2>7. Whole'
    BY <1>1, <2>2, NewEncoderWhole
  <2>8. Shows'
    BY <2>5 DEF Shows
  <2>9. Obeyed'
    <3>1. Head(ctl).kind \in Rated /\ Head(ctl).kind = "select" /\ RateOf[Head(ctl)] = "full"
      BY <1>4, <1>7 DEF m, Rated
    <3>. QED  BY <1>1, <1>2, <2>1, <2>2, <3>1, ObeyedLess
  <2>10. Reported'
    BY <2>2, <2>3, <2>4 DEF Reported
  <2>. QED  BY <2>6, <2>7, <2>8, <2>9, <2>10 DEF PicturesInv
<1>8. CASE m.kind = "select" /\ V!NotSelected(m.i)
  <2>1. untold' = untold \cup {"display", "level"} /\ UNCHANGED <<th, src, news>>
    BY <1>8 DEF V!NotSelected
  <2>2. PicturesOK'
    BY <1>1, <1>2, <1>3, <2>1 DEF PicturesOK
  <2>3. Whole' /\ Shows'
    BY <1>1, <1>2, <2>1 DEF Whole, V!StreamIsWhole, V!NeedsEncoder, Shows, Latest
  <2>4. Obeyed'
    <3>1. Head(ctl).kind = "select" /\ "level" \in untold' /\ th' \in ThreadType
      BY <1>2, <1>8, <2>1 DEF m
    <3>2. th'.paused = th.paused /\ th'.service = th.service
      BY <2>1
    <3>. QED  BY <1>1, <1>2, <3>1, <3>2, ObeyedLess
  <2>5. Reported'
    BY <2>1 DEF Reported
  <2>. QED  BY <2>2, <2>3, <2>4, <2>5 DEF PicturesInv
<1>9. CASE m.kind = "quality" /\ V!Quality
  <2>1. /\ th' = [th EXCEPT !.level = "full", !.enc = "none", !.held = <<>>, !.force = TRUE]
        /\ untold' = untold \ {"level"} /\ UNCHANGED <<src, news>>
    BY <1>9 DEF V!Quality
  <2>2. /\ th' \in ThreadType /\ th'.active = th.active /\ th'.level = "full" /\ th'.enc = "none"
        /\ th'.held = <<>> /\ th'.force = TRUE /\ th'.list = th.list
        /\ th'.paused = th.paused /\ th'.service = th.service
    BY <1>2, <1>5, <2>1 DEF ThreadType
  <2>3. Whole'
    BY <1>1, <2>2, NewEncoderWhole
  <2>4. Shows'
    BY <2>2 DEF Shows, V!NeedsEncoder
  <2>5. Obeyed'
    <3>1. Head(ctl).kind \in Rated /\ Head(ctl).kind = "quality" /\ RateOf[Head(ctl)] = "full"
      BY <1>4, <1>9 DEF m, Rated
    <3>. QED  BY <1>1, <1>2, <2>1, <2>2, <3>1, ObeyedLess
  <2>. QED  BY <1>2, <1>6, <1>9, <2>1, <2>2, <2>3, <2>4, <2>5
<1>10. CASE m.kind = "keyframe" /\ V!Keyframe
  <2>1. /\ th' = [th EXCEPT !.force = TRUE] /\ src' = [src EXCEPT !.owed = TRUE]
        /\ UNCHANGED <<news, untold>>
    BY <1>10 DEF V!Keyframe, V!Owe
  <2>2. /\ th' \in ThreadType /\ th'.active = th.active /\ th'.level = th.level /\ th'.enc = th.enc
        /\ th'.held = th.held /\ th'.force = TRUE /\ th'.list = th.list /\ th'.gap = th.gap
        /\ th'.paused = th.paused /\ th'.service = th.service
    BY <1>2, <2>1 DEF ThreadType
  <2>3. src' \in [owed : BOOLEAN, kept : Nat] /\ src'.owed
    BY <1>2, <2>1
  <2>4. Whole'
    BY <1>1, <2>2, SameEncoderWhole
  <2>5. Shows'
    BY <2>3 DEF Shows
  <2>6. Obeyed'
    <3>1. Head(ctl).kind \notin Rated /\ Head(ctl).kind = "keyframe"
      BY <1>10 DEF m, Rated
    <3>. QED  BY <1>1, <1>2, <2>1, <2>2, <3>1, ObeyedLess
  <2>. QED  BY <1>6, <1>10, <2>1, <2>2, <2>3, <2>4, <2>5, <2>6
<1>11. CASE m.kind = "target" /\ V!Target(m.level)
  <2>1. /\ th' = IF m.level # th.level
                 THEN [th EXCEPT !.level = m.level, !.enc = "none", !.held = <<>>, !.force = TRUE]
                 ELSE th
        /\ untold' = untold \ {"level"} /\ UNCHANGED <<src, news>>
    BY <1>11 DEF V!Target
  <2>2. /\ th' \in ThreadType /\ th'.active = th.active /\ th'.level = m.level /\ th'.list = th.list
        /\ th'.paused = th.paused /\ th'.service = th.service
        /\ \/ th' = th
           \/ th'.enc = "none" /\ th'.held = <<>> /\ th'.force = TRUE
    BY <1>2, <1>4, <1>5, <1>11, <2>1 DEF ThreadType
  <2>3. Whole'
    <3>1. CASE th' = th
      BY <1>1, <1>2, <3>1 DEF Whole, V!StreamIsWhole, V!NeedsEncoder
    <3>2. CASE th'.enc = "none" /\ th'.held = <<>> /\ th'.force = TRUE
      BY <1>1, <3>2, NewEncoderWhole
    <3>. QED  BY <2>2, <3>1, <3>2
  <2>4. Shows'
    <3>1. CASE th' = th
      BY <1>1, <1>2, <2>1, <3>1 DEF Shows, V!NeedsEncoder, Latest
    <3>2. CASE th'.enc = "none"
      <4>1. th'.level # "none"
        BY <1>4, <1>5, <1>11, <2>2
      <4>. QED  BY <3>2, <4>1 DEF Shows, V!NeedsEncoder
    <3>. QED  BY <2>2, <3>1, <3>2
  <2>5. Obeyed'
    <3>1. Head(ctl).kind \in Rated /\ Head(ctl).kind = "target" /\ RateOf[Head(ctl)] = m.level
      BY <1>4, <1>11 DEF m, Rated
    <3>. QED  BY <1>1, <1>2, <2>1, <2>2, <3>1, ObeyedLess
  <2>. QED  BY <1>2, <1>6, <1>11, <2>1, <2>2, <2>3, <2>4, <2>5
<1>12. CASE m.kind = "elevated" /\ V!Elevated(m.on)
  <2>1. /\ th' = [th EXCEPT !.service = m.on, !.use = FALSE, !.force = TRUE]
        /\ src' = [src EXCEPT !.owed = TRUE] /\ UNCHANGED <<news, untold>>
    BY <1>12 DEF V!Elevated, V!Owe
  <2>2. /\ th' \in ThreadType /\ th'.active = th.active /\ th'.level = th.level /\ th'.enc = th.enc
        /\ th'.held = th.held /\ th'.force = TRUE /\ th'.list = th.list /\ th'.gap = th.gap
        /\ th'.paused = th.paused /\ th'.service = m.on
    BY <1>2, <1>4, <1>12, <2>1 DEF ThreadType
  <2>3. src' \in [owed : BOOLEAN, kept : Nat] /\ src'.owed
    BY <1>2, <2>1
  <2>4. Whole'
    BY <1>1, <2>2, SameEncoderWhole
  <2>5. Shows'
    BY <2>3 DEF Shows
  <2>6. Obeyed'
    <3>1. Head(ctl).kind \notin Rated /\ Head(ctl).kind = "elevated" /\ th'.service = Head(ctl).on
      BY <1>12, <2>2 DEF m, Rated
    <3>. QED  BY <1>1, <1>2, <2>1, <2>2, <3>1, ObeyedLess
  <2>. QED  BY <1>6, <1>12, <2>1, <2>2, <2>3, <2>4, <2>5, <2>6
<1>13. CASE m.kind = "pause" /\ V!Pause(m.on)
  <2>1. /\ th' = [th EXCEPT !.paused = m.on, !.force = th.force \/ ~m.on]
        /\ src' = [src EXCEPT !.owed = src.owed \/ ~m.on] /\ UNCHANGED <<news, untold>>
    BY <1>13 DEF V!Pause
  <2>2. /\ th' \in ThreadType /\ th'.active = th.active /\ th'.level = th.level /\ th'.enc = th.enc
        /\ th'.held = th.held /\ (th.force => th'.force) /\ th'.list = th.list /\ th'.gap = th.gap
        /\ th'.paused = m.on /\ th'.service = th.service /\ th'.use = th.use /\ th'.pc = th.pc
    BY <1>2, <1>4, <1>13, <2>1 DEF ThreadType
  <2>3. src' \in [owed : BOOLEAN, kept : Nat] /\ (src.owed => src'.owed) /\ src'.kept = src.kept
    BY <1>2, <1>4, <1>13, <2>1
  <2>4. Whole'
    BY <1>1, <2>2, SameEncoderWhole
  <2>5. Shows'
    BY <1>1, <1>2, <2>2, <2>3 DEF Shows, V!NeedsEncoder, Latest
  <2>6. Obeyed'
    <3>1. Head(ctl).kind \notin Rated /\ Head(ctl).kind = "pause" /\ th'.paused = Head(ctl).on
      BY <1>13, <2>2 DEF m, Rated
    <3>. QED  BY <1>1, <1>2, <2>1, <2>2, <3>1, ObeyedLess
  <2>. QED  BY <1>6, <1>13, <2>1, <2>2, <2>3, <2>4, <2>5, <2>6
<1>. QED  BY <1>1, <1>7, <1>8, <1>9, <1>10, <1>11, <1>12, <1>13 DEF V!Select

\* try_send_video of what an encode gave: the lane takes the first of the units.
LEMMA SendFacts ==
    ASSUME PicturesOK, \A k \in DOMAIN lane : lane[k].gap => lane[k].key, Len(lane) < LaneRoom,
           NEW units \in Seq(Unit), NEW rest \in Seq(Unit), V!Send(units, rest),
           th.gap => (units = <<>> \/ units[1].key)
    PROVE  /\ lane' \in Seq(LaneUnit) /\ Len(lane') <= LaneRoom
           /\ \A k \in DOMAIN lane' : lane'[k].gap => lane'[k].key
           /\ \E lost \in BOOLEAN :
                 /\ th' = [th EXCEPT !.held = rest, !.force = lost,
                                     !.gap = IF units = <<>> THEN th.gap ELSE lost]
                 /\ lost => Len(units) > 1
           /\ Len(units) = 1 => lane' # <<>> /\ lane'[Len(lane')].pic = units[1].pic
<1>. DEFINE n == V!Least(Len(units), LaneRoom - Len(lane))
            unit(k) == [pic |-> units[k].pic, key |-> units[k].key, gap |-> k = 1 /\ th.gap]
<1>1. PICK sent : sent = [k \in 1..n |-> unit(k)]
  OBVIOUS
<1>2. PICK lost \in BOOLEAN : lost <=> (n < Len(units))
  OBVIOUS
<1>3. /\ lane' = lane \o sent
      /\ th' = [th EXCEPT !.held = rest, !.force = lost,
                          !.gap = IF units = <<>> THEN th.gap ELSE lost]
  <2>1. lost = (n < Len(units))
    BY <1>2
  <2>. QED  BY <1>1, <2>1 DEF V!Send, V!AfterRefusal
<1>4. /\ lane \in Seq(LaneUnit) /\ th \in ThreadType /\ LaneRoom \in Nat
      /\ Len(lane) \in Nat /\ Len(units) \in Nat
  BY PicturesAssumption DEF PicturesOK
<1>5. /\ n \in Nat /\ n <= Len(units) /\ n <= LaneRoom - Len(lane)
      /\ (Len(units) >= 1 => n >= 1) /\ (n < Len(units) => Len(units) > 1)
  BY <1>4 DEF V!Least
<1>. HIDE DEF n
<1>6. ASSUME NEW k \in 1..n
      PROVE  /\ unit(k) \in LaneUnit
             /\ unit(k).gap => unit(k).key
             /\ unit(k).pic = units[k].pic
  <2>1. k \in 1..Len(units)
    BY <1>4, <1>5
  <2>2. units[k] \in Unit
    BY <2>1
  <2>3. (k = 1 /\ th.gap) \in BOOLEAN
    OBVIOUS
  <2>4. unit(k) \in LaneUnit
    BY <2>2, <2>3 DEF Unit, LaneUnit
  <2>5. ASSUME k = 1, th.gap PROVE units[k].key
    BY <2>1, <2>5
  <2>. QED  BY <2>4, <2>5
<1>7. /\ sent \in Seq(LaneUnit) /\ Len(sent) = n
      /\ \A k \in 1..n : /\ sent[k].gap => sent[k].key
                         /\ sent[k].pic = units[k].pic
  <2>1. sent \in [1..n -> LaneUnit]
    BY <1>1, <1>6
  <2>2. sent \in Seq(LaneUnit) /\ Len(sent) = n
    BY <1>5, <2>1
  <2>3. ASSUME NEW k \in 1..n PROVE sent[k].gap => sent[k].key /\ sent[k].pic = units[k].pic
    BY <1>1, <1>6
  <2>4. ASSUME NEW k \in 1..n PROVE sent[k].pic = units[k].pic
    BY <1>1, <1>6
  <2>. QED  BY <2>2, <2>3, <2>4
<1>. HIDE DEF unit
<1>8. PICK a \in Nat : a = Len(lane)
  BY <1>4
<1>9. /\ lane' \in Seq(LaneUnit) /\ Len(lane') = a + n
      /\ \A k \in 1..(a + n) : lane'[k] = IF k <= a THEN lane[k] ELSE sent[k - a]
  <2>1. /\ lane \o sent \in Seq(LaneUnit) /\ Len(lane \o sent) = Len(lane) + Len(sent)
        /\ \A k \in 1..(Len(lane) + Len(sent)) :
              (lane \o sent)[k] = IF k <= Len(lane) THEN lane[k] ELSE sent[k - Len(lane)]
    BY <1>4, <1>7, ConcatProperties
  <2>. QED  BY <1>3, <1>7, <1>8, <2>1
<1>10. ASSUME NEW k \in 1..(a + n) PROVE lane'[k].gap => lane'[k].key
  <2>1. CASE k <= a
    <3>1. k \in DOMAIN lane /\ lane'[k] = lane[k]
      BY <1>4, <1>8, <1>9, <2>1
    <3>. QED  BY <3>1
  <2>2. CASE ~(k <= a)
    <3>1. k - a \in 1..n /\ lane'[k] = sent[k - a]
      BY <1>5, <1>9, <2>2
    <3>. QED  BY <1>7, <3>1
  <2>. QED  BY <2>1, <2>2
<1>11. ASSUME Len(units) = 1 PROVE lane' # <<>> /\ lane'[Len(lane')].pic = units[1].pic
  <2>1. n = 1
    BY <1>5, <1>11
  <2>2. a + 1 \in 1..(a + n) /\ ~(a + 1 <= a) /\ (a + 1) - a = 1 /\ 1 \in 1..n
    BY <2>1
  <2>3. lane'[a + 1] = sent[1] /\ sent[1].pic = units[1].pic /\ Len(lane') = a + 1
    BY <1>7, <1>9, <2>1, <2>2
  <2>4. lane' # <<>>
    BY <1>9, <2>3
  <2>. QED  BY <2>3, <2>4
<1>12. Len(lane') <= LaneRoom /\ DOMAIN lane' = 1..(a + n)
  BY <1>4, <1>5, <1>8, <1>9
<1>13. lost \in BOOLEAN /\ (lost => Len(units) > 1)
  BY <1>2, <1>5
<1>. QED  BY <1>3, <1>9, <1>10, <1>11, <1>12, <1>13

\* The units of one encode, and what the encoder holds back of them.
\* What an encode sends and keeps.
Split(units, rest) ==
    /\ units \in Seq(Unit) /\ rest \in Seq(Unit) /\ Len(rest) <= depth
    /\ th.gap => (units = <<>> \/ units[1].key)
    /\ units = <<>> => /\ rest # <<>>
                       /\ th.gap => rest[1].key
    /\ Len(units) > 1 => rest = <<>>
    /\ depth = 0 => Len(units) = 1 /\ units[1].pic = V!Picture

LEMMA UnitFacts ==
    ASSUME PicturesInv, V!Turn, ~V!NeedsEncoder, NEW back \in 0..depth, NEW u,
           u = V!Units(V!Picture), NEW n, n = IF Len(u) > back THEN Len(u) - back ELSE 0
    PROVE  Split(SubSeq(u, 1, n), SubSeq(u, n + 1, Len(u)))
<1>1. /\ th \in ThreadType /\ depth \in {0, 1} /\ desk.pic \in Nat /\ Whole /\ th.active \in {0, 1}
  BY DEF PicturesInv, PicturesOK, ThreadType
<1>2. V!Picture \in Shown
  BY <1>1 DEF V!Picture, Shown
<1>3. /\ th.held \in Seq(Unit) /\ th.force \in BOOLEAN /\ Len(th.held) \in {0, 1}
      /\ Len(th.held) <= depth /\ (Len(th.held) = 0 <=> th.held = <<>>)
  <2>1. th.held \in Seq(Unit) /\ th.force \in BOOLEAN
    BY <1>1 DEF ThreadType
  <2>2. Len(th.held) <= depth
    BY <1>1 DEF Whole
  <2>3. Len(th.held) \in Nat /\ (Len(th.held) = 0 <=> th.held = <<>>)
    BY <2>1
  <2>4. PICK l \in Nat : l = Len(th.held)
    BY <2>3
  <2>5. l \in {0, 1} /\ l <= depth
    <3>1. l <= depth
      BY <2>2, <2>4
    <3>2. depth = 0 \/ depth = 1
      BY <1>1
    <3>. QED  BY <3>1, <3>2
  <2>. QED  BY <2>1, <2>2, <2>3, <2>4, <2>5
<1>4. PICK x \in Unit : x = [pic |-> V!Picture, key |-> th.force]
  BY <1>2, <1>3 DEF Unit
<1>5. u = Append(th.held, x)
  BY <1>4 DEF V!Units
<1>6. PICK h \in {0, 1} : h = Len(th.held)
  BY <1>3
<1>7. /\ u \in Seq(Unit) /\ Len(u) = h + 1 /\ u[h + 1] = x /\ (h = 1 => u[1] = th.held[1])
  BY <1>3, <1>5, <1>6, AppendProperties
<1>8. /\ back \in {0, 1} /\ back <= depth /\ n \in {0, 1, 2} /\ n = IF h + 1 > back THEN h + 1 - back ELSE 0
      /\ n <= h + 1 /\ (h + 1) - n <= back
  <2>1. back \in {0, 1} /\ back <= depth
    BY <1>1
  <2>2. n = IF h + 1 > back THEN h + 1 - back ELSE 0
    BY <1>7
  <2>3. CASE h = 0
    BY <2>1, <2>2, <2>3
  <2>4. CASE h = 1
    BY <2>1, <2>2, <2>4
  <2>. QED  BY <2>1, <2>2, <2>3, <2>4
<1>9. PICK s : s = SubSeq(u, 1, n)
  OBVIOUS
<1>10. PICK r : r = SubSeq(u, n + 1, Len(u))
  OBVIOUS
<1>11. /\ s \in Seq(Unit) /\ Len(s) = n /\ \A k \in 1..n : s[k] = u[k]
  BY <1>7, <1>8, <1>9, SubSeqProperties
<1>12. /\ r \in Seq(Unit) /\ Len(r) = (h + 1) - n /\ \A k \in 1..((h + 1) - n) : r[k] = u[n + k]
  BY <1>7, <1>8, <1>10, SubSeqProperties
<1>13. th.gap => u[1].key
  <2>. HAVE th.gap
  <2>1. CASE h = 0
    <3>1. th.held = <<>>
      BY <1>3, <1>6, <2>1
    <3>2. th.force
      BY <1>1, <3>1 DEF Whole
    <3>. QED  BY <1>4, <1>7, <2>1, <3>2
  <2>2. CASE h = 1
    <3>1. th.held # <<>>
      BY <1>3, <1>6, <2>2
    <3>2. th.held[1].key
      BY <1>1, <3>1 DEF Whole
    <3>. QED  BY <1>7, <2>2, <3>2
  <2>. QED  BY <2>1, <2>2
<1>14. Len(r) <= depth
  BY <1>1, <1>8, <1>12
<1>15. th.gap => (s = <<>> \/ s[1].key)
  <2>1. n = 0 => s = <<>>
    BY <1>11
  <2>2. n # 0 => s[1] = u[1]
    <3>1. n # 0 => 1 \in 1..n
      BY <1>8
    <3>. QED  BY <1>11, <3>1
  <2>. QED  BY <1>13, <2>1, <2>2
<1>16. s = <<>> => r # <<>> /\ (th.gap => r[1].key)
  <2>. HAVE s = <<>>
  <2>1. n = 0
    BY <1>11
  <2>2. 1 \in 1..((h + 1) - n) /\ n + 1 = 1
    BY <1>8, <2>1
  <2>3. r[1] = u[1] /\ r # <<>>
    BY <1>12, <2>1, <2>2
  <2>. QED  BY <1>13, <2>3
<1>17. Len(s) > 1 => r = <<>>
  BY <1>8, <1>11, <1>12
<1>18. depth = 0 => Len(s) = 1 /\ s[1].pic = V!Picture
  <2>. HAVE depth = 0
  <2>1. h = 0 /\ back = 0
    BY <1>3, <1>6, <1>8
  <2>2. n = 1
    BY <1>8, <2>1
  <2>3. Len(s) = 1 /\ s[1] = u[1]
    BY <1>11, <2>2
  <2>4. u[1] = x
    BY <1>7, <2>1
  <2>. QED  BY <1>4, <2>3, <2>4
<1>19. Split(s, r)
  BY <1>11, <1>12, <1>14, <1>15, <1>16, <1>17, <1>18 DEF Split
<1>. QED  BY <1>9, <1>10, <1>19

LEMMA HandleKeeps ==
    ASSUME PicturesInv, V!Turn, ~V!NeedsEncoder, NEW after \in [owed : BOOLEAN, kept : Nat],
           V!Handle(V!Picture, after), UNCHANGED <<news, untold>>,
           th.use \/ (~after.owed /\ after.kept = desk.pic)
    PROVE  PicturesInv'
<1>1. /\ UNCHANGED <<desk, host, ctl, arrived, depth>> /\ th.pc = "loop"
  BY DEF V!Turn
<1>2. /\ PicturesOK /\ Whole /\ Shows /\ th \in ThreadType /\ V!Running
      /\ \A k \in DOMAIN lane : lane[k].gap => lane[k].key
  BY <1>1 DEF PicturesInv, PicturesOK, Whole, V!StreamIsWhole, V!Running
<1>3. CASE Len(lane) = LaneRoom /\ V!Skip(after) /\ UNCHANGED <<th, lane>>
  <2>1. src' \in [owed : BOOLEAN, kept : Nat] /\ src'.owed
    BY <1>3 DEF V!Skip
  <2>2. PicturesOK'
    BY <1>1, <1>2, <1>3, <2>1 DEF PicturesOK
  <2>3. Whole' /\ Shows'
    BY <1>1, <1>2, <1>3, <2>1 DEF Whole, V!StreamIsWhole, V!NeedsEncoder, Shows
  <2>4. V!Running' => Obeyed' /\ Reported'
    BY <1>1, <1>2, <1>3, QuietKeeps
  <2>. QED  BY <2>2, <2>3, <2>4 DEF PicturesInv
<1>4. CASE /\ Len(lane) < LaneRoom /\ src' = after
           /\ \E back \in 0..depth :
                LET u == V!Units(V!Picture)
                    n == IF Len(u) > back THEN Len(u) - back ELSE 0
                IN V!Send(SubSeq(u, 1, n), SubSeq(u, n + 1, Len(u)))
  <2>1. PICK back \in 0..depth :
                LET u == V!Units(V!Picture)
                    n == IF Len(u) > back THEN Len(u) - back ELSE 0
                IN V!Send(SubSeq(u, 1, n), SubSeq(u, n + 1, Len(u)))
    BY <1>4
  <2>2. PICK u : u = V!Units(V!Picture)
    OBVIOUS
  <2>3. PICK n : n = IF Len(u) > back THEN Len(u) - back ELSE 0
    OBVIOUS
  <2>4. PICK units : units = SubSeq(u, 1, n)
    OBVIOUS
  <2>5. PICK rest : rest = SubSeq(u, n + 1, Len(u))
    OBVIOUS
  <2>6. V!Send(units, rest)
    BY <2>1, <2>2, <2>3, <2>4, <2>5
  <2>7. /\ units \in Seq(Unit) /\ rest \in Seq(Unit) /\ Len(rest) <= depth
        /\ th.gap => (units = <<>> \/ units[1].key)
        /\ units = <<>> => /\ rest # <<>>
                           /\ th.gap => rest[1].key
        /\ Len(units) > 1 => rest = <<>>
        /\ depth = 0 => Len(units) = 1 /\ units[1].pic = V!Picture
    <3>1. Split(SubSeq(u, 1, n), SubSeq(u, n + 1, Len(u)))
      BY <2>2, <2>3, UnitFacts
    <3>2. Split(units, rest)
      BY <2>4, <2>5, <3>1
    <3>. QED  BY <3>2 DEF Split
  <2>8. /\ lane' \in Seq(LaneUnit) /\ Len(lane') <= LaneRoom
        /\ \A k \in DOMAIN lane' : lane'[k].gap => lane'[k].key
        /\ \E lost \in BOOLEAN :
              /\ th' = [th EXCEPT !.held = rest, !.force = lost,
                                  !.gap = IF units = <<>> THEN th.gap ELSE lost]
              /\ lost => Len(units) > 1
        /\ Len(units) = 1 => lane' # <<>> /\ lane'[Len(lane')].pic = units[1].pic
    BY <1>2, <1>4, <2>6, <2>7, SendFacts
  <2>9. PICK lost \in BOOLEAN :
              /\ th' = [th EXCEPT !.held = rest, !.force = lost,
                                  !.gap = IF units = <<>> THEN th.gap ELSE lost]
              /\ lost => Len(units) > 1
    BY <2>8
  <2>10. /\ th.gap \in BOOLEAN
    BY <1>2 DEF ThreadType
  <2>11. PICK g \in BOOLEAN : g = IF units = <<>> THEN th.gap ELSE lost
    BY <2>10
  <2>12. th' = [th EXCEPT !.held = rest, !.force = lost, !.gap = g]
    BY <2>9, <2>11
  <2>13. /\ th' \in ThreadType /\ th'.held = rest /\ th'.force = lost /\ th'.gap = g
         /\ th'.pc = th.pc /\ th'.use = th.use /\ th'.enc = th.enc /\ th'.level = th.level
         /\ th'.active = th.active /\ th'.list = th.list /\ th'.paused = th.paused
         /\ th'.service = th.service
    BY <1>2, <2>7, <2>12 DEF ThreadType
  <2>14. PicturesOK'
    BY <1>1, <1>2, <1>4, <2>8, <2>13 DEF PicturesOK
  <2>15. ~V!NeedsEncoder' /\ th.level # "none" /\ th'.enc # "none"
    <3>1. th.level # "none"
      BY <1>2 DEF ThreadType, Levels
    <3>. QED  BY <2>13, <3>1 DEF V!NeedsEncoder
  <2>16. th'.gap => IF th'.held = <<>> THEN th'.force ELSE th'.held[1].key
    <3>1. CASE units = <<>>
      <4>1. g = th.gap
        BY <2>11, <3>1
      <4>. QED  BY <2>7, <2>13, <3>1, <4>1
    <3>2. CASE units # <<>>
      <4>1. g = lost
        BY <2>11, <3>2
      <4>. QED  BY <2>7, <2>9, <2>13, <4>1
    <3>. QED  BY <3>1, <3>2
  <2>17. Whole'
    BY <1>1, <2>7, <2>8, <2>13, <2>15, <2>16 DEF Whole, V!StreamIsWhole
  <2>18. Shows'
    <3>. SUFFICES ASSUME depth = 0, ~th'.use PROVE Latest' = [of |-> th'.active, v |-> src'.kept]
      BY <1>1 DEF Shows
    <3>1. ~th.use /\ src'.kept = desk.pic
      BY <1>4, <2>13
    <3>2. Latest' = V!Picture
      BY <2>7, <2>8 DEF Latest
    <3>. QED  BY <2>13, <3>1, <3>2 DEF V!Picture
  <2>19. V!Running' => Obeyed' /\ Reported'
    BY <1>1, <1>2, <2>13, QuietKeeps
  <2>. QED  BY <2>14, <2>17, <2>18, <2>19 DEF PicturesInv
<1>5. CASE /\ th' = [th EXCEPT !.enc = "none", !.held = <<>>, !.force = FALSE]
           /\ src' = after /\ UNCHANGED lane
  <2>1. <<>> \in Seq(Unit)
    OBVIOUS
  <2>2. /\ th' \in ThreadType /\ th'.enc = "none" /\ th'.held = <<>>
        /\ th'.pc = th.pc /\ th'.level = th.level
        /\ th'.active = th.active /\ th'.list = th.list /\ th'.paused = th.paused
        /\ th'.service = th.service
    BY <1>2, <1>5, <2>1 DEF ThreadType
  <2>3. V!NeedsEncoder'
    <3>1. th.level # "none"
      BY <1>2 DEF ThreadType, Levels
    <3>. QED  BY <2>2, <3>1 DEF V!NeedsEncoder
  <2>4. PicturesOK'
    BY <1>1, <1>2, <1>5, <2>2 DEF PicturesOK
  <2>5. Whole'
    BY <1>1, <1>5, <2>2, <2>3, NewEncoderWhole
  <2>6. Shows'
    BY <2>3 DEF Shows
  <2>7. V!Running' => Obeyed' /\ Reported'
    BY <1>1, <1>2, <2>2, QuietKeeps
  <2>. QED  BY <2>4, <2>5, <2>6, <2>7 DEF PicturesInv
<1>. QED  BY <1>3, <1>4, <1>5 DEF V!Handle

LEMMA TurnSteps ==
    ASSUME PicturesInv, V!CheckDisplays \/ V!MakeEncoder \/ V!Probe \/ V!ServicePicture
                        \/ V!OwnPicture \/ V!Lost
    PROVE  PicturesInv'
<1>1. V!Turn /\ UNCHANGED <<desk, host, ctl, arrived, depth>> /\ th.pc = "loop" /\ V!Running
  BY DEF V!CheckDisplays, V!MakeEncoder, V!Probe, V!ServicePicture, V!OwnPicture, V!Lost, V!Turn,
         V!Running
<1>2. /\ PicturesOK /\ Whole /\ Shows /\ th \in ThreadType /\ news \in Seq(Report)
      /\ src \in [owed : BOOLEAN, kept : Nat] /\ Obeyed /\ Reported
      /\ desk \in [count : {1, 2}, pic : Nat \ {0}, secure : BOOLEAN, grant : BOOLEAN]
  BY <1>1 DEF PicturesInv, PicturesOK
<1>3. CASE V!CheckDisplays
  <2>1. /\ th' = [th EXCEPT !.list = desk.count]
        /\ news' = Append(news, [list |-> desk.count, active |-> th.active])
        /\ untold' = untold \ {"display"} /\ UNCHANGED <<src, lane>>
    BY <1>3 DEF V!CheckDisplays, V!Tell
  <2>2. /\ th' \in ThreadType /\ th'.list = desk.count /\ th'.active = th.active
        /\ th'.enc = th.enc /\ th'.level = th.level /\ th'.held = th.held /\ th'.gap = th.gap
        /\ th'.force = th.force /\ th'.pc = th.pc /\ th'.use = th.use
        /\ th'.paused = th.paused /\ th'.service = th.service
    BY <1>2, <2>1 DEF ThreadType
  <2>3. PICK r \in Report : r = [list |-> desk.count, active |-> th.active]
    BY <1>2 DEF Report, ThreadType
  <2>4. news' \in Seq(Report) /\ news' # <<>> /\ news'[Len(news')] = r
    BY <1>2, <2>1, <2>3, AppendProperties
  <2>5. PicturesOK'
    BY <1>1, <1>2, <2>1, <2>2, <2>4 DEF PicturesOK
  <2>6. Whole'
    BY <1>1, <2>1, <2>2, SameEncoderWhole
  <2>7. Shows'
    BY <1>1, <1>2, <2>1, <2>2 DEF Shows, V!NeedsEncoder, Latest
  <2>8. Obeyed'
    <3>1. RateNow' = RateNow /\ Said(th'.paused) = Said(th.paused) /\ Said(th'.service) = Said(th.service)
      BY <1>1, <2>1, <2>2 DEF RateNow
    <3>. QED  BY <1>1, <1>2, <3>1 DEF Obeyed
  <2>9. Reported'
    BY <2>2, <2>3, <2>4 DEF Reported
  <2>. QED  BY <2>5, <2>6, <2>7, <2>8, <2>9 DEF PicturesInv
<1>4. ASSUME V!GiveUp PROVE PicturesInv'
  <2>1. th' = [th EXCEPT !.pc = "failed"] /\ UNCHANGED <<news, src, lane, untold>>
    BY <1>4 DEF V!GiveUp
  <2>2. /\ th' \in ThreadType /\ th'.pc = "failed" /\ th'.enc = th.enc /\ th'.level = th.level
        /\ th'.held = th.held /\ th'.gap = th.gap /\ th'.force = th.force
    BY <1>2, <2>1 DEF ThreadType
  <2>3. PicturesOK'
    BY <1>1, <1>2, <2>1, <2>2 DEF PicturesOK
  <2>4. Whole'
    BY <1>1, <2>1, <2>2, SameEncoderWhole
  <2>5. Shows'
    BY <2>2 DEF Shows
  <2>6. ~V!Running'
    BY <2>2 DEF V!Running
  <2>. QED  BY <2>3, <2>4, <2>5, <2>6 DEF PicturesInv
<1>5. CASE V!MakeEncoder
  <2>1. CASE /\ src' = [src EXCEPT !.owed = TRUE]
             /\ th' = [th EXCEPT !.enc = th.level, !.held = <<>>, !.force = TRUE]
             /\ UNCHANGED <<news, lane, untold>>
    <3>1. <<>> \in Seq(Unit)
      OBVIOUS
    <3>2. /\ th' \in ThreadType /\ th'.held = <<>> /\ th'.force = TRUE
          /\ th'.pc = th.pc /\ th'.level = th.level
          /\ th'.active = th.active /\ th'.list = th.list /\ th'.paused = th.paused
          /\ th'.service = th.service
      BY <1>2, <2>1, <3>1 DEF ThreadType, Levels
    <3>3. src' \in [owed : BOOLEAN, kept : Nat] /\ src'.owed
      BY <1>2, <2>1
    <3>4. PicturesOK'
      BY <1>1, <1>2, <2>1, <3>2, <3>3 DEF PicturesOK
    <3>5. Whole'
      BY <1>1, <2>1, <3>2, NewEncoderWhole
    <3>6. Shows'
      BY <3>3 DEF Shows
    <3>7. V!Running' => Obeyed' /\ Reported'
      BY <1>1, <2>1, <3>2, QuietKeeps
    <3>. QED  BY <3>4, <3>5, <3>6, <3>7 DEF PicturesInv
  <2>. QED  BY <1>4, <1>5, <2>1 DEF V!MakeEncoder, V!Owe
<1>6. CASE V!Probe
  <2>1. /\ th' = [th EXCEPT !.use = ~th.use, !.force = TRUE] /\ src' = [src EXCEPT !.owed = TRUE]
        /\ UNCHANGED <<news, lane, untold>>
    BY <1>6 DEF V!Probe, V!Owe
  <2>2. /\ th' \in ThreadType /\ th'.held = th.held /\ th'.force = TRUE /\ th'.enc = th.enc
        /\ th'.pc = th.pc /\ th'.level = th.level /\ th'.gap = th.gap
        /\ th'.active = th.active /\ th'.list = th.list /\ th'.paused = th.paused
        /\ th'.service = th.service
    BY <1>2, <2>1 DEF ThreadType
  <2>3. src' \in [owed : BOOLEAN, kept : Nat] /\ src'.owed
    BY <1>2, <2>1
  <2>4. PicturesOK'
    BY <1>1, <1>2, <2>1, <2>2, <2>3 DEF PicturesOK
  <2>5. Whole'
    BY <1>1, <2>1, <2>2, SameEncoderWhole
  <2>6. Shows'
    BY <2>3 DEF Shows
  <2>7. V!Running' => Obeyed' /\ Reported'
    BY <1>1, <2>1, <2>2, QuietKeeps
  <2>. QED  BY <2>4, <2>5, <2>6, <2>7 DEF PicturesInv
<1>7. CASE V!ServicePicture
  <2>1. V!Handle(V!Picture, src) /\ th.use /\ ~V!NeedsEncoder /\ UNCHANGED <<news, untold>>
    BY <1>7 DEF V!ServicePicture
  <2>. QED  BY <1>1, <1>2, <2>1, HandleKeeps
<1>8. CASE V!OwnPicture
  <2>1. PICK after \in [owed : BOOLEAN, kept : Nat] : after = [owed |-> FALSE, kept |-> desk.pic]
    BY <1>2
  <2>2. V!Handle(V!Picture, after) /\ ~V!NeedsEncoder /\ UNCHANGED <<news, untold>>
    BY <1>8, <2>1 DEF V!OwnPicture
  <2>3. ~after.owed /\ after.kept = desk.pic
    BY <2>1
  <2>. QED  BY <1>1, <2>2, <2>3, HandleKeeps
<1>9. CASE V!Lost
  <2>1. /\ \/ th' = [th EXCEPT !.use = TRUE, !.force = TRUE]
           \/ th' = [th EXCEPT !.pc = "lost"]
        /\ UNCHANGED <<news, src, lane, untold>>
    BY <1>9 DEF V!Lost
  <2>2. /\ th' \in ThreadType /\ th'.held = th.held /\ (th.force => th'.force) /\ th'.enc = th.enc
        /\ th'.level = th.level /\ th'.gap = th.gap
        /\ th'.active = th.active /\ th'.list = th.list /\ th'.paused = th.paused
        /\ th'.service = th.service /\ (th'.use \/ th'.pc = "lost")
    <3>1. CASE th' = [th EXCEPT !.use = TRUE, !.force = TRUE]
      BY <1>2, <3>1 DEF ThreadType
    <3>2. CASE th' = [th EXCEPT !.pc = "lost"]
      BY <1>2, <3>2 DEF ThreadType
    <3>. QED  BY <2>1, <3>1, <3>2
  <2>3. PicturesOK'
    BY <1>1, <1>2, <2>1, <2>2 DEF PicturesOK
  <2>4. Whole'
    BY <1>1, <2>1, <2>2, SameEncoderWhole
  <2>5. Shows'
    BY <2>2 DEF Shows
  <2>6. V!Running' => Obeyed' /\ Reported'
    BY <1>1, <2>1, <2>2, QuietKeeps
  <2>. QED  BY <2>3, <2>4, <2>5, <2>6 DEF PicturesInv
<1>. QED  BY <1>3, <1>5, <1>6, <1>7, <1>8, <1>9

LEMMA RecoverKeeps == ASSUME PicturesInv, V!Recover PROVE PicturesInv'
<1>1. UNCHANGED <<desk, host, ctl, arrived, depth>> /\ th.pc = "lost" /\ V!Running
  BY DEF V!Recover, V!Running
<1>2. /\ PicturesOK /\ Whole /\ Shows /\ th \in ThreadType /\ Obeyed /\ Reported
      /\ desk \in [count : {1, 2}, pic : Nat \ {0}, secure : BOOLEAN, grant : BOOLEAN]
  BY <1>1 DEF PicturesInv, PicturesOK
<1>3. CASE V!GiveUp
  <2>1. th' = [th EXCEPT !.pc = "failed"] /\ UNCHANGED <<news, src, lane, untold>>
    BY <1>3 DEF V!GiveUp
  <2>2. /\ th' \in ThreadType /\ th'.pc = "failed" /\ th'.enc = th.enc /\ th'.level = th.level
        /\ th'.held = th.held /\ th'.gap = th.gap /\ th'.force = th.force
    BY <1>2, <2>1 DEF ThreadType
  <2>3. PicturesOK' /\ Shows'
    BY <1>1, <1>2, <2>1, <2>2 DEF PicturesOK, Shows
  <2>4. Whole'
    BY <1>1, <2>1, <2>2, SameEncoderWhole
  <2>5. ~V!Running'
    BY <2>2 DEF V!Running
  <2>. QED  BY <2>3, <2>4, <2>5 DEF PicturesInv
<1>4. CASE ~V!GiveUp
  <2>1. PICK a : a = V!Least(th.active, desk.count - 1)
    OBVIOUS
  <2>2. /\ th' = [th EXCEPT !.pc = "loop", !.list = desk.count, !.active = a,
                            !.enc = "none", !.held = <<>>]
        /\ untold' = IF a # th.active \/ desk.count # th.list THEN untold \cup {"display"} ELSE untold
        /\ src' = V!FreshSource /\ UNCHANGED <<news, lane>>
    BY <1>4, <2>1 DEF V!Recover
  <2>3. a \in {0, 1}
    <3>1. th.active \in {0, 1} /\ desk.count \in {1, 2}
      BY <1>2 DEF ThreadType
    <3>. QED  BY <2>1, <3>1 DEF V!Least
  <2>4. <<>> \in Seq(Unit)
    OBVIOUS
  <2>5. /\ th' \in ThreadType /\ th'.held = <<>> /\ th'.enc = "none" /\ th'.level = th.level
        /\ th'.active = a /\ th'.list = desk.count /\ th'.paused = th.paused
        /\ th'.service = th.service
    BY <1>2, <2>2, <2>3, <2>4 DEF ThreadType
  <2>6. V!NeedsEncoder'
    <3>1. th.level # "none"
      BY <1>2 DEF ThreadType, Levels
    <3>. QED  BY <2>5, <3>1 DEF V!NeedsEncoder
  <2>7. PicturesOK'
    BY <1>1, <1>2, <2>2, <2>5 DEF PicturesOK, V!FreshSource
  <2>8. Whole'
    BY <1>1, <2>2, <2>5, <2>6, NewEncoderWhole
  <2>9. Shows'
    BY <2>6 DEF Shows
  <2>10. Obeyed'
    <3>1. ("level" \in untold') <=> ("level" \in untold)
      BY <2>2
    <3>2. RateNow' = RateNow /\ Said(th'.paused) = Said(th.paused) /\ Said(th'.service) = Said(th.service)
      BY <1>1, <2>5, <3>1 DEF RateNow
    <3>. QED  BY <1>1, <1>2, <3>2 DEF Obeyed
  <2>11. Reported'
    <3>. SUFFICES ASSUME "display" \notin untold' PROVE Reported'
      BY DEF Reported
    <3>1. "display" \notin untold /\ a = th.active /\ desk.count = th.list
      BY <2>2
    <3>. QED  BY <1>1, <1>2, <2>2, <2>5, <3>1 DEF Reported
  <2>. QED  BY <2>7, <2>8, <2>9, <2>10, <2>11 DEF PicturesInv
<1>. QED  BY <1>3, <1>4

-----------------------------------------------------------------------------
(* VideoStream: the lane and the PC *)

LEMMA DeliverKeeps == ASSUME PicturesInv, V!Deliver PROVE PicturesInv'
<1>1. /\ lane # <<>> /\ arrived' = Head(lane).pic /\ lane' = Tail(lane)
      /\ UNCHANGED <<desk, host, ctl, news, th, src, depth, untold>>
  BY DEF V!Deliver
<1>2. /\ PicturesOK /\ Whole /\ Shows /\ lane \in Seq(LaneUnit) /\ Len(lane) <= LaneRoom
      /\ (V!Running => Obeyed /\ Reported)
  BY DEF PicturesInv, PicturesOK
<1>3. PICK n \in Nat : n + 1 = Len(lane)
  <2>1. Len(lane) \in Nat /\ Len(lane) # 0
    BY <1>1, <1>2
  <2>2. Len(lane) - 1 \in Nat /\ (Len(lane) - 1) + 1 = Len(lane)
    BY <2>1
  <2>. QED  BY <2>2
<1>4. /\ lane' \in Seq(LaneUnit) /\ Len(lane') = n /\ Head(lane) = lane[1] /\ Head(lane) \in LaneUnit
      /\ DOMAIN lane' = 1..n /\ DOMAIN lane = 1..(n + 1)
      /\ \A k \in 1..n : lane'[k] = lane[k + 1]
  BY <1>1, <1>2, <1>3, HeadTailProperties
<1>5. PicturesOK'
  <2>1. arrived' \in Shown
    BY <1>1, <1>4 DEF LaneUnit
  <2>2. Len(lane') <= LaneRoom
    BY <1>2, <1>3, <1>4, PicturesAssumption
  <2>. QED  BY <1>1, <1>2, <1>4, <2>1, <2>2 DEF PicturesOK
<1>6. Whole'
  <2>1. \A k \in DOMAIN lane' : lane'[k].gap => lane'[k].key
    <3>. TAKE k \in DOMAIN lane'
    <3>1. k \in 1..n /\ k + 1 \in 1..(n + 1)
      BY <1>4
    <3>2. lane[k + 1].gap => lane[k + 1].key
      BY <1>2, <1>4, <3>1 DEF Whole, V!StreamIsWhole
    <3>. QED  BY <1>4, <3>1, <3>2
  <2>. QED  BY <1>1, <1>2, <2>1 DEF Whole, V!StreamIsWhole, V!NeedsEncoder
<1>7. Latest' = Latest
  <2>1. CASE n = 0
    <3>1. lane' = <<>> /\ Len(lane) = 1
      BY <1>3, <1>4, <2>1
    <3>. QED  BY <1>1, <1>4, <3>1 DEF Latest
  <2>2. CASE n # 0
    <3>1. n \in 1..n /\ lane' # <<>>
      BY <1>4, <2>2
    <3>2. lane'[Len(lane')] = lane[Len(lane)]
      BY <1>3, <1>4, <3>1
    <3>. QED  BY <1>1, <3>1, <3>2 DEF Latest
  <2>. QED  BY <2>1, <2>2
<1>8. Shows'
  BY <1>1, <1>2, <1>7 DEF Shows, V!NeedsEncoder
<1>9. V!Running' => Obeyed' /\ Reported'
  BY <1>1, <1>2 DEF V!Running, Obeyed, Reported, RateNow
<1>. QED  BY <1>5, <1>6, <1>8, <1>9 DEF PicturesInv

LEMMA PcKeeps ==
    ASSUME PicturesInv, V!Environment
    PROVE  PicturesInv'
<1>1. UNCHANGED <<host, ctl, news, th, src, lane, arrived, depth, untold>>
  BY DEF V!Environment, V!Paint, V!Plug, V!SecureDesktop, V!GrantEnds, V!Change
<1>2. /\ PicturesOK
      /\ desk \in [count : {1, 2}, pic : Nat \ {0}, secure : BOOLEAN, grant : BOOLEAN]
  BY DEF PicturesInv, PicturesOK
<1>3. desk' \in [count : {1, 2}, pic : Nat \ {0}, secure : BOOLEAN, grant : BOOLEAN]
  <2>1. \/ desk' = [desk EXCEPT !.pic = desk.pic + 1] \/ desk' = [desk EXCEPT !.count = 3 - desk.count]
        \/ desk' = [desk EXCEPT !.secure = ~desk.secure] \/ desk' = [desk EXCEPT !.grant = FALSE]
    BY DEF V!Environment, V!Paint, V!Plug, V!SecureDesktop, V!GrantEnds, V!Change
  <2>2. desk.pic + 1 \in Nat \ {0} /\ 3 - desk.count \in {1, 2} /\ (~desk.secure) \in BOOLEAN
    BY <1>2
  <2>3. CASE desk' = [desk EXCEPT !.pic = desk.pic + 1]
    BY <1>2, <2>2, <2>3
  <2>4. CASE desk' = [desk EXCEPT !.count = 3 - desk.count]
    BY <1>2, <2>2, <2>4
  <2>5. CASE desk' = [desk EXCEPT !.secure = ~desk.secure]
    BY <1>2, <2>2, <2>5
  <2>6. CASE desk' = [desk EXCEPT !.grant = FALSE]
    BY <1>2, <2>6
  <2>. QED  BY <2>1, <2>3, <2>4, <2>5, <2>6
<1>4. PicturesOK'
  BY <1>1, <1>2, <1>3 DEF PicturesOK
<1>5. Whole' /\ Shows'
  BY <1>1 DEF PicturesInv, Whole, V!StreamIsWhole, V!NeedsEncoder, Shows, Latest
<1>6. V!Running' => Obeyed' /\ Reported'
  BY <1>1 DEF PicturesInv, V!Running, Obeyed, Reported, RateNow
<1>. QED  BY <1>4, <1>5, <1>6 DEF PicturesInv

-----------------------------------------------------------------------------
(* VideoStream: theorems *)

LEMMA PicturesUnchanged == ASSUME PicturesInv, UNCHANGED pictures PROVE PicturesInv'
BY DEF pictures, PicturesInv, PicturesOK, Whole, V!StreamIsWhole, V!NeedsEncoder, Shows, Latest,
       V!Running, Obeyed, Reported, RateNow

LEMMA PicturesStep == ASSUME PicturesInv, NextAll PROVE PicturesInv'
<1>1. CASE OnBroker(Next) \/ OnFiles(D!Next) \/ OnSignaling(S!Next)
  BY <1>1, PicturesUnchanged DEF OnBroker, OnFiles, OnSignaling
<1>2. CASE OnPictures(V!Next)
  <2>1. V!Host \/ V!Thread \/ V!Deliver \/ V!Environment
    BY <1>2 DEF OnPictures, V!Next
  <2>2. CASE V!Host
    BY <2>2, AskSteps, NewsKeeps DEF V!Host
  <2>3. CASE V!Thread
    BY <2>3, CtlKeeps, TurnSteps, RecoverKeeps DEF V!Thread
  <2>. QED  BY <2>1, <2>2, <2>3, DeliverKeeps, PcKeeps
<1>. QED  BY <1>1, <1>2 DEF NextAll

LEMMA PicturesAlways == SpecAll => []PicturesInv
<1>1. InitAll => PicturesInv
  BY PicturesInit DEF InitAll
<1>2. PicturesInv /\ UNCHANGED allVars => PicturesInv'
  BY PicturesUnchanged DEF allVars
<1>. QED  BY <1>1, <1>2, PicturesStep, PTL DEF SpecAll

\* try_send_video and the encoder: a unit that follows one the lane refused is a key picture,
\* also when the encoder had held it back, whatever the lane's room.
THEOREM StreamsStayWhole == SpecAll => []StreamIsWhole
<1>1. PicturesInv => StreamIsWhole
  BY DEF PicturesInv, Whole, StreamIsWhole
<1>. QED  BY <1>1, PicturesAlways, PTL

\* The session loop and the video thread, which talk through two queues, agree whenever
\* both queues are empty, but for the cases in which the code tells nobody.
THEOREM HostAlwaysKnows == SpecAll => []HostKnows
<1>1. PicturesInv => HostKnows
  <2>. SUFFICES ASSUME PicturesInv, V!Running, ctl = <<>>, news = <<>>
                PROVE  /\ "display" \notin untold => (host.active = th.active /\ host.list = th.list)
                       /\ "level" \notin untold => host.level = th.level
                       /\ th.paused = ~host.view
                       /\ th.service = host.elevated
    BY DEF HostKnows, V!HostKnows
  <2>1. Obeyed /\ Reported /\ th \in ThreadType /\ host \in LoopType
    BY DEF PicturesInv, PicturesOK
  <2>2. /\ RateNow = host.level /\ Said(th.paused) = Said(~host.view)
        /\ Said(th.service) = Said(host.elevated)
    BY <2>1, ToldEmpty DEF Obeyed
  <2>3. "display" \notin untold => (host.active = th.active /\ host.list = th.list)
    <3>1. DOMAIN ctl = {}
      OBVIOUS
    <3>. QED  BY <2>1, <3>1 DEF Reported
  <2>4. "level" \notin untold => host.level = th.level
    BY <2>2 DEF RateNow
  <2>5. th.paused \in BOOLEAN /\ host.view \in BOOLEAN /\ th.service \in BOOLEAN /\ host.elevated \in BOOLEAN
    BY <2>1 DEF ThreadType, LoopType
  <2>6. th.paused = ~host.view
    BY <2>2, <2>5, SaidIs
  <2>7. th.service = host.elevated
    BY <2>2, <2>5, SaidIs
  <2>. QED  BY <2>3, <2>4, <2>6, <2>7
<1>. QED  BY <1>1, PicturesAlways, PTL

\* The thread owes a picture until it has sent the one the capturer kept; so a desktop at
\* rest has been shown when nothing is owed and the lane is empty.
THEOREM LastPictureShown == SpecAll => []LastPictureArrives
<1>1. PicturesInv => LastPictureArrives
  BY DEF PicturesInv, Shows, Latest, LastPictureArrives, V!LastPictureArrives, V!Settled, V!Picture
<1>. QED  BY <1>1, PicturesAlways, PTL

-----------------------------------------------------------------------------
(* DeviceFiles: the inductive invariant *)

Book == SUBSET Devices
Switches == [incoming : BOOLEAN, unattended : BOOLEAN, startup : BOOLEAN]
Saved == {"settings", "book"}
Saves == {"open", "write", "rename"}
Steps == [do : Saves, f : {"settings"}, v : Switches] \cup [do : Saves, f : {"book"}, v : Book]
           \cup [do : Saves, f : {"secret"}, v : {"set"}] \cup [do : {"remove"}, f : {"secret"}]
           \cup [do : {"incoming", "apply", "autostart", "answer"}]
           \cup [do : {"revoked"}, devs : Book]

FilesOK ==
    /\ up \in BOOLEAN /\ told \in BOOLEAN /\ todo \in Seq(Steps)
    /\ DOMAIN mem = D!Files /\ mem.settings \in Switches /\ mem.book \in Book
    /\ DOMAIN file = D!Files /\ DOMAIN tmp = D!Files /\ DOMAIN kept = D!Files
    /\ D!Value("settings") \in Switches /\ D!Value("book") \in Book
    /\ page \in Switches /\ saves \in Seq(Switches) /\ gone \in Book
    /\ engine \in [incoming : BOOLEAN, unattended : BOOLEAN, authorized : Book]
    /\ ~up => todo = <<>>

OnDisk == {"open", "write", "rename", "remove"}
\* Steps on the file that are left.
Ahead == IF todo = <<>> \/ todo[1].do \notin OnDisk THEN 0 ELSE D!Left(todo[1])
DoAt(n) == CASE n = 3 -> "open" [] n = 2 -> "write" [] OTHER -> "rename"

\* The entry of Windows is touched after the engine was told.
Ordered ==
    \A i, j \in 1..Len(todo) :
       todo[i].do = "autostart" /\ todo[j].do \in {"incoming", "apply"} => j < i

\* A command begins with the steps on one file, and those of a save carry what is in
\* memory; after them come the others: when it is the password's, apply alone.
Script ==
    /\ Ahead <= Len(todo) /\ Ordered
    /\ \A i \in 1..Len(todo) : i > Ahead =>
          /\ todo[i].do \notin OnDisk
          /\ (Ahead > 0 /\ todo[1].f = "secret") => todo[i].do = "apply"
    /\ (Ahead > 0 /\ todo[1].do # "remove") =>
          \A i \in 1..Len(todo) : i <= Ahead =>
             /\ todo[i].do = DoAt(Ahead - i + 1)
             /\ todo[i].f = todo[1].f /\ todo[i].v = todo[1].v
    /\ (Ahead > 0 /\ todo[1].f \in Saved) => todo[1].v = mem[todo[1].f]
    /\ (Ahead > 0 /\ todo[1].f = "secret") => Len(todo) > Ahead

Pending(x) == \E i \in 1..Len(todo) : todo[i].do = x

\* A file has what it must have, and a copy that is about to replace it is whole; memory
\* has it too, unless it is being saved.
Kept ==
    /\ \A f \in D!Files : kept[f] # D!None => D!Value(f) = kept[f][1]
    /\ (Ahead = 1 /\ todo[1].do = "rename") => tmp[todo[1].f] = <<todo[1].v>>
    /\ up => \A f \in D!Files \ {"secret"} :
                kept[f] = D!None \/ mem[f] = kept[f][1] \/ (Ahead > 0 /\ todo[1].f = f)

Wanted == D!Apply(mem, D!Value("secret"))
Same == engine.unattended = Wanted.unattended /\ engine.authorized = Wanted.authorized

\* The engine and the page follow what is in memory and the password, or are about to.
Follows ==
    up => /\ Pending("incoming") \/ engine.incoming = mem.settings.incoming
          /\ Pending("apply") \/ Same
          /\ (Ahead > 0 /\ todo[1].f = "secret") => Same
          /\ told \/ saves # <<>> \/ Pending("answer") \/ behind \/ page = mem.settings

\* Who was revoked is in no copy of the book; who is being revoked is not in memory, and
\* the engine is told before the user.
Leaving ==
    \A i \in 1..Len(todo) : todo[i].do = "revoked" =>
       /\ todo[i].devs \cap mem.book = {}
       /\ \A j \in 1..Len(todo) : todo[j].do = "apply" => j < i
Outside ==
    /\ gone \cap D!Value("book") = {}
    /\ up => gone \cap mem.book = {} /\ gone \cap engine.authorized = {}
    /\ Leaving

FilesInv == FilesOK /\ Script /\ Kept /\ Follows /\ Outside

-----------------------------------------------------------------------------
(* DeviceFiles: lemmas about the steps of a command *)

LEMMA StepFacts ==
    ASSUME NEW x \in Steps
    PROVE  /\ x.do \in OnDisk \cup {"incoming", "apply", "autostart", "answer", "revoked"}
           /\ x.do \in OnDisk => x.f \in Saved \cup {"secret"}
           /\ x.do = "remove" => x.f = "secret"
           /\ x.do = "revoked" => x.devs \in Book
           /\ (x.do \in Saves /\ x.f = "settings") => x.v \in Switches
           /\ (x.do \in Saves /\ x.f = "book") => x.v \in Book
BY DEF Steps, OnDisk, Saves, Saved

LEMMA AheadIs ==
    /\ Ahead \in {0, 1, 2, 3}
    /\ Ahead > 0 <=> (todo # <<>> /\ todo[1].do \in OnDisk)
    /\ (todo # <<>> /\ todo[1].do = "open") => Ahead = 3
    /\ (todo # <<>> /\ todo[1].do = "write") => Ahead = 2
    /\ (todo # <<>> /\ todo[1].do \in {"rename", "remove"}) => Ahead = 1
BY DEF Ahead, OnDisk, D!Left

\* The first k steps are gone.
Shifted(k) == /\ k \in Nat /\ k <= Len(todo) /\ todo' \in Seq(Steps) /\ Len(todo') = Len(todo) - k
              /\ \A i \in 1..Len(todo') : todo'[i] = todo[i + k]

LEMMA TailShifts ==
    ASSUME todo \in Seq(Steps), todo # <<>>, todo' = Tail(todo)
    PROVE  /\ Shifted(1) /\ Head(todo) = todo[1] /\ todo[1] \in Steps
           /\ Len(todo) \in Nat /\ Len(todo) > 0
<1>1. Len(todo) \in Nat /\ Len(todo) # 0
  OBVIOUS
<1>2. /\ Tail(todo) \in Seq(Steps) /\ Len(Tail(todo)) = Len(todo) - 1
      /\ \A i \in 1..Len(Tail(todo)) : Tail(todo)[i] = todo[i + 1]
      /\ Head(todo) = todo[1] /\ Head(todo) \in Steps
  BY HeadTailProperties
<1>. QED  BY <1>1, <1>2 DEF Shifted

LEMMA RestShifts ==
    ASSUME todo \in Seq(Steps), NEW k \in Nat, k <= Len(todo), todo' = SubSeq(todo, k + 1, Len(todo))
    PROVE  Shifted(k)
<1>1. PICK n \in Nat : n = Len(todo)
  OBVIOUS
<1>2. k + 1 \in Int /\ \A i \in (k + 1)..n : todo[i] \in Steps
  BY <1>1
<1>3. /\ SubSeq(todo, k + 1, n) \in Seq(Steps)
      /\ Len(SubSeq(todo, k + 1, n)) = IF k + 1 <= n THEN n - (k + 1) + 1 ELSE 0
      /\ \A i \in 1..(n - (k + 1) + 1) : SubSeq(todo, k + 1, n)[i] = todo[(k + 1) + i - 1]
  BY <1>1, <1>2, SubSeqProperties
<1>4. todo' \in Seq(Steps) /\ Len(todo') = n - k
  BY <1>1, <1>3
<1>5. ASSUME NEW i \in 1..(n - k) PROVE todo'[i] = todo[i + k]
  <2>1. i \in 1..(n - (k + 1) + 1) /\ (k + 1) + i - 1 = i + k
    BY <1>1
  <2>. QED  BY <1>1, <1>3, <2>1
<1>. QED  BY <1>1, <1>4, <1>5 DEF Shifted

LEMMA ShiftedLength ==
    ASSUME NEW k, Shifted(k)
    PROVE  todo' \in Seq(Steps) /\ Len(todo') \in Nat
<1>1. todo' \in Seq(Steps)
  BY DEF Shifted
<1>2. Len(todo') \in Nat
  BY <1>1
<1>. QED  BY <1>1, <1>2

\* A step that is pending stays so until its turn comes, and no other becomes so.
LEMMA PendingShifts ==
    ASSUME NEW k, Shifted(k), NEW x, \A i \in 1..k : todo[i].do # x
    PROVE  Pending(x)' <=> Pending(x)
<1>1. PICK n : n = Len(todo)
  OBVIOUS
<1>2. PICK m \in Nat : m = Len(todo')
  BY ShiftedLength
<1>3. n = m + k /\ k \in Nat /\ \A i \in 1..m : todo'[i] = todo[i + k]
  BY <1>1, <1>2 DEF Shifted
<1>4. ASSUME NEW i \in 1..n, todo[i].do = x PROVE \E j \in 1..m : todo'[j].do = x
  <2>1. i \notin 1..k
    BY <1>4
  <2>2. i - k \in 1..m /\ (i - k) + k = i
    BY <1>3, <2>1
  <2>. QED  BY <1>3, <1>4, <2>2
<1>5. ASSUME NEW i \in 1..m, todo'[i].do = x PROVE \E j \in 1..n : todo[j].do = x
  <2>1. i + k \in 1..n
    BY <1>3
  <2>. QED  BY <1>3, <1>5, <2>1
<1>. QED  BY <1>1, <1>2, <1>4, <1>5 DEF Pending

LEMMA LeavingShifts ==
    ASSUME NEW k, Shifted(k), Leaving, mem'.book = mem.book
    PROVE  Leaving'
<1>1. PICK n : n = Len(todo)
  OBVIOUS
<1>2. PICK m \in Nat : m = Len(todo')
  BY ShiftedLength
<1>3. n = m + k /\ k \in Nat /\ \A i \in 1..m : todo'[i] = todo[i + k]
  BY <1>1, <1>2 DEF Shifted
<1>4. ASSUME NEW i \in 1..m, todo'[i].do = "revoked"
      PROVE  /\ todo'[i].devs \cap mem.book = {}
             /\ \A j \in 1..m : todo'[j].do = "apply" => j < i
  <2>1. i + k \in 1..n /\ todo[i + k].do = "revoked"
    BY <1>3, <1>4
  <2>2. ASSUME NEW j \in 1..m, todo'[j].do = "apply" PROVE j < i
    <3>1. j + k \in 1..n /\ todo[j + k].do = "apply"
      BY <1>3, <2>2
    <3>2. j + k < i + k
      BY <1>1, <2>1, <3>1 DEF Leaving
    <3>. QED  BY <1>3, <3>2
  <2>. QED  BY <1>1, <1>3, <2>1, <2>2 DEF Leaving
<1>. QED  BY <1>2, <1>4 DEF Leaving

\* What is left of a command when steps on its file are done, or one of the others.
LEMMA ScriptShifts ==
    ASSUME FilesOK, Script, NEW k, Shifted(k), k > 0, k <= Ahead \/ (Ahead = 0 /\ k = 1),
           \A f \in Saved : mem'[f] = mem[f]
    PROVE  /\ Script' /\ Ahead' = IF k < Ahead THEN Ahead - k ELSE 0
           /\ Ahead' > 0 => /\ todo'[1].f = todo[1].f /\ todo'[1].v = todo[1].v
                            /\ todo'[1].do = DoAt(Ahead') /\ todo[1].do # "remove"
<1>1. PICK n : n = Len(todo)
  OBVIOUS
<1>2. PICK m \in Nat : m = Len(todo')
  BY ShiftedLength
<1>3. n = m + k /\ k \in Nat /\ (\A i \in 1..m : todo'[i] = todo[i + k]) /\ todo' \in Seq(Steps)
  BY <1>1, <1>2 DEF Shifted
<1>4. PICK a \in {0, 1, 2, 3} : a = Ahead
  BY AheadIs
<1>5. /\ a <= n
      /\ \A i \in 1..n : i > a => /\ todo[i].do \notin OnDisk
                                  /\ (a > 0 /\ todo[1].f = "secret") => todo[i].do = "apply"
  BY <1>1, <1>4 DEF Script
<1>8. Ordered'
  <2>1. ASSUME NEW i \in 1..m, NEW j \in 1..m, todo'[i].do = "autostart",
               todo'[j].do \in {"incoming", "apply"}
        PROVE  j < i
    <3>0. i + k \in 1..n /\ j + k \in 1..n
      BY <1>3
    <3>3. todo'[i] = todo[i + k] /\ todo'[j] = todo[j + k]
      BY <1>3
    <3>1. /\ i + k \in 1..n /\ j + k \in 1..n /\ todo[i + k].do = "autostart"
          /\ todo[j + k].do \in {"incoming", "apply"}
      BY <2>1, <3>0, <3>3
    <3>2. j + k < i + k
      BY <1>1, <3>1 DEF Script, Ordered
    <3>. QED  BY <1>3, <3>2
  <2>. QED  BY <1>2, <2>1 DEF Ordered
<1>6. CASE k < a
  <2>1. todo[1].do # "remove" /\ todo # <<>>
    BY <1>3, <1>4, <1>6, AheadIs
  <2>2. ASSUME NEW i \in 1..n, i <= a
        PROVE  todo[i].do = DoAt(a - i + 1) /\ todo[i].f = todo[1].f /\ todo[i].v = todo[1].v
    <3>1. (Ahead > 0 /\ todo[1].do # "remove") =>
             \A j \in 1..Len(todo) : j <= Ahead =>
                /\ todo[j].do = DoAt(Ahead - j + 1)
                /\ todo[j].f = todo[1].f /\ todo[j].v = todo[1].v
      BY DEF Script
    <3>2. a > 0
      BY <1>3, <1>4, <1>6
    <3>. QED  BY <1>1, <1>4, <2>1, <2>2, <3>1, <3>2
  <2>3. k + 1 \in 1..n /\ k + 1 <= a /\ a - (k + 1) + 1 = a - k /\ a - k \in {1, 2} /\ 1 \in 1..m
        /\ 1 + k = k + 1
    <3>1. n = m + k /\ k \in Nat /\ m \in Nat /\ a \in {0, 1, 2, 3}
      BY <1>2, <1>3, <1>4
    <3>2. a <= n
      BY <1>5
    <3>. QED  BY <1>6, <3>1, <3>2
  <2>4. todo'[1].do = DoAt(a - k) /\ todo'[1].f = todo[1].f /\ todo'[1].v = todo[1].v
    <3>1. todo'[1] = todo[k + 1]
      BY <1>3, <2>3
    <3>2. /\ todo[k + 1].do = DoAt(a - k) /\ todo[k + 1].f = todo[1].f
          /\ todo[k + 1].v = todo[1].v
      BY <2>2, <2>3
    <3>. QED  BY <3>1, <3>2
  <2>5. todo' # <<>>
    BY <1>2, <1>3, <2>3
  <2>6. Ahead' = a - k
    BY <2>3, <2>4, <2>5 DEF Ahead, DoAt, OnDisk, D!Left
  <2>7. ASSUME NEW i \in 1..m, i > a - k
        PROVE  todo'[i].do \notin OnDisk /\ (todo[1].f = "secret" => todo'[i].do = "apply")
    <3>1. i + k \in 1..n /\ i + k > a /\ a > 0
      BY <1>3, <1>6, <2>7
    <3>. QED  BY <1>3, <1>5, <3>1
  <2>8. ASSUME NEW i \in 1..m, i <= a - k
        PROVE  /\ todo'[i].do = DoAt((a - k) - i + 1)
               /\ todo'[i].f = todo'[1].f /\ todo'[i].v = todo'[1].v
    <3>1. i + k \in 1..n /\ i + k <= a /\ a - (i + k) + 1 = (a - k) - i + 1
      BY <1>3, <2>8
    <3>. QED  BY <1>3, <2>2, <2>4, <3>1
  <2>9. todo[1].f = "secret" => n > a
    BY <1>1, <1>3, <1>4, <1>6 DEF Script
  <2>10. todo[1].f \in Saved => todo[1].v = mem[todo[1].f]
    BY <1>3, <1>4, <1>6 DEF Script
  <2>11. a - k <= m /\ (n > a => m > a - k) /\ a - k > 0
    BY <1>3, <1>5, <1>6
  <2>12. Script'
    BY <1>2, <1>8, <2>4, <2>6, <2>7, <2>8, <2>9, <2>10, <2>11 DEF Script
  <2>. QED  BY <1>4, <1>6, <2>1, <2>4, <2>6, <2>12
<1>7. CASE ~(k < a)
  <2>1. ASSUME NEW i \in 1..m PROVE todo'[i].do \notin OnDisk
    <3>1. i + k \in 1..n /\ i + k > a
      BY <1>3, <1>7
    <3>. QED  BY <1>3, <1>5, <3>1
  <2>2. todo' = <<>> \/ (1 \in 1..m)
    BY <1>2, <1>3
  <2>3. Ahead' = 0
    BY <2>1, <2>2 DEF Ahead
  <2>4. Script'
    BY <1>2, <1>8, <2>1, <2>3 DEF Script
  <2>. QED  BY <1>4, <1>7, <2>3, <2>4
<1>. QED  BY <1>6, <1>7

-----------------------------------------------------------------------------
(* DeviceFiles: the commands *)

\* What follows the save of f in a command.
After(rest, f) == /\ rest \in Seq(Steps)
                  /\ \A i \in 1..Len(rest) : /\ rest[i].do \notin OnDisk
                                             /\ f = "secret" => rest[i].do = "apply"
                  /\ f = "secret" => Len(rest) > 0
                  /\ \A i, j \in 1..Len(rest) :
                       rest[i].do = "autostart" /\ rest[j].do \in {"incoming", "apply"} => j < i
\* What may be saved as f.
MayBe(f) == CASE f = "settings" -> Switches [] f = "book" -> Book [] OTHER -> {"set"}
\* A command that saves v as f begins.
Begins(f, v, rest) == /\ f \in Saved \cup {"secret"} /\ v \in MayBe(f)
                      /\ todo' = D!Write(f, v) \o rest /\ After(rest, f)
                      /\ f \in Saved => v = mem'[f]

LEMMA SaveBegins ==
    ASSUME NEW f, NEW v, NEW rest, Begins(f, v, rest)
    PROVE  /\ todo' \in Seq(Steps) /\ Len(todo') \in Nat /\ Len(todo') = 3 + Len(rest)
           /\ \A i \in 1..3 : /\ todo'[i].do = DoAt(4 - i)
                              /\ todo'[i].f = f /\ todo'[i].v = v
           /\ \A i \in 1..Len(rest) : todo'[3 + i] = rest[i]
           /\ Script' /\ Ahead' = 3 /\ todo'[1].f = f
<1>. DEFINE w == D!Write(f, v)
<1>1. /\ [do |-> "open", f |-> f, v |-> v] \in Steps /\ [do |-> "write", f |-> f, v |-> v] \in Steps
      /\ [do |-> "rename", f |-> f, v |-> v] \in Steps
  BY DEF Begins, MayBe, Saved, Steps, Saves
<1>2. w \in Seq(Steps) /\ Len(w) = 3
  BY <1>1 DEF D!Write
<1>3. \A i \in 1..3 : w[i].do = DoAt(4 - i) /\ w[i].f = f /\ w[i].v = v
  BY DEF D!Write, DoAt
<1>4. rest \in Seq(Steps)
  BY DEF Begins, After
<1>5. PICK n \in Nat : n = Len(rest)
  BY <1>4
<1>6. todo' = w \o rest
  BY DEF Begins
<1>. HIDE DEF w
<1>7. /\ todo' \in Seq(Steps) /\ Len(todo') = 3 + n
      /\ \A i \in 1..(3 + n) : todo'[i] = IF i <= 3 THEN w[i] ELSE rest[i - 3]
  <2>1. /\ w \o rest \in Seq(Steps) /\ Len(w \o rest) = Len(w) + Len(rest)
        /\ \A i \in 1..(Len(w) + Len(rest)) :
             (w \o rest)[i] = IF i <= Len(w) THEN w[i] ELSE rest[i - Len(w)]
    BY <1>2, <1>4, ConcatProperties
  <2>. QED  BY <1>2, <1>5, <1>6, <2>1
<1>8. \A i \in 1..3 : todo'[i].do = DoAt(4 - i) /\ todo'[i].f = f /\ todo'[i].v = v
  BY <1>3, <1>5, <1>7
<1>9. ASSUME NEW i \in 1..n PROVE todo'[3 + i] = rest[i]
  <2>1. 3 + i \in 1..(3 + n) /\ ~(3 + i <= 3) /\ (3 + i) - 3 = i
    BY <1>5
  <2>. QED  BY <1>7, <2>1
<1>10. todo' # <<>> /\ todo'[1].do = "open"
  BY <1>5, <1>7, <1>8 DEF DoAt
<1>11. Ahead' = 3
  BY <1>10 DEF Ahead, OnDisk, D!Left
<1>12. ASSUME NEW i \in 1..(3 + n), i > 3
       PROVE  todo'[i].do \notin OnDisk /\ (f = "secret" => todo'[i].do = "apply")
  <2>1. i - 3 \in 1..n /\ ~(i <= 3)
    BY <1>5, <1>12
  <2>2. todo'[i] = rest[i - 3]
    BY <1>7, <2>1
  <2>. QED  BY <1>5, <2>1, <2>2 DEF Begins, After
<1>13. \A i \in 1..(3 + n) : i <= 3 => todo'[i].do = DoAt(3 - i + 1) /\ todo'[i].f = f /\ todo'[i].v = v
  <2>1. ASSUME NEW i \in 1..(3 + n), i <= 3 PROVE i \in 1..3 /\ 3 - i + 1 = 4 - i
    BY <1>5, <2>1
  <2>. QED  BY <1>8, <2>1
<1>14. todo'[1].f = f /\ todo'[1].v = v
  BY <1>8
<1>15. (f = "secret" => n > 0) /\ (f \in Saved => v = mem'[f])
  BY <1>5 DEF Begins, After
<1>17. Ordered'
  <2>1. "autostart" \notin Saves /\ "incoming" \notin Saves /\ "apply" \notin Saves
    BY DEF Saves
  <2>2. \A i \in 1..3 : todo'[i].do \in Saves
    BY <1>8 DEF DoAt, Saves
  <2>3. ASSUME NEW i \in 1..(3 + n), todo'[i].do \notin Saves
        PROVE  i - 3 \in 1..n /\ todo'[i] = rest[i - 3]
    <3>1. i \notin 1..3
      BY <2>2, <2>3
    <3>2. i - 3 \in 1..n /\ ~(i <= 3)
      BY <1>5, <3>1
    <3>. QED  BY <1>7, <3>2
  <2>4. ASSUME NEW i \in 1..(3 + n), NEW j \in 1..(3 + n), todo'[i].do = "autostart",
               todo'[j].do \in {"incoming", "apply"}
        PROVE  j < i
    <3>1. /\ i - 3 \in 1..n /\ j - 3 \in 1..n /\ todo'[i] = rest[i - 3] /\ todo'[j] = rest[j - 3]
      BY <2>1, <2>3, <2>4
    <3>2. j - 3 < i - 3
      BY <1>5, <2>4, <3>1 DEF Begins, After
    <3>. QED  BY <1>5, <3>2
  <2>5. Len(todo') = 3 + n
    BY <1>7
  <2>. QED  BY <2>4, <2>5 DEF Ordered
<1>16. Script'
  BY <1>17, <1>5, <1>7, <1>11, <1>12, <1>13, <1>14, <1>15 DEF Script
<1>. QED  BY <1>5, <1>7, <1>8, <1>9, <1>11, <1>14, <1>16

\* What is pending after a command began is what follows its save.
LEMMA WhatFollows ==
    ASSUME NEW f, NEW v, NEW rest, Begins(f, v, rest)
    PROVE  /\ \A x \in {"incoming", "apply", "answer"} :
                Pending(x)' <=> \E i \in 1..Len(rest) : rest[i].do = x
           /\ (\A i \in 1..Len(rest) : rest[i].do # "revoked") => Leaving'
<1>1. rest \in Seq(Steps)
  BY DEF Begins, After
<1>2. PICK n \in Nat : n = Len(rest)
  BY <1>1
<1>3. /\ Len(todo') = 3 + n /\ \A i \in 1..3 : todo'[i].do = DoAt(4 - i)
      /\ \A i \in 1..n : todo'[3 + i] = rest[i]
  BY <1>2, SaveBegins
<1>4. \A i \in 1..3 : todo'[i].do \in Saves
  BY <1>3 DEF DoAt, Saves
<1>5. ASSUME NEW x, x \notin Saves, NEW i \in 1..(3 + n), todo'[i].do = x
      PROVE  \E j \in 1..n : rest[j].do = x
  <2>1. i \notin 1..3
    BY <1>4, <1>5
  <2>2. i - 3 \in 1..n /\ 3 + (i - 3) = i
    BY <1>2, <2>1
  <2>. QED  BY <1>3, <1>5, <2>2
<1>6. ASSUME NEW x, NEW i \in 1..n, rest[i].do = x PROVE \E j \in 1..(3 + n) : todo'[j].do = x
  <2>1. 3 + i \in 1..(3 + n)
    BY <1>2
  <2>. QED  BY <1>3, <1>6, <2>1
<1>7. ASSUME NEW x \in {"incoming", "apply", "answer"}
      PROVE  Pending(x)' <=> \E i \in 1..Len(rest) : rest[i].do = x
  <2>1. x \notin Saves
    BY DEF Saves
  <2>. QED  BY <1>2, <1>3, <1>5, <1>6, <2>1 DEF Pending
<1>8. ASSUME \A i \in 1..n : rest[i].do # "revoked" PROVE Leaving'
  <2>1. "revoked" \notin Saves
    BY DEF Saves
  <2>2. \A i \in 1..(3 + n) : todo'[i].do # "revoked"
    BY <1>5, <1>8, <2>1
  <2>. QED  BY <1>3, <2>2 DEF Leaving
<1>. QED  BY <1>2, <1>7, <1>8

LEMMA IdleFacts ==
    ASSUME FilesInv, todo = <<>>, up
    PROVE  /\ Ahead = 0 /\ Same /\ engine.incoming = mem.settings.incoming
           /\ told \/ saves # <<>> \/ behind \/ page = mem.settings
           /\ \A f \in D!Files \ {"secret"} : kept[f] = D!None \/ mem[f] = kept[f][1]
<1>1. Ahead = 0 /\ \A x : ~Pending(x)
  BY DEF Ahead, Pending
<1>2. ~(Ahead > 0)
  BY <1>1
<1>. QED  BY <1>1, <1>2 DEF FilesInv, Follows, Kept

\* Files, and what the history has of them, do not change when a command begins.
LEMMA KeptBegins ==
    ASSUME FilesInv, todo = <<>>, up, up', NEW f, NEW v, NEW rest, Begins(f, v, rest),
           file' = file, kept' = kept, \A g \in D!Files \ {f} : mem'[g] = mem[g]
    PROVE  Kept' /\ \A g : D!Value(g)' = D!Value(g)
<1>1. Ahead' = 3 /\ todo'[1].f = f
  BY SaveBegins
<1>2. \A g : D!Value(g)' = D!Value(g)
  BY DEF D!Value
<1>3. \A g \in D!Files : kept'[g] # D!None => D!Value(g)' = kept'[g][1]
  BY <1>2 DEF FilesInv, Kept
<1>4. \A g \in D!Files \ {"secret"} :
        kept'[g] = D!None \/ mem'[g] = kept'[g][1] \/ (Ahead' > 0 /\ todo'[1].f = g)
  BY <1>1, IdleFacts
<1>5. ~(Ahead' = 1)
  BY <1>1
<1>. QED  BY <1>2, <1>3, <1>4, <1>5 DEF Kept

LEMMA Rests ==
    /\ After(<<>>, "book")
    /\ \A f \in Saved \cup {"secret"} : After(<<D!Do("apply")>>, f)
    /\ After(<<D!Do("incoming")>>, "settings")
    /\ \A c \in BOOLEAN : After(D!Effects(c), "settings")
    /\ \A ds \in Book : After(<<D!Do("apply"), D!Revoked(ds)>>, "book")
<1>1. /\ D!Do("apply") \in Steps /\ D!Do("incoming") \in Steps /\ D!Do("answer") \in Steps
      /\ D!Do("autostart") \in Steps
      /\ \A ds \in Book : D!Revoked(ds) \in Steps
  BY DEF D!Do, D!Revoked, Steps
<1>2. After(<<>>, "book")
  <2>1. <<>> \in Seq(Steps) /\ Len(<<>>) = 0
    OBVIOUS
  <2>. QED  BY <2>1 DEF After
<1>3. ASSUME NEW f \in Saved \cup {"secret"} PROVE After(<<D!Do("apply")>>, f)
  <2>1. <<D!Do("apply")>> \in Seq(Steps) /\ Len(<<D!Do("apply")>>) = 1
    BY <1>1
  <2>. QED  BY <2>1 DEF After, D!Do, OnDisk
<1>4. After(<<D!Do("incoming")>>, "settings")
  <2>1. <<D!Do("incoming")>> \in Seq(Steps) /\ Len(<<D!Do("incoming")>>) = 1
    BY <1>1
  <2>. QED  BY <2>1 DEF After, D!Do, OnDisk
<1>5. ASSUME NEW c \in BOOLEAN PROVE After(D!Effects(c), "settings")
  <2>1. CASE c
    <3>1. /\ D!Effects(c) \in Seq(Steps) /\ Len(D!Effects(c)) = 4
          /\ D!Effects(c)[1].do = "incoming" /\ D!Effects(c)[2].do = "apply"
          /\ D!Effects(c)[3].do = "autostart" /\ D!Effects(c)[4].do = "answer"
      <4>1. D!Effects(c) = <<D!Do("incoming"), D!Do("apply"), D!Do("autostart"), D!Do("answer")>>
        BY <2>1 DEF D!Effects
      <4>. QED  BY <1>1, <4>1 DEF D!Do
    <3>2. \A i \in 1..4 : i = 1 \/ i = 2 \/ i = 3 \/ i = 4
      OBVIOUS
    <3>. QED  BY <3>1, <3>2 DEF After, OnDisk
  <2>2. CASE ~c
    <3>1. /\ D!Effects(c) \in Seq(Steps) /\ Len(D!Effects(c)) = 3
          /\ D!Effects(c)[1].do = "incoming" /\ D!Effects(c)[2].do = "apply"
          /\ D!Effects(c)[3].do = "answer"
      <4>1. D!Effects(c) = <<D!Do("incoming"), D!Do("apply"), D!Do("answer")>>
        BY <2>2 DEF D!Effects
      <4>. QED  BY <1>1, <4>1 DEF D!Do
    <3>2. \A i \in 1..3 : i = 1 \/ i = 2 \/ i = 3
      OBVIOUS
    <3>. QED  BY <3>1, <3>2 DEF After, OnDisk
  <2>. QED  BY <2>1, <2>2
<1>6. ASSUME NEW ds \in Book PROVE After(<<D!Do("apply"), D!Revoked(ds)>>, "book")
  <2>1. /\ <<D!Do("apply"), D!Revoked(ds)>> \in Seq(Steps)
        /\ Len(<<D!Do("apply"), D!Revoked(ds)>>) = 2
    BY <1>1
  <2>. QED  BY <2>1 DEF After, D!Do, D!Revoked, OnDisk
<1>. QED  BY <1>2, <1>3, <1>4, <1>5, <1>6

\* The page's copy becomes the settings.
LEMMA SettingsSaveKeeps ==
    ASSUME FilesInv, D!SettingsSave
    PROVE  FilesInv'
<1>. DEFINE rest == D!Effects(mem'["settings"].startup # mem["settings"].startup)
<1>1. /\ up /\ todo = <<>> /\ saves # <<>> /\ saves \in Seq(Switches) /\ DOMAIN mem = D!Files
  BY DEF D!SettingsSave, D!Idle, FilesInv, FilesOK
<1>2. Head(saves) \in Switches /\ Tail(saves) \in Seq(Switches)
  BY <1>1, HeadTailProperties
<1>3. /\ mem' = [mem EXCEPT !["settings"] = Head(saves)] /\ saves' = Tail(saves)
      /\ todo' = D!Write("settings", mem'["settings"]) \o rest
      /\ UNCHANGED <<up, engine, page, told, file, tmp, kept, gone, behind>>
  BY DEF D!SettingsSave, D!history
<1>4. /\ DOMAIN mem' = D!Files /\ mem'["settings"] = Head(saves)
      /\ \A g \in D!Files \ {"settings"} : mem'[g] = mem[g]
  BY <1>1, <1>3 DEF D!Files
<1>5. mem'["settings"] \in MayBe("settings")
  BY <1>2, <1>4 DEF MayBe
<1>6. Begins("settings", mem'["settings"], rest)
  BY <1>3, <1>5, Rests DEF Begins, Saved
<1>7. /\ \E i \in 1..Len(rest) : rest[i].do = "incoming"
      /\ \E i \in 1..Len(rest) : rest[i].do = "apply"
      /\ \E i \in 1..Len(rest) : rest[i].do = "answer"
      /\ \A i \in 1..Len(rest) : rest[i].do # "revoked"
  <2>1. CASE mem'["settings"].startup # mem["settings"].startup
    <3>1. rest = <<D!Do("incoming"), D!Do("apply"), D!Do("autostart"), D!Do("answer")>>
      BY <2>1 DEF D!Effects
    <3>2. /\ Len(rest) = 4 /\ rest[1].do = "incoming" /\ rest[2].do = "apply"
          /\ rest[3].do = "autostart" /\ rest[4].do = "answer"
      BY <3>1 DEF D!Do
    <3>3. \A i \in 1..4 : i = 1 \/ i = 2 \/ i = 3 \/ i = 4
      OBVIOUS
    <3>. HIDE DEF rest
    <3>. QED  BY <3>2, <3>3
  <2>2. CASE ~(mem'["settings"].startup # mem["settings"].startup)
    <3>1. rest = <<D!Do("incoming"), D!Do("apply"), D!Do("answer")>>
      BY <2>2 DEF D!Effects
    <3>2. /\ Len(rest) = 3 /\ rest[1].do = "incoming" /\ rest[2].do = "apply"
          /\ rest[3].do = "answer"
      BY <3>1 DEF D!Do
    <3>3. \A i \in 1..3 : i = 1 \/ i = 2 \/ i = 3
      OBVIOUS
    <3>. HIDE DEF rest
    <3>. QED  BY <3>2, <3>3
  <2>. QED  BY <2>1, <2>2
<1>. HIDE DEF rest
<1>8. Kept' /\ \A g : D!Value(g)' = D!Value(g)
  BY <1>1, <1>3, <1>4, <1>6, KeptBegins
<1>9. Script' /\ todo' \in Seq(Steps) /\ todo'[1].f = "settings"
  BY <1>6, SaveBegins
<1>10. Pending("incoming")' /\ Pending("apply")' /\ Pending("answer")'
  BY <1>6, <1>7, WhatFollows
<1>11. Leaving'
  BY <1>6, <1>7, WhatFollows
<1>12. Follows'
  BY <1>9, <1>10 DEF Follows
<1>13. mem'.book = mem.book /\ mem'.settings \in Switches
  BY <1>2, <1>4 DEF D!Files
<1>14. FilesOK'
  BY <1>1, <1>2, <1>3, <1>4, <1>8, <1>9, <1>13 DEF FilesInv, FilesOK
<1>15. Outside'
  BY <1>3, <1>8, <1>11, <1>13 DEF FilesInv, Outside
<1>. QED  BY <1>8, <1>9, <1>12, <1>14, <1>15 DEF FilesInv

\* The tray flips a switch.
LEMMA TrayToggleKeeps ==
    ASSUME FilesInv, D!TrayToggle
    PROVE  FilesInv'
<1>. DEFINE rest == <<D!Do("incoming")>>
            s == [mem["settings"] EXCEPT !.incoming = ~@]
<1>1. /\ up /\ todo = <<>> /\ mem["settings"] \in Switches /\ DOMAIN mem = D!Files
  BY DEF D!TrayToggle, D!Command, D!Idle, FilesInv, FilesOK
<1>2. s \in Switches /\ s.unattended = mem["settings"].unattended
  BY <1>1 DEF Switches
<1>3. /\ mem' = [mem EXCEPT !["settings"] = s] /\ told'
      /\ todo' = D!Write("settings", mem'["settings"]) \o rest
      /\ UNCHANGED <<up, engine, page, saves, file, tmp, kept, gone, behind>>
  BY DEF D!TrayToggle, D!TrayTells, D!history
<1>3t. told' = TRUE
  BY DEF D!TrayToggle, D!TrayTells
<1>. HIDE DEF s
<1>4. /\ DOMAIN mem' = D!Files /\ mem'["settings"] = s
      /\ \A g \in D!Files \ {"settings"} : mem'[g] = mem[g]
  BY <1>1, <1>3 DEF D!Files
<1>5. mem'["settings"] \in MayBe("settings")
  BY <1>2, <1>4 DEF MayBe
<1>6. Begins("settings", mem'["settings"], rest)
  BY <1>3, <1>5, Rests DEF Begins, Saved
<1>7. Len(rest) = 1 /\ rest[1].do = "incoming"
  BY DEF D!Do
<1>. HIDE DEF rest
<1>8. Kept' /\ \A g : D!Value(g)' = D!Value(g)
  BY <1>1, <1>3, <1>4, <1>6, KeptBegins
<1>9. Script' /\ todo' \in Seq(Steps) /\ todo'[1].f = "settings"
  BY <1>6, SaveBegins
<1>10. Pending("incoming")'
  BY <1>6, <1>7, WhatFollows
<1>11. Leaving'
  BY <1>6, <1>7, WhatFollows
<1>12. mem'.book = mem.book /\ mem'.settings = s
  BY <1>4 DEF D!Files
<1>13. Same'
  <2>1. Same
    BY <1>1, IdleFacts
  <2>2. D!Value("secret")' = D!Value("secret")
    BY <1>8
  <2>. QED  BY <1>2, <1>3, <1>12, <2>1, <2>2 DEF Same, Wanted, D!Apply
<1>14. Follows'
  BY <1>3, <1>9, <1>10, <1>13 DEF Follows
<1>15. FilesOK'
  BY <1>1, <1>2, <1>3, <1>3t, <1>4, <1>8, <1>9, <1>12 DEF FilesInv, FilesOK
<1>16. Outside'
  BY <1>3, <1>8, <1>11, <1>12 DEF FilesInv, Outside
<1>. QED  BY <1>8, <1>9, <1>14, <1>15, <1>16 DEF FilesInv

\* A command on the book: what it is in memory afterwards, and who is outside of it.
LEMMA BookSaveKeeps ==
    ASSUME FilesInv, up, todo = <<>>, NEW rest, Begins("book", mem'["book"], rest),
           DOMAIN mem' = D!Files, mem'["book"] \in Book,
           \A g \in D!Files \ {"book"} : mem'[g] = mem[g],
           UNCHANGED <<up, engine, page, saves, told, file, tmp, kept, behind>>,
           gone' \in Book, gone' \subseteq gone, gone' \cap mem'["book"] = {},
           Leaving', mem' = mem \/ Pending("apply")'
    PROVE  FilesInv'
<1>1. Kept' /\ \A g : D!Value(g)' = D!Value(g)
  BY KeptBegins
<1>2. Script' /\ todo' \in Seq(Steps) /\ todo'[1].f = "book"
  BY SaveBegins
<1>3. mem'.settings = mem.settings
  BY DEF D!Files
<1>4. /\ Same /\ engine.incoming = mem.settings.incoming
      /\ told \/ saves # <<>> \/ behind \/ page = mem.settings
  BY IdleFacts
<1>5. Pending("apply")' \/ Same'
  <2>1. D!Value("secret")' = D!Value("secret")
    BY <1>1
  <2>. QED  BY <1>4, <2>1 DEF Same, Wanted
<1>6. Follows'
  BY <1>2, <1>3, <1>4, <1>5 DEF Follows
<1>7. FilesOK'
  BY <1>1, <1>2, <1>3 DEF FilesInv, FilesOK
<1>8. Outside'
  BY <1>1 DEF FilesInv, Outside
<1>. QED  BY <1>1, <1>2, <1>6, <1>7, <1>8 DEF FilesInv

LEMMA TrustKeeps ==
    ASSUME FilesInv, D!Trust
    PROVE  FilesInv'
<1>. DEFINE rest == <<D!Do("apply")>>
<1>1. /\ up /\ todo = <<>> /\ mem["book"] \in Book /\ DOMAIN mem = D!Files /\ gone \in Book
      /\ gone \cap mem["book"] = {}
  BY DEF D!Trust, D!Command, D!Idle, FilesInv, FilesOK, Outside
<1>2. PICK d \in Devices : mem' = [mem EXCEPT !["book"] = mem["book"] \cup {d}] /\ gone' = gone \ {d}
  BY DEF D!Trust
<1>3. /\ todo' = D!Write("book", mem'["book"]) \o rest
      /\ UNCHANGED <<up, engine, page, saves, told, file, tmp, kept, behind>>
  BY DEF D!Trust
<1>4. /\ DOMAIN mem' = D!Files /\ mem'["book"] = mem["book"] \cup {d} /\ mem'["book"] \in Book
      /\ \A g \in D!Files \ {"book"} : mem'[g] = mem[g]
  BY <1>1, <1>2 DEF D!Files, Book
<1>5. mem'["book"] \in MayBe("book")
  BY <1>4 DEF MayBe
<1>6. Begins("book", mem'["book"], rest)
  BY <1>3, <1>5, Rests DEF Begins, Saved
<1>7. Len(rest) = 1 /\ rest[1].do = "apply"
  BY DEF D!Do
<1>. HIDE DEF rest
<1>8. Pending("apply")' /\ Leaving'
  BY <1>6, <1>7, WhatFollows
<1>9. gone' \in Book /\ gone' \subseteq gone /\ gone' \cap mem'["book"] = {}
  BY <1>1, <1>2, <1>4 DEF Book
<1>. QED  BY <1>1, <1>3, <1>4, <1>6, <1>8, <1>9, BookSaveKeeps

LEMMA TouchKeeps ==
    ASSUME FilesInv, D!Touch
    PROVE  FilesInv'
<1>1. /\ up /\ todo = <<>> /\ mem["book"] \in Book /\ DOMAIN mem = D!Files /\ gone \in Book
      /\ gone \cap mem["book"] = {}
  BY DEF D!Touch, D!Command, D!Idle, FilesInv, FilesOK, Outside
<1>2. /\ todo' = D!Write("book", mem["book"])
      /\ UNCHANGED <<up, mem, engine, page, saves, told, file, tmp, kept, gone, behind>>
  BY DEF D!Touch, D!history
<1>3. todo' = D!Write("book", mem'["book"]) \o <<>>
  <2>1. /\ [do |-> "open", f |-> "book", v |-> mem["book"]] \in Steps
        /\ [do |-> "write", f |-> "book", v |-> mem["book"]] \in Steps
        /\ [do |-> "rename", f |-> "book", v |-> mem["book"]] \in Steps
    BY <1>1 DEF Steps, Saves
  <2>2. D!Write("book", mem["book"]) \in Seq(Steps)
    BY <2>1 DEF D!Write
  <2>. QED  BY <1>2, <2>2, ConcatEmptySeq
<1>4. mem'["book"] \in MayBe("book")
  BY <1>1, <1>2 DEF MayBe
<1>5. Begins("book", mem'["book"], <<>>)
  BY <1>3, <1>4, Rests DEF Begins, Saved
<1>6. Leaving'
  <2>1. Len(<<>>) = 0
    OBVIOUS
  <2>2. \A i \in 1..Len(<<>>) : <<>>[i].do # "revoked"
    BY <2>1
  <2>. QED  BY <1>5, <2>2, WhatFollows
<1>. QED  BY <1>1, <1>2, <1>5, <1>6, BookSaveKeeps

LEMMA RevokeKeeps ==
    ASSUME FilesInv, D!Revoke
    PROVE  FilesInv'
<1>1. /\ up /\ todo = <<>> /\ mem["book"] \in Book /\ DOMAIN mem = D!Files /\ gone \in Book
      /\ gone \cap mem["book"] = {}
  BY DEF D!Revoke, D!Command, D!Idle, FilesInv, FilesOK, Outside
<1>2. PICK ds \in Book : /\ mem' = [mem EXCEPT !["book"] = mem["book"] \ ds]
                         /\ todo' = D!Write("book", mem'["book"]) \o <<D!Do("apply"), D!Revoked(ds)>>
  <2>1. \A ds \in {{d} : d \in Devices} \cup {Devices} : ds \in Book
    BY DEF Book
  <2>. QED  BY <2>1 DEF D!Revoke
<1>. DEFINE rest == <<D!Do("apply"), D!Revoked(ds)>>
<1>3. UNCHANGED <<up, engine, page, saves, told, file, tmp, kept, gone, behind>>
  BY DEF D!Revoke, D!history
<1>4. /\ DOMAIN mem' = D!Files /\ mem'["book"] = mem["book"] \ ds /\ mem'["book"] \in Book
      /\ \A g \in D!Files \ {"book"} : mem'[g] = mem[g]
  BY <1>1, <1>2 DEF D!Files, Book
<1>5. mem'["book"] \in MayBe("book")
  BY <1>4 DEF MayBe
<1>6. Begins("book", mem'["book"], rest)
  BY <1>2, <1>5, Rests DEF Begins, Saved
<1>7. Len(rest) = 2 /\ rest[1].do = "apply" /\ rest[2].do = "revoked" /\ rest[2].devs = ds
  BY DEF D!Do, D!Revoked
<1>. HIDE DEF rest
<1>8. Pending("apply")'
  BY <1>6, <1>7, WhatFollows
<1>9. Leaving'
  <2>1. /\ Len(todo') = 5 /\ \A i \in 1..3 : todo'[i].do = DoAt(4 - i)
        /\ todo'[4] = rest[1] /\ todo'[5] = rest[2]
    <3>1. /\ Len(todo') = 3 + Len(rest) /\ \A i \in 1..3 : todo'[i].do = DoAt(4 - i)
          /\ \A i \in 1..Len(rest) : todo'[3 + i] = rest[i]
      BY <1>6, SaveBegins
    <3>2. 3 + 1 = 4 /\ 3 + 2 = 5 /\ 1 \in 1..2 /\ 2 \in 1..2
      OBVIOUS
    <3>3. todo'[4] = rest[1] /\ todo'[5] = rest[2]
      BY <1>7, <3>1, <3>2
    <3>. QED  BY <1>7, <3>1, <3>2, <3>3
  <2>2. \A i \in 1..3 : todo'[i].do \in Saves
    BY <2>1 DEF DoAt, Saves
  <2>3. ASSUME NEW i \in 1..5, todo'[i].do = "revoked" PROVE i = 5
    <3>1. i \notin 1..3 /\ i # 4
      BY <1>7, <2>1, <2>2, <2>3 DEF Saves
    <3>. QED  BY <3>1
  <2>4. ASSUME NEW j \in 1..5, todo'[j].do = "apply" PROVE j < 5
    <3>1. j # 5
      BY <1>7, <2>1, <2>4
    <3>. QED  BY <3>1
  <2>5. todo'[5].devs \cap mem'.book = {}
    BY <1>4, <1>7, <2>1
  <2>. QED  BY <2>1, <2>3, <2>4, <2>5 DEF Leaving
<1>10. gone' \in Book /\ gone' \subseteq gone /\ gone' \cap mem'["book"] = {}
  BY <1>1, <1>3, <1>4 DEF Book
<1>. QED  BY <1>1, <1>3, <1>4, <1>6, <1>8, <1>9, <1>10, BookSaveKeeps

LEMMA SetPasswordKeeps ==
    ASSUME FilesInv, D!SetPassword
    PROVE  FilesInv'
<1>. DEFINE rest == <<D!Do("apply")>>
<1>1. up /\ todo = <<>>
  BY DEF D!SetPassword, D!Command, D!Idle
<1>2. /\ todo' = D!Write("secret", "set") \o rest
      /\ UNCHANGED <<up, mem, engine, page, saves, told, file, tmp, kept, gone, behind>>
  BY DEF D!SetPassword, D!history
<1>3. "set" \in MayBe("secret")
  BY DEF MayBe
<1>4. Begins("secret", "set", rest)
  BY <1>2, <1>3, Rests DEF Begins, Saved
<1>5. Len(rest) = 1 /\ rest[1].do = "apply"
  BY DEF D!Do
<1>. HIDE DEF rest
<1>6. Kept' /\ \A g : D!Value(g)' = D!Value(g)
  BY <1>1, <1>2, <1>4, KeptBegins
<1>7. Script' /\ todo' \in Seq(Steps)
  BY <1>4, SaveBegins
<1>8. Pending("apply")' /\ Leaving'
  BY <1>4, <1>5, WhatFollows
<1>9. Same'
  <2>1. Same /\ D!Value("secret")' = D!Value("secret")
    BY <1>1, <1>6, IdleFacts
  <2>. QED  BY <1>2, <2>1 DEF Same, Wanted
<1>10. Follows'
  <2>1. /\ engine.incoming = mem.settings.incoming
        /\ told \/ saves # <<>> \/ behind \/ page = mem.settings
    BY <1>1, IdleFacts
  <2>. QED  BY <1>2, <1>8, <1>9, <2>1 DEF Follows
<1>11. FilesOK'
  BY <1>1, <1>2, <1>6, <1>7 DEF FilesInv, FilesOK
<1>12. Outside'
  BY <1>2, <1>6, <1>8 DEF FilesInv, Outside
<1>. QED  BY <1>6, <1>7, <1>10, <1>11, <1>12 DEF FilesInv

LEMMA ClearPasswordKeeps ==
    ASSUME FilesInv, D!ClearPassword
    PROVE  FilesInv'
<1>1. up /\ todo = <<>>
  BY DEF D!ClearPassword, D!Command, D!Idle
<1>2. /\ todo' = <<[do |-> "remove", f |-> "secret"], D!Do("apply")>>
      /\ UNCHANGED <<up, mem, engine, page, saves, told, file, tmp, kept, gone, behind>>
  BY DEF D!ClearPassword, D!history
<1>3. todo' \in Seq(Steps)
  <2>1. [do |-> "remove", f |-> "secret"] \in Steps /\ D!Do("apply") \in Steps
    BY DEF Steps, D!Do
  <2>. QED  BY <1>2, <2>1
<1>4. /\ Len(todo') = 2 /\ todo'[1].do = "remove" /\ todo'[1].f = "secret"
      /\ todo'[2].do = "apply" /\ todo' # <<>>
  BY <1>2 DEF D!Do
<1>5. Ahead' = 1
  BY <1>4 DEF Ahead, OnDisk, D!Left
<1>6. \A i \in 1..2 : i = 1 \/ i = 2
  OBVIOUS
<1>7. Script'
  <2>1. \A i \in 1..2 : i > 1 => todo'[i].do = "apply"
    BY <1>4, <1>6
  <2>2. "apply" \notin OnDisk /\ "secret" \notin Saved
    BY DEF OnDisk, Saved
  <2>3. Ordered'
    BY <1>4, <1>6 DEF Ordered
  <2>. QED  BY <1>4, <1>5, <2>1, <2>2, <2>3 DEF Script
<1>8. Pending("apply")' /\ Leaving'
  BY <1>4, <1>6 DEF Pending, Leaving
<1>9. \A g : D!Value(g)' = D!Value(g)
  BY <1>2 DEF D!Value
<1>10. Kept'
  <2>1. \A g \in D!Files : kept'[g] # D!None => D!Value(g)' = kept'[g][1]
    BY <1>2, <1>9 DEF FilesInv, Kept
  <2>2. \A g \in D!Files \ {"secret"} : kept'[g] = D!None \/ mem'[g] = kept'[g][1]
    BY <1>1, <1>2, IdleFacts
  <2>. QED  BY <1>4, <2>1, <2>2 DEF Kept
<1>11. Same'
  <2>1. Same /\ D!Value("secret")' = D!Value("secret")
    BY <1>1, <1>9, IdleFacts
  <2>. QED  BY <1>2, <2>1 DEF Same, Wanted
<1>12. Follows'
  <2>1. /\ engine.incoming = mem.settings.incoming
        /\ told \/ saves # <<>> \/ behind \/ page = mem.settings
    BY <1>1, IdleFacts
  <2>. QED  BY <1>2, <1>8, <1>11, <2>1 DEF Follows
<1>13. FilesOK'
  BY <1>1, <1>2, <1>3, <1>9 DEF FilesInv, FilesOK
<1>14. Outside'
  BY <1>2, <1>8, <1>9 DEF FilesInv, Outside
<1>. QED  BY <1>7, <1>10, <1>12, <1>13, <1>14 DEF FilesInv

-----------------------------------------------------------------------------
(* DeviceFiles: start, death, the page *)

LEMMA NothingToDo ==
    ASSUME todo' = <<>>
    PROVE  /\ Ahead' = 0 /\ Script' /\ Leaving' /\ \A x : ~Pending(x)'
<1>1. Ahead' = 0 /\ Len(todo') = 0
  BY DEF Ahead
<1>. QED  BY <1>1 DEF Script, Ordered, Leaving, Pending

LEMMA StartKeeps ==
    ASSUME FilesInv, D!Start
    PROVE  FilesInv'
<1>1. /\ ~up /\ up' = TRUE /\ todo' = <<>>
      /\ mem' = [f \in D!Files |-> D!Value(f)]
      /\ engine' = D!Apply(mem', D!Value("secret")) /\ page' = mem'.settings
      /\ file' = [f \in D!Files |-> IF f \in {"settings", "book"} /\ file[f] = D!Torn
                                    THEN D!None ELSE file[f]]
      /\ UNCHANGED <<saves, told, tmp, kept, gone>>
  BY DEF D!Start, D!history, FilesInv, FilesOK
<1>2. ASSUME NEW f \in D!Files PROVE D!Value(f)' = D!Value(f)
  <2>1. Len(D!Torn) = 2 /\ Len(D!None) = 0
    BY DEF D!Torn, D!None
  <2>2. file'[f] = file[f] \/ (file[f] = D!Torn /\ file'[f] = D!None)
    BY <1>1
  <2>. QED  BY <2>1, <2>2 DEF D!Value
<1>3. /\ "settings" \in D!Files /\ "book" \in D!Files /\ "secret" \in D!Files
  BY DEF D!Files
<1>4. mem'.settings \in Switches /\ mem'.book \in Book /\ mem'.book = D!Value("book")
  BY <1>1, <1>3 DEF FilesInv, FilesOK
<1>5. /\ engine'.incoming = mem'.settings.incoming /\ engine'.authorized = mem'.book
      /\ engine'.unattended = (mem'.settings.unattended /\ D!Value("secret") # "none")
      /\ engine' = [incoming |-> engine'.incoming, unattended |-> engine'.unattended,
                    authorized |-> engine'.authorized]
  BY <1>1 DEF D!Apply
<1>6. engine' \in [incoming : BOOLEAN, unattended : BOOLEAN, authorized : Book]
  <2>1. mem'.settings.incoming \in BOOLEAN /\ mem'.settings.unattended \in BOOLEAN
    BY <1>4 DEF Switches
  <2>2. (mem'.settings.unattended /\ D!Value("secret") # "none") \in BOOLEAN
    OBVIOUS
  <2>3. engine'.incoming \in BOOLEAN /\ engine'.unattended \in BOOLEAN /\ engine'.authorized \in Book
    BY <1>4, <1>5, <2>1, <2>2
  <2>. QED  BY <1>5, <2>3
<1>7. Same' /\ engine'.incoming = mem'.settings.incoming
  <2>1. D!Value("secret")' = D!Value("secret")
    BY <1>2, <1>3
  <2>. QED  BY <1>1, <1>5, <2>1 DEF Same, Wanted, D!Apply
<1>8. /\ Ahead' = 0 /\ Script' /\ Leaving'
  BY <1>1, NothingToDo
<1>9. Follows'
  BY <1>1, <1>7, <1>8 DEF Follows
<1>10. Kept'
  <2>1. \A g \in D!Files : kept'[g] # D!None => D!Value(g)' = kept'[g][1]
    BY <1>1, <1>2 DEF FilesInv, Kept
  <2>2. \A g \in D!Files \ {"secret"} : kept'[g] = D!None \/ mem'[g] = kept'[g][1]
    BY <1>1, <1>2, <2>1
  <2>. QED  BY <1>8, <2>1, <2>2 DEF Kept
<1>11. FilesOK'
  <2>1. todo' \in Seq(Steps)
    BY <1>1
  <2>2. DOMAIN mem' = D!Files /\ DOMAIN file' = D!Files
    BY <1>1
  <2>3. D!Value("settings")' = D!Value("settings") /\ D!Value("book")' = D!Value("book")
    BY <1>2, <1>3
  <2>. QED  BY <1>1, <1>4, <1>6, <2>1, <2>2, <2>3 DEF FilesInv, FilesOK
<1>12. Outside'
  <2>1. D!Value("book")' = D!Value("book")
    BY <1>2, <1>3
  <2>. QED  BY <1>1, <1>4, <1>5, <1>8, <2>1 DEF FilesInv, Outside
<1>. QED  BY <1>8, <1>9, <1>10, <1>11, <1>12 DEF FilesInv

LEMMA DieKeeps ==
    ASSUME FilesInv, D!Die
    PROVE  FilesInv'
<1>1. /\ up' = FALSE /\ todo' = <<>> /\ saves' = <<>> /\ told' = FALSE
      /\ UNCHANGED <<mem, engine, page, file, tmp, kept, gone, behind>>
  BY DEF D!Die, D!history
<1>2. Ahead' = 0 /\ Script' /\ Leaving'
  BY <1>1, NothingToDo
<1>3. \A g : D!Value(g)' = D!Value(g)
  BY <1>1 DEF D!Value
<1>4. Kept' /\ Follows' /\ Outside'
  BY <1>1, <1>2, <1>3 DEF FilesInv, Kept, Follows, Outside
<1>5. todo' \in Seq(Steps) /\ saves' \in Seq(Switches)
  BY <1>1
<1>6. FilesOK'
  BY <1>1, <1>3, <1>5 DEF FilesInv, FilesOK
<1>. QED  BY <1>2, <1>4, <1>6 DEF FilesInv

LEMMA TodoStays ==
    ASSUME FilesInv, todo' = todo, mem'["settings"] = mem["settings"], mem'["book"] = mem["book"]
    PROVE  Script' /\ Ahead' = Ahead /\ Leaving' /\ \A x : Pending(x)' <=> Pending(x)
<1>1. Ahead' = Ahead
  BY DEF Ahead
<1>2. \A f \in Saved : mem'[f] = mem[f]
  BY DEF Saved
<1>3. Script'
  BY <1>1, <1>2 DEF FilesInv, Script, Ordered
<1>4. Leaving'
  BY DEF FilesInv, Outside, Leaving
<1>. QED  BY <1>1, <1>3, <1>4 DEF Pending

LEMMA PageSavesKeeps ==
    ASSUME FilesInv, D!PageSaves
    PROVE  FilesInv'
<1>1. UNCHANGED <<up, todo, mem, engine, page, told, file, tmp, kept, gone, behind>>
  BY DEF D!PageSaves, D!history
<1>2. page \in Switches /\ saves \in Seq(Switches)
  BY DEF FilesInv, FilesOK
<1>3. PICK s \in D!Patched \cup D!FirstRun : saves' = Append(saves, s)
  BY DEF D!PageSaves
<1>4. s \in Switches
  <2>1. CASE s \in D!FirstRun
    BY <2>1 DEF D!FirstRun, Switches
  <2>2. CASE s \in D!Patched
    <3>1. PICK k \in DOMAIN page, b \in BOOLEAN : s = [page EXCEPT ![k] = b]
      BY <2>2 DEF D!Patched
    <3>. QED  BY <1>2, <3>1 DEF Switches
  <2>. QED  BY <1>3, <2>1, <2>2
<1>5. saves' \in Seq(Switches) /\ saves' # <<>>
  BY <1>2, <1>3, <1>4, AppendProperties
<1>6. Script' /\ Ahead' = Ahead /\ Leaving' /\ \A x : Pending(x)' <=> Pending(x)
  BY <1>1, TodoStays
<1>7. \A g : D!Value(g)' = D!Value(g)
  BY <1>1 DEF D!Value
<1>8. Same' <=> Same
  BY <1>1, <1>7 DEF Same, Wanted
<1>9. Follows'
  BY <1>1, <1>5, <1>6, <1>8 DEF FilesInv, Follows
<1>10. Kept' /\ Outside'
  BY <1>1, <1>6, <1>7 DEF FilesInv, Kept, Outside
<1>11. FilesOK'
  BY <1>1, <1>5, <1>7 DEF FilesInv, FilesOK
<1>. QED  BY <1>6, <1>9, <1>10, <1>11 DEF FilesInv

LEMMA PageAsksKeeps ==
    ASSUME FilesInv, D!PageAsks
    PROVE  FilesInv'
<1>1. /\ told' = FALSE /\ page' = mem.settings
      /\ UNCHANGED <<up, todo, mem, engine, saves, file, tmp, kept, gone>>
  BY DEF D!PageAsks
<1>2. Script' /\ Ahead' = Ahead /\ Leaving' /\ \A x : Pending(x)' <=> Pending(x)
  BY <1>1, TodoStays
<1>3. \A g : D!Value(g)' = D!Value(g)
  BY <1>1 DEF D!Value
<1>4. Same' <=> Same
  BY <1>1, <1>3 DEF Same, Wanted
<1>5. Follows'
  BY <1>1, <1>2, <1>4 DEF FilesInv, Follows
<1>6. Kept' /\ Outside'
  BY <1>1, <1>2, <1>3 DEF FilesInv, Kept, Outside
<1>7. FilesOK'
  BY <1>1, <1>3 DEF FilesInv, FilesOK
<1>. QED  BY <1>2, <1>5, <1>6, <1>7 DEF FilesInv

\* The signaling task saves the identity, or forgets it.
LEMMA IdentityKeeps ==
    ASSUME FilesInv, D!IdentitySave \/ D!IdentityClear
    PROVE  FilesInv'
<1>1. UNCHANGED <<up, todo, engine, page, saves, told, tmp, gone, behind>> /\ up
  BY DEF D!IdentitySave, D!IdentityClear
<1>2. /\ DOMAIN mem = D!Files /\ DOMAIN file = D!Files /\ DOMAIN kept = D!Files
      /\ "identity" \in D!Files /\ "settings" \in D!Files /\ "book" \in D!Files
  BY DEF FilesInv, FilesOK, D!Files
<1>3. /\ DOMAIN mem' = D!Files /\ DOMAIN file' = D!Files /\ DOMAIN kept' = D!Files
      /\ \A g \in D!Files \ {"identity"} :
           mem'[g] = mem[g] /\ file'[g] = file[g] /\ kept'[g] = kept[g]
  BY <1>2 DEF D!IdentitySave, D!IdentityClear
<1>4. kept'["identity"] = D!None \/ (/\ D!Value("identity")' = kept'["identity"][1]
                                     /\ mem'["identity"] = kept'["identity"][1])
  <2>1. CASE D!IdentitySave
    <3>1. CASE file' = [file EXCEPT !["identity"] = <<"set">>] /\ kept' = [kept EXCEPT !["identity"] = <<"set">>]
      <4>1. file'["identity"] = <<"set">> /\ kept'["identity"] = <<"set">> /\ mem'["identity"] = "set"
        BY <1>2, <2>1, <3>1 DEF D!IdentitySave
      <4>. QED  BY <4>1 DEF D!Value
    <3>2. CASE kept' = [kept EXCEPT !["identity"] = D!None]
      BY <1>2, <3>2
    <3>. QED  BY <2>1, <3>1, <3>2 DEF D!IdentitySave
  <2>2. CASE D!IdentityClear
    <3>1. CASE /\ file' = [file EXCEPT !["identity"] = D!None] /\ mem' = [mem EXCEPT !["identity"] = "none"]
               /\ kept' = [kept EXCEPT !["identity"] = <<"none">>]
      <4>1. file'["identity"] = <<>> /\ kept'["identity"] = <<"none">> /\ mem'["identity"] = "none"
        BY <1>2, <3>1 DEF D!None
      <4>2. Len(<<>>) = 0
        OBVIOUS
      <4>. QED  BY <4>1, <4>2 DEF D!Value, D!Default
    <3>2. CASE kept' = [kept EXCEPT !["identity"] = D!None]
      BY <1>2, <3>2
    <3>. QED  BY <2>2, <3>1, <3>2 DEF D!IdentityClear
  <2>. QED  BY <2>1, <2>2
<1>5. \A g \in D!Files \ {"identity"} : D!Value(g)' = D!Value(g)
  BY <1>3 DEF D!Value
<1>6. /\ mem'["settings"] = mem["settings"] /\ mem'["book"] = mem["book"]
      /\ D!Value("secret")' = D!Value("secret") /\ D!Value("book")' = D!Value("book")
      /\ D!Value("settings")' = D!Value("settings")
  BY <1>3, <1>5 DEF D!Files
<1>7. Script' /\ Ahead' = Ahead /\ Leaving' /\ \A x : Pending(x)' <=> Pending(x)
  BY <1>1, <1>6, TodoStays
<1>8. Same' <=> Same
  BY <1>1, <1>6 DEF Same, Wanted, D!Apply
<1>9. Follows'
  BY <1>1, <1>6, <1>7, <1>8 DEF FilesInv, Follows
<1>10. Kept'
  <2>1. \A g \in D!Files : kept'[g] # D!None => D!Value(g)' = kept'[g][1]
    BY <1>3, <1>4, <1>5 DEF FilesInv, Kept
  <2>2. (Ahead' = 1 /\ todo'[1].do = "rename") => tmp'[todo'[1].f] = <<todo'[1].v>>
    BY <1>1, <1>7 DEF FilesInv, Kept
  <2>3. \A g \in D!Files \ {"secret"} :
          kept'[g] = D!None \/ mem'[g] = kept'[g][1] \/ (Ahead' > 0 /\ todo'[1].f = g)
    BY <1>1, <1>3, <1>4, <1>7 DEF FilesInv, Kept
  <2>. QED  BY <2>1, <2>2, <2>3 DEF Kept
<1>11. Outside'
  BY <1>1, <1>6, <1>7 DEF FilesInv, Outside
<1>12. FilesOK'
  BY <1>1, <1>3, <1>6 DEF FilesInv, FilesOK
<1>. QED  BY <1>7, <1>9, <1>10, <1>11, <1>12 DEF FilesInv

-----------------------------------------------------------------------------
(* DeviceFiles: the steps of a command *)

\* What is pending is behind the steps on the file.
LEMMA AheadOfPending ==
    ASSUME FilesInv, Ahead > 0
    PROVE  /\ todo # <<>> /\ todo[1] \in Steps /\ todo[1].do \in OnDisk
           /\ todo[1].f \in Saved \cup {"secret"} /\ Ahead \in 1..Len(todo)
           /\ \A i \in 1..Ahead : todo[i].do \in OnDisk
           /\ todo[1].f = "secret" =>
                 /\ Pending("apply") /\ ~Pending("incoming") /\ ~Pending("answer")
<1>1. PICK a \in {1, 2, 3} : a = Ahead
  BY AheadIs
<1>2. todo # <<>> /\ todo[1].do \in OnDisk /\ todo \in Seq(Steps)
  BY <1>1, AheadIs DEF FilesInv, FilesOK
<1>3. PICK n \in Nat : n = Len(todo)
  BY <1>2
<1>4. a <= n /\ 1 \in 1..n
  BY <1>1, <1>3 DEF FilesInv, Script
<1>5. todo[1] \in Steps
  BY <1>2, <1>3, <1>4
<1>6. todo[1].f \in Saved \cup {"secret"}
  BY <1>2, <1>5, StepFacts
<1>7. ASSUME NEW i \in 1..a PROVE todo[i].do \in OnDisk
  <2>1. CASE todo[1].do = "remove"
    <3>1. a = 1
      BY <1>1, <1>2, <2>1, AheadIs
    <3>. QED  BY <1>2, <1>7, <3>1
  <2>2. CASE todo[1].do # "remove"
    <3>1. i \in 1..n /\ i <= a /\ a > 0
      BY <1>3, <1>4
    <3>2. todo[i].do = DoAt(a - i + 1)
      BY <1>1, <1>3, <2>2, <3>1 DEF FilesInv, Script
    <3>. QED  BY <3>2 DEF DoAt, OnDisk
  <2>. QED  BY <2>1, <2>2
<1>8. ASSUME todo[1].f = "secret" PROVE Pending("apply") /\ ~Pending("incoming") /\ ~Pending("answer")
  <2>1. n > a /\ \A i \in 1..n : i > a => todo[i].do = "apply"
    BY <1>1, <1>3, <1>8 DEF FilesInv, Script
  <2>2. a + 1 \in 1..n /\ a + 1 > a
    BY <1>3, <2>1
  <2>3. ASSUME NEW i \in 1..n PROVE todo[i].do # "incoming" /\ todo[i].do # "answer"
    <3>1. i \in 1..a \/ i > a
      BY <1>3
    <3>. QED  BY <1>7, <2>1, <3>1 DEF OnDisk
  <2>. QED  BY <1>3, <2>1, <2>2, <2>3 DEF Pending
<1>. QED  BY <1>1, <1>2, <1>3, <1>4, <1>5, <1>6, <1>7, <1>8

\* Steps on the file of a command are done, or given up.
LEMMA FileStepKeeps ==
    ASSUME FilesInv, up, NEW k \in 1..Ahead, Shifted(k),
           UNCHANGED <<up, mem, engine, page, saves, told, gone, behind>>,
           DOMAIN file' = D!Files, DOMAIN tmp' = D!Files, DOMAIN kept' = D!Files,
           D!Value("settings")' \in Switches, D!Value("book")' \in Book, Kept',
           D!Value("secret")' = D!Value("secret") \/ (todo[1].f = "secret" /\ k = Ahead),
           gone \cap D!Value("book")' = {}
    PROVE  FilesInv'
<1>1. k \in Nat /\ k > 0 /\ k <= Ahead /\ Ahead > 0
  BY AheadIs
<1>2. FilesOK /\ Script /\ \A f \in Saved : mem'[f] = mem[f]
  BY DEF FilesInv
<1>3. /\ Script' /\ Ahead' = IF k < Ahead THEN Ahead - k ELSE 0
      /\ Ahead' > 0 => todo'[1].f = todo[1].f
  BY <1>1, <1>2, ScriptShifts
<1>4. \A i \in 1..k : todo[i].do \in OnDisk
  <2>1. \A i \in 1..Ahead : todo[i].do \in OnDisk
    BY <1>1, AheadOfPending
  <2>2. \A i \in 1..k : i \in 1..Ahead
    BY <1>1, AheadIs
  <2>. QED  BY <2>1, <2>2
<1>5. ASSUME NEW x \in {"incoming", "apply", "answer"} PROVE Pending(x)' <=> Pending(x)
  <2>1. x \notin OnDisk
    BY DEF OnDisk
  <2>2. \A i \in 1..k : todo[i].do # x
    BY <1>4, <2>1
  <2>. QED  BY <2>2, PendingShifts
<1>6. Leaving'
  BY LeavingShifts DEF FilesInv, Outside
<1>7. D!Value("secret")' = D!Value("secret") => (Same' <=> Same)
  BY DEF Same, Wanted, D!Apply
<1>8. Follows'
  <2>1. CASE D!Value("secret")' = D!Value("secret")
    BY <1>1, <1>3, <1>5, <1>7, <2>1 DEF FilesInv, Follows
  <2>2. CASE todo[1].f = "secret" /\ k = Ahead
    <3>1. Ahead' = 0 /\ Pending("apply")'
      BY <1>1, <1>3, <1>5, <2>2, AheadOfPending
    <3>. QED  BY <1>5, <3>1 DEF FilesInv, Follows
  <2>. QED  BY <2>1, <2>2
<1>9. FilesOK'
  BY DEF FilesInv, FilesOK, Shifted
<1>10. Outside'
  BY <1>6 DEF FilesInv, Outside
<1>. QED  BY <1>3, <1>8, <1>9, <1>10 DEF FilesInv

LEMMA OnFileFacts ==
    ASSUME FilesInv, D!OnFile, todo[1].do \in OnDisk
    PROVE  /\ up /\ Shifted(1) /\ Ahead > 0 /\ 1 \in 1..Ahead /\ D!Next1 = todo[1]
           /\ UNCHANGED <<up, mem, engine, page, saves, told, gone, behind>>
           /\ todo[1] \in Steps /\ todo[1].f \in Saved \cup {"secret"} /\ todo[1].f \in D!Files
<1>1. up /\ todo # <<>> /\ todo' = Tail(todo)
      /\ UNCHANGED <<up, mem, engine, page, saves, told, gone, behind>>
  BY DEF D!OnFile
<1>2. Shifted(1) /\ Head(todo) = todo[1]
  BY <1>1, TailShifts DEF FilesInv, FilesOK
<1>3. Ahead > 0 /\ 1 \in 1..Ahead
  BY <1>1, AheadIs
<1>4. todo[1] \in Steps /\ todo[1].f \in Saved \cup {"secret"}
  BY <1>3, AheadOfPending
<1>. QED  BY <1>1, <1>2, <1>3, <1>4 DEF D!Next1, Saved, D!Files

LEMMA StepOpenKeeps ==
    ASSUME FilesInv, D!StepOpen
    PROVE  FilesInv'
<1>1. D!OnFile /\ D!Next1.do = "open" /\ tmp' = [tmp EXCEPT ![D!Next1.f] = D!Torn]
      /\ UNCHANGED <<file, kept>>
  BY DEF D!StepOpen, D!Open
<1>2. todo[1].do = "open" /\ todo[1].do \in OnDisk
  BY <1>1, TailShifts DEF D!OnFile, D!Next1, FilesInv, FilesOK, OnDisk
<1>3. /\ up /\ Shifted(1) /\ 1 \in 1..Ahead /\ Ahead = 3
      /\ UNCHANGED <<up, mem, engine, page, saves, told, gone, behind>>
  BY <1>1, <1>2, OnFileFacts, AheadIs DEF D!OnFile
<1>4. Ahead' = 2 /\ todo'[1].f = todo[1].f
  <2>1. \A f \in Saved : mem'[f] = mem[f]
    BY <1>3
  <2>2. 1 > 0 /\ 1 <= Ahead /\ 1 < Ahead /\ Ahead - 1 = 2 /\ 2 > 0
    BY <1>3
  <2>3. /\ Ahead' = IF 1 < Ahead THEN Ahead - 1 ELSE 0
        /\ Ahead' > 0 => todo'[1].f = todo[1].f
    BY <1>3, <2>1, <2>2, ScriptShifts DEF FilesInv
  <2>. QED  BY <2>2, <2>3
<1>5. \A g : D!Value(g)' = D!Value(g)
  BY <1>1 DEF D!Value
<1>6. Kept'
  <2>1. \A g \in D!Files : kept'[g] # D!None => D!Value(g)' = kept'[g][1]
    BY <1>1, <1>5 DEF FilesInv, Kept
  <2>2. \A g \in D!Files \ {"secret"} :
          kept'[g] = D!None \/ mem'[g] = kept'[g][1] \/ (Ahead' > 0 /\ todo'[1].f = g)
    BY <1>1, <1>3, <1>4 DEF FilesInv, Kept
  <2>. QED  BY <1>4, <2>1, <2>2 DEF Kept
<1>7. DOMAIN file' = D!Files /\ DOMAIN tmp' = D!Files /\ DOMAIN kept' = D!Files
  BY <1>1 DEF FilesInv, FilesOK
<1>8. D!Value("settings")' \in Switches /\ D!Value("book")' \in Book /\ gone \cap D!Value("book")' = {}
  BY <1>5 DEF FilesInv, FilesOK, Outside
<1>. QED  BY <1>3, <1>5, <1>6, <1>7, <1>8, FileStepKeeps

LEMMA StepWriteKeeps ==
    ASSUME FilesInv, D!StepWrite
    PROVE  FilesInv'
<1>1. D!OnFile /\ D!Next1.do = "write" /\ tmp' = [tmp EXCEPT ![D!Next1.f] = <<D!Next1.v>>]
      /\ UNCHANGED <<file, kept>>
  BY DEF D!StepWrite
<1>2. todo[1].do = "write" /\ todo[1].do \in OnDisk
  BY <1>1, TailShifts DEF D!OnFile, D!Next1, FilesInv, FilesOK, OnDisk
<1>3. /\ up /\ Shifted(1) /\ 1 \in 1..Ahead /\ Ahead = 2 /\ D!Next1 = todo[1]
      /\ UNCHANGED <<up, mem, engine, page, saves, told, gone, behind>> /\ todo[1].f \in D!Files
  BY <1>1, <1>2, OnFileFacts, AheadIs DEF D!OnFile
<1>4. Ahead' = 1 /\ todo'[1].f = todo[1].f /\ todo'[1].v = todo[1].v
  <2>1. \A f \in Saved : mem'[f] = mem[f]
    BY <1>3
  <2>2. 1 > 0 /\ 1 <= Ahead /\ 1 < Ahead /\ Ahead - 1 = 1
    BY <1>3
  <2>3. /\ Ahead' = IF 1 < Ahead THEN Ahead - 1 ELSE 0
        /\ Ahead' > 0 => todo'[1].f = todo[1].f /\ todo'[1].v = todo[1].v
    BY <1>3, <2>1, <2>2, ScriptShifts DEF FilesInv
  <2>. QED  BY <2>2, <2>3
<1>5. \A g : D!Value(g)' = D!Value(g)
  BY <1>1 DEF D!Value
<1>6. Kept'
  <2>1. \A g \in D!Files : kept'[g] # D!None => D!Value(g)' = kept'[g][1]
    BY <1>1, <1>5 DEF FilesInv, Kept
  <2>2. \A g \in D!Files \ {"secret"} :
          kept'[g] = D!None \/ mem'[g] = kept'[g][1] \/ (Ahead' > 0 /\ todo'[1].f = g)
    BY <1>1, <1>3, <1>4 DEF FilesInv, Kept
  <2>3. tmp'[todo'[1].f] = <<todo'[1].v>>
    BY <1>1, <1>3, <1>4 DEF FilesInv, FilesOK
  <2>. QED  BY <2>1, <2>2, <2>3 DEF Kept
<1>7. DOMAIN file' = D!Files /\ DOMAIN tmp' = D!Files /\ DOMAIN kept' = D!Files
  BY <1>1 DEF FilesInv, FilesOK
<1>8. D!Value("settings")' \in Switches /\ D!Value("book")' \in Book /\ gone \cap D!Value("book")' = {}
  BY <1>5 DEF FilesInv, FilesOK, Outside
<1>. QED  BY <1>3, <1>5, <1>6, <1>7, <1>8, FileStepKeeps

\* The file is replaced by the whole copy, or is gone: the last of the steps on it.
LEMMA FileReplaced ==
    ASSUME FilesInv, D!OnFile, todo[1].do \in OnDisk, Ahead = 1,
           NEW f, f = todo[1].f, NEW v,
           DOMAIN file' = D!Files, DOMAIN tmp' = D!Files, DOMAIN kept' = D!Files,
           D!Value(f)' = v, kept'[f] = <<v>>,
           \A g \in D!Files \ {f} : file'[g] = file[g] /\ kept'[g] = kept[g],
           f = "settings" => v \in Switches, f = "book" => v \in Book, f \in Saved => v = mem[f]
    PROVE  FilesInv'
<1>1. /\ up /\ Shifted(1) /\ 1 \in 1..Ahead /\ todo[1] \in Steps /\ f \in Saved \cup {"secret"}
      /\ UNCHANGED <<up, mem, engine, page, saves, told, gone, behind>> /\ f \in D!Files
  BY OnFileFacts DEF D!OnFile
<1>2. \A g \in D!Files \ {f} : D!Value(g)' = D!Value(g)
  BY DEF D!Value
<1>3. ~(Ahead' = 1)
  <2>1. \A g \in Saved : mem'[g] = mem[g]
    BY <1>1
  <2>2. 1 > 0 /\ 1 <= Ahead /\ ~(1 < Ahead)
    BY <1>1
  <2>3. Ahead' = IF 1 < Ahead THEN Ahead - 1 ELSE 0
    BY <1>1, <2>1, <2>2, ScriptShifts DEF FilesInv
  <2>. QED  BY <2>2, <2>3
<1>4. Kept'
  <2>1. \A g \in D!Files : kept'[g] # D!None => D!Value(g)' = kept'[g][1]
    BY <1>2 DEF FilesInv, Kept
  <2>2. ASSUME NEW g \in D!Files \ {"secret"} PROVE kept'[g] = D!None \/ mem'[g] = kept'[g][1]
    <3>1. CASE g = f
      BY <1>1, <3>1
    <3>2. CASE g # f
      BY <1>1, <3>2 DEF FilesInv, Kept
    <3>. QED  BY <3>1, <3>2
  <2>. QED  BY <1>3, <2>1, <2>2 DEF Kept
<1>5. D!Value("settings")' \in Switches
  <2>1. CASE f = "settings"
    BY <2>1
  <2>2. CASE f # "settings"
    <3>1. D!Value("settings")' = D!Value("settings")
      BY <1>2, <2>2 DEF D!Files
    <3>. QED  BY <3>1 DEF FilesInv, FilesOK
  <2>. QED  BY <2>1, <2>2
<1>6. D!Value("book")' \in Book /\ gone \cap D!Value("book")' = {}
  <2>1. CASE f = "book"
    <3>1. gone \cap mem.book = {} /\ v = mem["book"] /\ v \in Book
      BY <1>1, <2>1 DEF FilesInv, Outside, Saved
    <3>. QED  BY <2>1, <3>1
  <2>2. CASE f # "book"
    <3>1. D!Value("book")' = D!Value("book")
      BY <1>2, <2>2 DEF D!Files
    <3>. QED  BY <3>1 DEF FilesInv, FilesOK, Outside
  <2>. QED  BY <2>1, <2>2
<1>7. D!Value("secret")' = D!Value("secret") \/ (todo[1].f = "secret" /\ 1 = Ahead)
  BY <1>2 DEF D!Files
<1>. QED  BY <1>1, <1>4, <1>5, <1>6, <1>7, FileStepKeeps

LEMMA StepRenameKeeps ==
    ASSUME FilesInv, D!StepRename
    PROVE  FilesInv'
<1>0. PICK f, v : f = todo[1].f /\ v = todo[1].v
  OBVIOUS
<1>1. /\ D!OnFile /\ D!Next1.do = "rename"
      /\ file' = [file EXCEPT ![D!Next1.f] = tmp[D!Next1.f]]
      /\ tmp' = [tmp EXCEPT ![D!Next1.f] = D!None]
      /\ kept' = [kept EXCEPT ![D!Next1.f] = <<D!Next1.v>>]
  BY DEF D!StepRename
<1>2. todo[1].do = "rename" /\ todo[1].do \in OnDisk
  BY <1>1, TailShifts DEF D!OnFile, D!Next1, FilesInv, FilesOK, OnDisk
<1>3. /\ up /\ Ahead = 1 /\ Ahead > 0 /\ D!Next1 = todo[1] /\ todo[1] \in Steps
      /\ f \in Saved \cup {"secret"} /\ f \in D!Files
  BY <1>0, <1>1, <1>2, OnFileFacts, AheadIs DEF D!OnFile
<1>4. tmp[f] = <<v>>
  BY <1>0, <1>2, <1>3 DEF FilesInv, Kept
<1>5. /\ f = "settings" => v \in Switches
      /\ f = "book" => v \in Book
  BY <1>0, <1>2, <1>3, StepFacts DEF Saves
<1>6. f \in Saved => v = mem[f]
  BY <1>0, <1>3 DEF FilesInv, Script
<1>7. /\ DOMAIN file' = D!Files /\ DOMAIN tmp' = D!Files /\ DOMAIN kept' = D!Files
      /\ file'[f] = <<v>> /\ kept'[f] = <<v>>
      /\ \A g \in D!Files \ {f} : file'[g] = file[g] /\ kept'[g] = kept[g]
  BY <1>0, <1>1, <1>3, <1>4 DEF FilesInv, FilesOK
<1>8. D!Value(f)' = v
  BY <1>7 DEF D!Value
<1>. QED  BY <1>0, <1>1, <1>2, <1>3, <1>5, <1>6, <1>7, <1>8, FileReplaced

LEMMA StepRemoveKeeps ==
    ASSUME FilesInv, D!StepRemove
    PROVE  FilesInv'
<1>1. /\ D!OnFile /\ D!Next1.do = "remove"
      /\ file' = [file EXCEPT ![D!Next1.f] = D!None] /\ tmp' = tmp
      /\ kept' = [kept EXCEPT ![D!Next1.f] = <<D!Default(D!Next1.f)>>]
  BY DEF D!StepRemove
<1>2. todo[1].do = "remove" /\ todo[1].do \in OnDisk
  BY <1>1, TailShifts DEF D!OnFile, D!Next1, FilesInv, FilesOK, OnDisk
<1>3. /\ up /\ Ahead = 1 /\ D!Next1 = todo[1] /\ todo[1] \in Steps
  BY <1>1, <1>2, OnFileFacts, AheadIs DEF D!OnFile
<1>4. todo[1].f = "secret"
  BY <1>2, <1>3, StepFacts
<1>5. /\ DOMAIN file' = D!Files /\ DOMAIN tmp' = D!Files /\ DOMAIN kept' = D!Files
      /\ file'["secret"] = <<>> /\ kept'["secret"] = <<D!Default("secret")>>
      /\ \A g \in D!Files \ {"secret"} : file'[g] = file[g] /\ kept'[g] = kept[g]
  BY <1>1, <1>3, <1>4 DEF FilesInv, FilesOK, D!None, D!Files
<1>6. D!Value("secret")' = D!Default("secret")
  <2>1. Len(<<>>) = 0
    OBVIOUS
  <2>. QED  BY <1>5, <2>1 DEF D!Value
<1>7. "secret" \notin Saved
  BY DEF Saved
<1>. QED  BY <1>1, <1>2, <1>3, <1>4, <1>5, <1>6, <1>7, FileReplaced

\* A step on a file fails: the rest of the save is given up, and with that of the
\* password the command.
LEMMA StepFailsKeeps ==
    ASSUME FilesInv, D!StepFails
    PROVE  FilesInv'
<1>. DEFINE a == D!Left(todo[1])
<1>1. /\ up /\ todo # <<>> /\ todo \in Seq(Steps)
      /\ UNCHANGED <<up, mem, engine, page, saves, told, file, tmp, gone, behind>>
  BY DEF D!StepFails, FilesInv, FilesOK
<1>2. D!Next1 = todo[1]
  BY <1>1 DEF D!Next1
<1>3. /\ todo[1].do \in OnDisk
      /\ IF todo[1].f = "secret" /\ todo[1].do # "remove"
         THEN todo' = <<>> /\ kept' = kept
         ELSE /\ todo' = SubSeq(todo, a + 1, Len(todo))
              /\ kept' = [kept EXCEPT ![todo[1].f] = D!None]
  BY <1>2 DEF D!StepFails, OnDisk
<1>4. Ahead = a /\ Ahead > 0 /\ Ahead \in {0, 1, 2, 3}
  BY <1>1, <1>3, AheadIs DEF Ahead
<1>5. \A g : D!Value(g)' = D!Value(g)
  BY <1>1 DEF D!Value
<1>6. CASE todo[1].f = "secret" /\ todo[1].do # "remove"
  <2>1. todo' = <<>> /\ kept' = kept
    BY <1>3, <1>6
  <2>2. Ahead' = 0 /\ Script' /\ Leaving'
    BY <2>1, NothingToDo
  <2>3. Pending("apply") /\ ~Pending("incoming") /\ ~Pending("answer")
    BY <1>4, <1>6, AheadOfPending
  <2>4. Same' <=> Same
    BY <1>1, <1>5 DEF Same, Wanted, D!Apply
  <2>5. Follows'
    BY <1>1, <1>4, <1>6, <2>2, <2>3, <2>4 DEF FilesInv, Follows
  <2>6. Kept'
    <3>1. \A g \in D!Files : kept'[g] # D!None => D!Value(g)' = kept'[g][1]
      BY <2>1, <1>5 DEF FilesInv, Kept
    <3>2. \A g \in D!Files \ {"secret"} : kept'[g] = D!None \/ mem'[g] = kept'[g][1]
      BY <1>1, <1>6, <2>1 DEF FilesInv, Kept
    <3>. QED  BY <2>2, <3>1, <3>2 DEF Kept
  <2>7. FilesOK'
    BY <1>1, <1>5, <2>1 DEF FilesInv, FilesOK
  <2>8. Outside'
    BY <1>1, <1>5, <2>2 DEF FilesInv, Outside
  <2>. QED  BY <2>2, <2>5, <2>6, <2>7, <2>8 DEF FilesInv
<1>7. CASE ~(todo[1].f = "secret" /\ todo[1].do # "remove")
  <2>1. PICK k \in {1, 2, 3} : k = Ahead
    BY <1>4
  <2>2. k \in Nat /\ k <= Len(todo) /\ k \in 1..Ahead /\ k > 0 /\ k <= Ahead /\ ~(k < Ahead)
    BY <2>1 DEF FilesInv, Script
  <2>3. todo' = SubSeq(todo, k + 1, Len(todo)) /\ kept' = [kept EXCEPT ![todo[1].f] = D!None]
    BY <1>3, <1>4, <1>7, <2>1
  <2>4. Shifted(k)
    BY <1>1, <2>2, <2>3, RestShifts
  <2>5. Ahead' = 0
    <3>1. \A f \in Saved : mem'[f] = mem[f]
      BY <1>1
    <3>2. Ahead' = IF k < Ahead THEN Ahead - k ELSE 0
      BY <2>2, <2>4, <3>1, ScriptShifts DEF FilesInv
    <3>. QED  BY <2>2, <3>2
  <2>6. Kept'
    <3>1. \A g \in D!Files : kept'[g] # D!None => D!Value(g)' = kept'[g][1]
      BY <1>5, <2>3 DEF FilesInv, FilesOK, Kept
    <3>2. \A g \in D!Files \ {"secret"} : kept'[g] = D!None \/ mem'[g] = kept'[g][1]
      BY <1>1, <2>3 DEF FilesInv, FilesOK, Kept
    <3>. QED  BY <2>5, <3>1, <3>2 DEF Kept
  <2>7. DOMAIN file' = D!Files /\ DOMAIN tmp' = D!Files /\ DOMAIN kept' = D!Files
    BY <1>1, <2>3 DEF FilesInv, FilesOK
  <2>8. /\ D!Value("settings")' \in Switches /\ D!Value("book")' \in Book
        /\ gone \cap D!Value("book")' = {} /\ D!Value("secret")' = D!Value("secret")
    BY <1>5 DEF FilesInv, FilesOK, Outside
  <2>. QED  BY <1>1, <2>2, <2>4, <2>6, <2>7, <2>8, FileStepKeeps
<1>. QED  BY <1>6, <1>7

\* The engine, the page or the user learns what has changed.
LEMMA StepEngineKeeps ==
    ASSUME FilesInv, D!StepEngine
    PROVE  FilesInv'
<1>. DEFINE x == todo[1].do
<1>1. /\ up /\ todo # <<>> /\ todo \in Seq(Steps) /\ todo' = Tail(todo)
      /\ UNCHANGED <<up, mem, saves, told, file, tmp, kept>>
  BY DEF D!StepEngine, FilesInv, FilesOK
<1>2. Shifted(1) /\ todo[1] \in Steps /\ D!Next1 = todo[1] /\ Len(todo) \in Nat /\ Len(todo) > 0
  BY <1>1, TailShifts DEF D!Next1
<1>3. /\ x \in {"incoming", "apply", "autostart", "answer", "revoked"}
      /\ engine' = CASE x = "incoming" -> [engine EXCEPT !.incoming = mem.settings.incoming]
                     [] x = "apply" -> [D!Apply(mem, D!Value("secret")) EXCEPT !.incoming = engine.incoming]
                     [] OTHER -> engine
      /\ page' = IF x = "answer" THEN mem.settings ELSE page
      /\ behind' = (behind /\ x # "answer")
      /\ gone' = IF x = "revoked" /\ kept["book"] # D!None THEN gone \cup todo[1].devs ELSE gone
  BY <1>2 DEF D!StepEngine
<1>4. Ahead = 0
  BY <1>3, AheadIs DEF OnDisk
<1>5. Script' /\ Ahead' = 0
  <2>1. \A f \in Saved : mem'[f] = mem[f]
    BY <1>1
  <2>2. 1 \in Nat /\ 1 > 0 /\ ~(1 < Ahead) /\ (1 <= Ahead \/ (Ahead = 0 /\ 1 = 1))
    BY <1>4
  <2>3. FilesOK /\ Script
    BY DEF FilesInv
  <2>. QED  BY <1>2, <2>1, <2>2, <2>3, ScriptShifts
<1>6. ASSUME NEW y, y # x PROVE Pending(y)' <=> Pending(y)
  <2>1. \A i \in 1..1 : todo[i].do # y
    BY <1>6
  <2>. QED  BY <1>2, <2>1, PendingShifts
<1>7. Leaving'
  BY <1>1, <1>2, LeavingShifts DEF FilesInv, Outside
<1>8. \A g : D!Value(g)' = D!Value(g)
  BY <1>1 DEF D!Value
<1>9. Kept'
  BY <1>1, <1>4, <1>5, <1>8 DEF FilesInv, Kept
<1>10. /\ mem.settings \in Switches /\ mem.book \in Book /\ page \in Switches /\ gone \in Book
       /\ engine \in [incoming : BOOLEAN, unattended : BOOLEAN, authorized : Book]
       /\ gone \cap mem.book = {} /\ gone \cap engine.authorized = {}
  BY <1>1 DEF FilesInv, FilesOK, Outside
<1>11. Wanted' = Wanted
  BY <1>1, <1>8 DEF Wanted
<1>12. /\ engine' \in [incoming : BOOLEAN, unattended : BOOLEAN, authorized : Book]
       /\ (x = "incoming" => engine'.incoming = mem.settings.incoming)
       /\ (x # "incoming" => engine'.incoming = engine.incoming)
       /\ (x = "apply" => Same')
       /\ (x # "apply" => (Same' <=> Same))
       /\ engine'.authorized = IF x = "apply" THEN mem.book ELSE engine.authorized
  <2>1. CASE x = "incoming"
    <3>1. mem.settings.incoming \in BOOLEAN
      BY <1>10 DEF Switches
    <3>2. engine' = [engine EXCEPT !.incoming = mem.settings.incoming]
      BY <1>3, <2>1
    <3>3. /\ engine' \in [incoming : BOOLEAN, unattended : BOOLEAN, authorized : Book]
          /\ engine'.incoming = mem.settings.incoming /\ engine'.unattended = engine.unattended
          /\ engine'.authorized = engine.authorized
      BY <1>10, <3>1, <3>2
    <3>. QED  BY <1>11, <2>1, <3>3 DEF Same
  <2>2. CASE x = "apply"
    <3>1. engine' = [D!Apply(mem, D!Value("secret")) EXCEPT !.incoming = engine.incoming]
      BY <1>3, <2>2
    <3>2. /\ engine'.incoming = engine.incoming /\ engine'.authorized = mem.book
          /\ engine'.unattended = (mem.settings.unattended /\ D!Value("secret") # "none")
          /\ engine' = [incoming |-> engine'.incoming, unattended |-> engine'.unattended,
                        authorized |-> engine'.authorized]
      BY <3>1 DEF D!Apply
    <3>3. (mem.settings.unattended /\ D!Value("secret") # "none") \in BOOLEAN
      OBVIOUS
    <3>4. engine'.incoming \in BOOLEAN /\ engine'.unattended \in BOOLEAN /\ engine'.authorized \in Book
      BY <1>10, <3>2, <3>3
    <3>5. engine' \in [incoming : BOOLEAN, unattended : BOOLEAN, authorized : Book]
      BY <3>2, <3>4
    <3>6. Same'
      BY <1>11, <3>2 DEF Same, Wanted, D!Apply
    <3>. QED  BY <2>2, <3>2, <3>5, <3>6
  <2>3. CASE x \in {"autostart", "answer", "revoked"}
    <3>1. engine' = engine
      BY <1>3, <2>3
    <3>. QED  BY <1>10, <1>11, <2>3, <3>1 DEF Same
  <2>. QED  BY <1>3, <2>1, <2>2, <2>3
<1>. HIDE DEF x
<1>13. Follows'
  <2>1. Pending("incoming")' \/ engine'.incoming = mem'.settings.incoming
    <3>1. CASE x = "incoming"
      BY <1>1, <1>12, <3>1
    <3>2. CASE x # "incoming"
      <4>1. Pending("incoming")' <=> Pending("incoming")
        BY <1>6, <3>2
      <4>. QED  BY <1>1, <1>12, <3>2, <4>1 DEF FilesInv, Follows
    <3>. QED  BY <3>1, <3>2
  <2>2. Pending("apply")' \/ Same'
    <3>1. CASE x = "apply"
      BY <1>12, <3>1
    <3>2. CASE x # "apply"
      <4>1. Pending("apply")' <=> Pending("apply")
        BY <1>6, <3>2
      <4>. QED  BY <1>1, <1>12, <3>2, <4>1 DEF FilesInv, Follows
    <3>. QED  BY <3>1, <3>2
  <2>3. told' \/ saves' # <<>> \/ Pending("answer")' \/ behind' \/ page' = mem'.settings
    <3>1. CASE x = "answer"
      BY <1>1, <1>3, <3>1
    <3>2. CASE x # "answer"
      <4>1. Pending("answer")' <=> Pending("answer")
        BY <1>6, <3>2
      <4>2. told \/ saves # <<>> \/ Pending("answer") \/ behind \/ page = mem.settings
        BY <1>1 DEF FilesInv, Follows
      <4>. QED  BY <1>1, <1>3, <3>2, <4>1, <4>2
    <3>. QED  BY <3>1, <3>2
  <2>4. ~(Ahead' > 0)
    BY <1>5
  <2>. QED  BY <2>1, <2>2, <2>3, <2>4 DEF Follows
<1>14. gone' \in Book /\ gone' \cap D!Value("book")' = {} /\ gone' \cap mem.book = {}
       /\ gone' \cap engine'.authorized = {}
  <2>1. CASE x = "revoked" /\ kept["book"] # D!None
    <3>1. PICK n \in Nat : n = Len(todo)
      BY <1>2
    <3>2. 1 \in 1..n /\ \A j \in 1..n : ~(j < 1)
      BY <1>2, <3>1
    <3>3. Leaving
      BY DEF FilesInv, Outside
    <3>4. /\ todo[1].devs \cap mem.book = {}
          /\ \A j \in 1..n : todo[j].do # "apply"
      BY <2>1, <3>1, <3>2, <3>3 DEF Leaving, x
    <3>5. ~Pending("apply")
      BY <3>1, <3>4 DEF Pending
    <3>6. engine.authorized = mem.book
      BY <1>1, <3>5 DEF FilesInv, Follows, Same, Wanted, D!Apply
    <3>7. "book" \in D!Files \ {"secret"} /\ ~(Ahead > 0)
      BY <1>4 DEF D!Files
    <3>8. D!Value("book") = mem["book"]
      BY <1>1, <2>1, <3>7 DEF FilesInv, Kept
    <3>9. todo[1].devs \in Book
      BY <1>2, <2>1, StepFacts DEF x
    <3>10. gone' = gone \cup todo[1].devs /\ engine'.authorized = mem.book
      BY <1>3, <1>12, <2>1, <3>6
    <3>11. gone' \in Book /\ gone' \cap mem.book = {}
      BY <1>10, <3>4, <3>9, <3>10 DEF Book
    <3>12. D!Value("book")' = mem.book
      BY <1>8, <3>8
    <3>. QED  BY <3>10, <3>11, <3>12
  <2>2. CASE ~(x = "revoked" /\ kept["book"] # D!None)
    <3>1. gone' = gone
      BY <1>3, <2>2
    <3>2. gone \cap D!Value("book")' = {}
      BY <1>8 DEF FilesInv, Outside
    <3>. QED  BY <1>10, <1>12, <3>1, <3>2
  <2>. QED  BY <2>1, <2>2
<1>15. Outside'
  BY <1>1, <1>7, <1>14 DEF Outside
<1>16. FilesOK'
  <2>1. todo' \in Seq(Steps)
    BY <1>2 DEF Shifted
  <2>2. page' \in Switches
    BY <1>3, <1>10
  <2>. QED  BY <1>1, <1>8, <1>12, <1>14, <2>1, <2>2 DEF FilesInv, FilesOK
<1>. QED  BY <1>5, <1>9, <1>13, <1>15, <1>16 DEF FilesInv

\* Windows refuses the entry: the engine has been told by then, and the page was refused.
LEMMA AutostartFailsKeeps ==
    ASSUME FilesInv, D!AutostartFails
    PROVE  FilesInv'
<1>1. /\ up /\ todo # <<>> /\ todo \in Seq(Steps) /\ todo' = <<>> /\ behind' = TRUE
      /\ UNCHANGED <<up, mem, engine, page, saves, told, file, tmp, kept, gone>>
  BY DEF D!AutostartFails, FilesInv, FilesOK
<1>2. todo[1].do = "autostart" /\ Len(todo) \in Nat /\ Len(todo) > 0
  BY <1>1 DEF D!AutostartFails, D!Next1
<1>3. Ahead = 0
  BY <1>2, AheadIs DEF OnDisk
<1>4. ~Pending("incoming") /\ ~Pending("apply")
  <2>1. PICK n \in Nat : n = Len(todo)
    BY <1>2
  <2>2. 1 \in 1..n /\ \A j \in 1..n : ~(j < 1)
    BY <1>2, <2>1
  <2>. QED  BY <1>2, <2>1, <2>2 DEF FilesInv, Script, Ordered, Pending
<1>5. Ahead' = 0 /\ Script' /\ Leaving'
  BY <1>1, NothingToDo
<1>6. \A g : D!Value(g)' = D!Value(g)
  BY <1>1 DEF D!Value
<1>7. Same' <=> Same
  BY <1>1, <1>6 DEF Same, Wanted, D!Apply
<1>8. Follows'
  BY <1>1, <1>4, <1>5, <1>7 DEF FilesInv, Follows
<1>9. Kept'
  BY <1>1, <1>3, <1>5, <1>6 DEF FilesInv, Kept
<1>10. FilesOK'
  BY <1>1, <1>6 DEF FilesInv, FilesOK
<1>11. Outside'
  BY <1>1, <1>5, <1>6 DEF FilesInv, Outside
<1>. QED  BY <1>5, <1>8, <1>9, <1>10, <1>11 DEF FilesInv

-----------------------------------------------------------------------------
(* DeviceFiles: theorems *)

LEMMA FilesInit == ASSUME D!Init PROVE FilesInv
<1>1. /\ up = FALSE /\ todo = <<>> /\ saves = <<>> /\ told = FALSE
      /\ mem = [f \in D!Files |-> D!Default(f)] /\ page = D!NoSwitches /\ engine = D!Off
      /\ file = [f \in D!Files |-> D!None] /\ tmp = [f \in D!Files |-> D!None]
      /\ kept = [f \in D!Files |-> <<D!Default(f)>>] /\ gone = {}
  BY DEF D!Init
<1>2. Len(<<>>) = 0 /\ <<>> \in Seq(Steps) /\ <<>> \in Seq(Switches)
  OBVIOUS
<1>3. \A f \in D!Files : D!Value(f) = D!Default(f)
  BY <1>1, <1>2 DEF D!Value, D!None
<1>4. D!NoSwitches \in Switches /\ {} \in Book
  BY DEF D!NoSwitches, Switches, Book
<1>5. /\ D!Default("settings") = D!NoSwitches /\ D!Default("book") = {}
      /\ "settings" \in D!Files /\ "book" \in D!Files
  BY DEF D!Default, D!Files
<1>6. D!Off \in [incoming : BOOLEAN, unattended : BOOLEAN, authorized : Book]
  BY <1>4 DEF D!Off
<1>7. FilesOK
  BY <1>1, <1>2, <1>3, <1>4, <1>5, <1>6 DEF FilesOK
<1>8. Ahead = 0
  BY <1>1 DEF Ahead
<1>9. Script
  BY <1>1, <1>2, <1>8 DEF Script, Ordered
<1>10. Kept
  BY <1>1, <1>3, <1>8 DEF Kept
<1>11. Follows /\ Outside
  BY <1>1, <1>2 DEF Follows, Outside, Leaving
<1>. QED  BY <1>7, <1>9, <1>10, <1>11 DEF FilesInv

LEMMA FilesUnchanged == ASSUME FilesInv, UNCHANGED files PROVE FilesInv'
<1>1. UNCHANGED <<up, todo, mem, file, tmp, engine, page, saves, told, kept, gone, behind>>
  BY DEF files
<1>2. Script' /\ Ahead' = Ahead /\ Leaving' /\ \A x : Pending(x)' <=> Pending(x)
  BY <1>1, TodoStays
<1>3. \A g : D!Value(g)' = D!Value(g)
  BY <1>1 DEF D!Value
<1>4. Same' <=> Same
  BY <1>1, <1>3 DEF Same, Wanted
<1>5. Follows' /\ Kept' /\ Outside'
  BY <1>1, <1>2, <1>3, <1>4 DEF FilesInv, Follows, Kept, Outside
<1>6. FilesOK'
  BY <1>1, <1>3 DEF FilesInv, FilesOK
<1>. QED  BY <1>2, <1>5, <1>6 DEF FilesInv

LEMMA FilesStep == ASSUME FilesInv, NextAll PROVE FilesInv'
<1>1. CASE OnBroker(Next) \/ OnPictures(V!Next) \/ OnSignaling(S!Next)
  BY <1>1, FilesUnchanged DEF OnBroker, OnPictures, OnSignaling
<1>2. CASE OnFiles(D!Next)
  <2>1. D!Next
    BY <1>2 DEF OnFiles
  <2>2. CASE D!Start \/ D!Die \/ D!PageSaves \/ D!SettingsSave \/ D!TrayToggle \/ D!PageAsks
    BY <2>2, StartKeeps, DieKeeps, PageSavesKeeps, SettingsSaveKeeps, TrayToggleKeeps, PageAsksKeeps
  <2>3. CASE D!Trust \/ D!Revoke \/ D!Touch \/ D!SetPassword \/ D!ClearPassword
    BY <2>3, TrustKeeps, RevokeKeeps, TouchKeeps, SetPasswordKeeps, ClearPasswordKeeps
  <2>4. CASE D!StepOpen \/ D!StepWrite \/ D!StepRename \/ D!StepRemove \/ D!StepFails \/ D!StepEngine
    BY <2>4, StepOpenKeeps, StepWriteKeeps, StepRenameKeeps, StepRemoveKeeps, StepFailsKeeps,
       StepEngineKeeps
  <2>5. CASE D!AutostartFails \/ D!IdentitySave \/ D!IdentityClear
    BY <2>5, AutostartFailsKeeps, IdentityKeeps
  <2>. QED  BY <2>1, <2>2, <2>3, <2>4, <2>5 DEF D!Next
<1>. QED  BY <1>1, <1>2 DEF NextAll

LEMMA FilesAlways == SpecAll => []FilesInv
<1>1. InitAll => FilesInv
  BY FilesInit DEF InitAll
<1>2. FilesInv /\ UNCHANGED allVars => FilesInv'
  BY FilesUnchanged DEF allVars
<1>. QED  BY <1>1, <1>2, FilesStep, PTL DEF SpecAll

\* write_atomic: wherever the process died or a step failed, a file that was saved is read
\* back as it was saved, and between two commands the memory agrees with it.
THEOREM SavedStaysKept == SpecAll => []SavedIsKept
<1>1. FilesInv => SavedIsKept
  <2>. SUFFICES ASSUME FilesInv PROVE SavedIsKept
    OBVIOUS
  <2>1. \A f \in D!Files : kept[f] # D!None => D!Value(f) = kept[f][1]
    BY DEF FilesInv, Kept
  <2>2. ASSUME D!Idle, NEW f \in D!Files \ {"secret"}, kept[f] # D!None PROVE mem[f] = kept[f][1]
    <3>1. up /\ todo = <<>>
      BY <2>2 DEF D!Idle
    <3>. QED  BY <2>2, <3>1, IdleFacts
  <2>. QED  BY <2>1, <2>2 DEF SavedIsKept, D!SavedIsKept
<1>. QED  BY <1>1, FilesAlways, PTL

\* set_incoming_enabled and apply_unattended: between two commands the engine goes by what is in
\* memory and on the disk, whatever failed; so does the page, unless it was told last that its
\* save failed; and who was revoked is in neither.
THEOREM EverybodyAlwaysFollows == SpecAll => []EverybodyFollows
<1>1. FilesInv => EverybodyFollows
  <2>. SUFFICES ASSUME FilesInv PROVE EverybodyFollows
    OBVIOUS
  <2>1. D!RevokedStaysOut
    BY DEF FilesInv, Outside, D!RevokedStaysOut
  <2>2. ASSUME D!Idle PROVE /\ engine = D!Apply(mem, D!Value("secret"))
                            /\ told \/ saves # <<>> \/ behind \/ page = mem.settings
    <3>1. /\ Same /\ engine.incoming = mem.settings.incoming
          /\ told \/ saves # <<>> \/ behind \/ page = mem.settings
      BY <2>2, IdleFacts DEF D!Idle
    <3>2. engine \in [incoming : BOOLEAN, unattended : BOOLEAN, authorized : Book]
      BY DEF FilesInv, FilesOK
    <3>3. engine = [incoming |-> engine.incoming, unattended |-> engine.unattended,
                    authorized |-> engine.authorized]
      BY <3>2
    <3>4. D!Apply(mem, D!Value("secret"))
            = [incoming |-> mem.settings.incoming, unattended |-> Wanted.unattended,
               authorized |-> Wanted.authorized]
      BY DEF Wanted, D!Apply
    <3>. QED  BY <3>1, <3>3, <3>4 DEF Same
  <2>. QED  BY <2>1, <2>2 DEF EverybodyFollows, D!EverybodyFollows
<1>. QED  BY <1>1, FilesAlways, PTL

-----------------------------------------------------------------------------
(* Signaling: the inductive invariant *)

Talking == {"auth", "serve"}

\* What the server will believe when it has received everything.
Believed == IF wire = <<>> THEN accepts ELSE wire[Len(wire)]

\* A value is on its way while the task identifies itself, and only over a connection;
\* the last one is the switch as it is, unless the task has yet to read its last change.
WireOK ==
    /\ phase \notin Talking => wire = <<>>
    /\ phase = "auth" => Len(wire) = 1
    /\ phase \in Talking /\ ~unseen => Believed = incoming

OnlineOK == shown = "online" <=> phase = "serve"

SwitchInv == S!TypeOK /\ WireOK /\ OnlineOK /\ fresh <= issued

\* Every registration follows a refusal that threw an identity away, but for the first of a
\* device that has none; and only the next connection allows another refusal of that kind.
Spent == IF resetUsed THEN 1 ELSE 0
Holds == IF creds # 0 THEN 1 ELSE 0
FreshInv ==
    /\ phase = "register" => creds = 0
    /\ fresh <= Spent + Holds
    /\ era > 0 => (creds = 0 => resetUsed) /\ fresh <= Spent /\ fresh <= Holds

-----------------------------------------------------------------------------
(* Signaling: operators *)

\* A failure ends in a sleep, and tells the user anything but that the device is online.
LEMMA FailsDoes ==
    ASSUME SwitchInv, NEW r, S!Fails(r), phase \in {"connect", "register", "auth"}
    PROVE  /\ phase' = "sleep" /\ out' = <<>> /\ UNCHANGED <<resetUsed, era>>
           /\ step' \in 0..(LastStep + 1) /\ failures' \in 0..2
           /\ shown' \in {"connecting", "reconnecting", "rejected", "unreachable"}
<1>1. shown \in {"connecting", "reconnecting", "rejected", "unreachable"}
  BY DEF SwitchInv, S!TypeOK, OnlineOK
<1>2. step' \in 0..(LastStep + 1) /\ failures' \in 0..2
  BY SignalingAssumption DEF SwitchInv, S!TypeOK, S!Fails
<1>. QED  BY <1>1, <1>2 DEF S!Fails, S!Shown, S!DropQueued

\* What is received last was sent last.
LEMMA BelievedLasts ==
    ASSUME S!TypeOK
    PROVE  /\ \A b \in BOOLEAN : wire' = Append(wire, b) => Believed' = b
           /\ \A b \in BOOLEAN : wire' = <<b>> => Believed' = b
           /\ wire # <<>> /\ wire' = Tail(wire) /\ accepts' = Head(wire) => Believed' = Believed
<1>1. wire \in Seq(BOOLEAN)
  BY DEF S!TypeOK
<1>2. ASSUME NEW b \in BOOLEAN, wire' = Append(wire, b)  PROVE Believed' = b
  <2>1. Len(wire') = Len(wire) + 1 /\ wire'[Len(wire) + 1] = b /\ wire' # <<>>
    BY <1>1, <1>2, AppendProperties
  <2>. QED  BY <2>1 DEF Believed
<1>3. ASSUME NEW b \in BOOLEAN, wire' = <<b>>  PROVE Believed' = b
  <2>1. Len(wire') = 1 /\ wire'[1] = b /\ wire' # <<>>
    BY <1>3
  <2>. QED  BY <2>1 DEF Believed
<1>4. ASSUME wire # <<>>, wire' = Tail(wire), accepts' = Head(wire)
      PROVE  Believed' = Believed
  <2>1. /\ Len(wire) \in Nat /\ Len(wire) > 0 /\ Len(wire') = Len(wire) - 1
        /\ \A i \in 1..Len(wire') : wire'[i] = wire[i + 1]
        /\ Head(wire) = wire[1]
    BY <1>1, <1>4, HeadTailProperties, EmptySeq, LenProperties
  <2>2. CASE Len(wire) = 1
    <3>1. wire' = <<>>
      BY <1>1, <1>4, <2>1, <2>2, EmptySeq, HeadTailProperties
    <3>. QED  BY <1>4, <2>1, <2>2, <3>1 DEF Believed
  <2>3. CASE Len(wire) > 1
    <3>1. wire' # <<>> /\ Len(wire') \in 1..Len(wire')
      BY <2>1, <2>3
    <3>. QED  BY <1>4, <2>1, <3>1 DEF Believed
  <2>. QED  BY <2>1, <2>2, <2>3
<1>. QED  BY <1>2, <1>3, <1>4

\* The two ways to identify oneself send the switch as it is.
LEMMA IdentifyDoes ==
    ASSUME S!TypeOK, S!Identify, UNCHANGED incoming
    PROVE  /\ phase' = "auth" /\ wire' \in Seq(BOOLEAN) /\ Len(wire') = 1
           /\ Believed' = incoming'
<1>1. incoming \in BOOLEAN /\ phase' = "auth" /\ wire' = <<incoming>>
  BY DEF S!TypeOK, S!Identify, S!AuthFlag
<1>2. Believed' = incoming
  BY <1>1, BelievedLasts
<1>. QED  BY <1>1, <1>2

-----------------------------------------------------------------------------
(* Signaling: the steps *)

LEMMA SwitchInit == S!Init => SwitchInv
<1>1. <<>> \in Seq(0..MaxEras) /\ <<>> \in Seq(BOOLEAN) /\ Len(<<>>) = 0
  OBVIOUS
<1>2. S!Init => S!TypeOK
  <2>. SUFFICES ASSUME S!Init  PROVE S!TypeOK
    OBVIOUS
  <2>1. resetUsed \in BOOLEAN /\ incoming \in BOOLEAN /\ unseen \in BOOLEAN /\ accepts \in BOOLEAN
    BY Zenon DEF S!Init
  <2>2. /\ phase = "connect" /\ creds = 0 /\ step = 0 /\ failures = 0 /\ shown = "connecting"
        /\ out = <<>> /\ era = 0 /\ wire = <<>> /\ known = {} /\ issued = 0 /\ mishaps = 0
        /\ fresh = 0
    BY DEF S!Init
  <2>. QED  BY <1>1, <2>1, <2>2, SignalingAssumption DEF S!TypeOK
<1>. QED  BY <1>2 DEF S!Init, SwitchInv, WireOK, OnlineOK, Talking

LEMMA SwitchNext == SwitchInv /\ [S!Next]_S!vars => SwitchInv'
<1>. SUFFICES ASSUME SwitchInv, [S!Next]_S!vars  PROVE SwitchInv'
  OBVIOUS
<1>. USE SignalingAssumption
<1>1. CASE S!Connect
  <2>1. CASE creds = 0
    BY <1>1, <2>1 DEF S!Connect, SwitchInv, S!TypeOK, WireOK, OnlineOK, Talking, S!service
  <2>2. CASE creds # 0
    <3>1. S!Identify /\ UNCHANGED incoming
      BY <1>1, <2>2 DEF S!Connect
    <3>2. /\ phase' = "auth" /\ wire' \in Seq(BOOLEAN) /\ Len(wire') = 1
          /\ Believed' = incoming'
      BY <3>1, IdentifyDoes DEF SwitchInv
    <3>. QED  BY <1>1, <3>2 DEF S!Connect, SwitchInv, S!TypeOK, WireOK, OnlineOK, Talking, S!service
  <2>. QED  BY <2>1, <2>2
<1>2. ASSUME NEW r, S!Fails(r), phase \in {"connect", "register", "auth"}, wire' = <<>>,
             UNCHANGED <<incoming, unseen, accepts, known, issued, fresh>>, creds' = creds,
             mishaps' \in 0..MaxMishaps
      PROVE  SwitchInv'
  <2>1. /\ phase' = "sleep" /\ out' = <<>> /\ UNCHANGED <<resetUsed, era>>
        /\ step' \in 0..(LastStep + 1) /\ failures' \in 0..2
        /\ shown' \in {"connecting", "reconnecting", "rejected", "unreachable"}
    BY <1>2, FailsDoes
  <2>. QED  BY <1>2, <2>1 DEF SwitchInv, S!TypeOK, WireOK, OnlineOK, Talking, S!service
<1>3. CASE S!ConnectFails
  BY <1>2, <1>3 DEF S!ConnectFails, SwitchInv, S!TypeOK, WireOK, Talking, S!switch, S!service
<1>4. CASE S!Registered
  <2>1. /\ phase' = "auth" /\ wire' \in Seq(BOOLEAN) /\ Len(wire') = 1
        /\ Believed' = incoming'
    BY <1>4, IdentifyDoes DEF SwitchInv, S!Registered
  <2>2. /\ issued + 1 \in 1..MaxIds /\ known' \subseteq 1..MaxIds
        /\ fresh' \in 0..MaxIds /\ fresh' <= issued'
    BY <1>4 DEF S!Registered, SwitchInv, S!TypeOK
  <2>. QED  BY <1>4, <2>1, <2>2 DEF S!Registered, SwitchInv, S!TypeOK, WireOK, OnlineOK, Talking
<1>5. CASE S!NotRegistered
  BY <1>2, <1>5 DEF S!NotRegistered, SwitchInv, S!TypeOK, WireOK, Talking, S!switch, S!service
<1>6. CASE S!AuthOk
  <2>1. wire \in Seq(BOOLEAN) /\ Len(wire) = 1
    BY <1>6 DEF SwitchInv, S!TypeOK, WireOK, S!AuthOk
  <2>2. wire # <<>> /\ Head(wire) = wire[1] /\ wire[1] \in BOOLEAN
    BY <2>1
  <2>3. Believed' = Believed
    BY <1>6, <2>1, <2>2 DEF S!AuthOk, Believed
  <2>4. wire' \in Seq(BOOLEAN) /\ Len(wire') = 0
    BY <1>6 DEF S!AuthOk
  <2>5. era' \in 0..MaxEras
    BY <1>6 DEF S!AuthOk, SwitchInv, S!TypeOK
  <2>6. resetUsed' \in BOOLEAN /\ accepts' \in BOOLEAN
    BY <1>6, <2>2, Zenon DEF S!AuthOk
  <2>7. /\ phase' = "serve" /\ failures' = 0 /\ shown' = "online"
        /\ fresh' = 0 /\ UNCHANGED <<creds, step, out, incoming, unseen, known, issued, mishaps>>
    BY <1>6 DEF S!AuthOk
  <2>8. ~unseen' => Believed' = incoming'
    BY <1>6, <2>3, <2>7 DEF S!AuthOk, SwitchInv, WireOK, Talking
  <2>9. S!TypeOK'
    BY <2>4, <2>5, <2>6, <2>7 DEF SwitchInv, S!TypeOK
  <2>10. fresh' <= issued'
    BY <2>7 DEF SwitchInv, S!TypeOK
  <2>11. WireOK' /\ OnlineOK'
    BY <2>4, <2>7, <2>8 DEF WireOK, OnlineOK, Talking
  <2>. QED  BY <2>9, <2>10, <2>11 DEF SwitchInv
<1>7. CASE S!Wake
  BY <1>7 DEF S!Wake, SwitchInv, S!TypeOK, WireOK, OnlineOK, Talking, S!switch, S!service
<1>8. ASSUME NEW r, S!AuthFails(r), mishaps' \in 0..MaxMishaps
      PROVE  SwitchInv'
  <2>1. CASE S!Clears(r)
    BY <1>8, <2>1 DEF S!AuthFails, SwitchInv, S!TypeOK, WireOK, OnlineOK, Talking
  <2>2. CASE ~S!Clears(r)
    BY <1>2, <1>8, <2>2 DEF S!AuthFails
  <2>. QED  BY <2>1, <2>2
<1>17. mishaps \in 0..MaxMishaps
  BY DEF SwitchInv, S!TypeOK
<1>18. CASE S!UnknownRefused
  BY <1>8, <1>17, <1>18 DEF S!UnknownRefused
<1>19. CASE S!KnownRefused
  <2>1. mishaps' \in 0..MaxMishaps
    BY <1>17, <1>19 DEF S!KnownRefused
  <2>. QED  BY <1>8, <1>19, <2>1 DEF S!KnownRefused
<1>20. CASE S!NotAuthenticated
  BY <1>8, <1>17, <1>20 DEF S!NotAuthenticated
<1>9. CASE S!Transmit
  <2>1. out' \in Seq(0..MaxEras) /\ Len(out') <= OutRoom
    BY <1>9, HeadTailProperties DEF S!Transmit, SwitchInv, S!TypeOK
  <2>. QED  BY <1>9, <2>1 DEF S!Transmit, SwitchInv, S!TypeOK, WireOK, OnlineOK, Talking, Believed,
                              S!task, S!switch, S!service
<1>10. CASE S!SendSwitch
  <2>1. /\ wire' \in Seq(BOOLEAN) /\ Len(wire') <= MaxChanges /\ Believed' = incoming'
    BY <1>10, BelievedLasts DEF S!SendSwitch, SwitchInv, S!TypeOK
  <2>. QED  BY <1>10, <2>1 DEF S!SendSwitch, SwitchInv, S!TypeOK, WireOK, OnlineOK, Talking, S!task, S!service
<1>11. CASE S!ServeEnds
  BY <1>11 DEF S!ServeEnds, S!StepAfterSession, S!DropQueued, SwitchInv, S!TypeOK, WireOK, OnlineOK,
               Talking, S!service
<1>12. CASE S!Queue
  <2>1. out' \in Seq(0..MaxEras) /\ Len(out') <= OutRoom
    BY <1>12 DEF S!Queue, SwitchInv, S!TypeOK
  <2>. QED  BY <1>12, <2>1 DEF S!Queue, SwitchInv, S!TypeOK, WireOK, OnlineOK, Talking, Believed,
                               S!task, S!switch, S!service
<1>13. CASE S!SetIncoming
  BY <1>13 DEF S!SetIncoming, SwitchInv, S!TypeOK, WireOK, OnlineOK, Talking, S!task, S!service
<1>14. CASE S!Receive
  <2>1. Believed' = Believed
    BY <1>14, BelievedLasts DEF S!Receive, SwitchInv
  <2>2. /\ wire' \in Seq(BOOLEAN) /\ Len(wire') <= MaxChanges /\ accepts' \in BOOLEAN
    BY <1>14, HeadTailProperties DEF S!Receive, SwitchInv, S!TypeOK
  <2>. QED  BY <1>14, <2>1, <2>2 DEF S!Receive, SwitchInv, S!TypeOK, WireOK, OnlineOK, Talking,
                                     S!task, S!service
<1>15. CASE S!ResetDatabase
  BY <1>15 DEF S!ResetDatabase, SwitchInv, S!TypeOK, WireOK, OnlineOK, Talking, Believed, S!task, S!switch
<1>16. CASE UNCHANGED S!vars
  BY <1>16 DEF S!vars, S!task, S!switch, S!service, SwitchInv, S!TypeOK, WireOK, OnlineOK, Talking, Believed
<1>. QED
  BY <1>1, <1>3, <1>4, <1>5, <1>6, <1>7, <1>9, <1>10, <1>11, <1>12, <1>13, <1>14,
     <1>15, <1>16, <1>18, <1>19, <1>20 DEF S!Next

LEMMA SwitchUnchanged == ASSUME SwitchInv, UNCHANGED signaling PROVE SwitchInv'
<1>1. UNCHANGED S!vars
  BY DEF signaling, S!vars, S!task, S!switch, S!service
<1>. QED  BY <1>1, SwitchNext

LEMMA SwitchStep == ASSUME SwitchInv, NextAll PROVE SwitchInv'
<1>1. CASE OnSignaling(S!Next)
  BY <1>1, SwitchNext DEF OnSignaling
<1>2. CASE OnBroker(Next) \/ OnPictures(V!Next) \/ OnFiles(D!Next)
  BY <1>2, SwitchUnchanged DEF OnBroker, OnPictures, OnFiles
<1>. QED  BY <1>1, <1>2 DEF NextAll

LEMMA SwitchAlways == SpecAll => []SwitchInv
<1>1. InitAll => SwitchInv
  BY SwitchInit DEF InitAll
<1>2. SwitchInv /\ UNCHANGED allVars => SwitchInv'
  BY SwitchUnchanged DEF allVars
<1>. QED  BY <1>1, <1>2, SwitchStep, PTL DEF SpecAll

-----------------------------------------------------------------------------
(* Signaling: theorems *)

\* The server believes what the user chose as soon as nothing is on its way, whenever the
\* user changed it and however often the connection was lost; and the user is told that
\* the device is online exactly while it is.
THEOREM SwitchStaysTrue == SpecAll => []SwitchAgrees
<1>1. SwitchInv => SwitchAgrees
  BY DEF SwitchInv, WireOK, OnlineOK, SwitchAgrees, S!SwitchAgrees, S!IncomingAgrees, Talking, Believed
<1>. QED  BY <1>1, SwitchAlways, PTL

LEMMA FreshNext == SwitchInv /\ FreshInv /\ [S!Next]_S!vars => FreshInv'
<1>. SUFFICES ASSUME SwitchInv, FreshInv, [S!Next]_S!vars  PROVE FreshInv'
  OBVIOUS
<1>. USE DEF FreshInv, Spent, Holds
<1>1. /\ fresh \in Nat /\ era \in Nat /\ creds \in Nat /\ issued \in Nat
      /\ known \subseteq 1..MaxIds
  BY SignalingAssumption DEF SwitchInv, S!TypeOK
<1>2. CASE S!Connect
  BY <1>1, <1>2 DEF S!Connect, S!Identify, S!service
<1>3. ASSUME NEW r, S!Fails(r), UNCHANGED <<creds, fresh>>
      PROVE  FreshInv'
  BY <1>1, <1>3 DEF S!Fails
<1>4. CASE S!Registered
  BY <1>1, <1>4 DEF S!Registered, S!Identify
<1>5. CASE S!AuthOk
  <2>1. creds # 0 /\ creds' = creds /\ fresh' = 0 /\ phase' = "serve" /\ ~resetUsed'
    BY <1>1, <1>5 DEF S!AuthOk
  <2>. QED  BY <2>1
<1>6. ASSUME NEW r, S!AuthFails(r)
      PROVE  FreshInv'
  <2>1. CASE S!Clears(r)
    <3>1. ~resetUsed /\ resetUsed' /\ creds' = 0 /\ phase' = "connect"
          /\ UNCHANGED <<era, fresh>>
      BY <1>6, <2>1 DEF S!AuthFails, S!Clears
    <3>. QED  BY <1>1, <3>1
  <2>2. CASE ~S!Clears(r)
    BY <1>3, <1>6, <2>2 DEF S!AuthFails
  <2>. QED  BY <2>1, <2>2
<1>7. CASE S!UnknownRefused \/ S!KnownRefused \/ S!NotAuthenticated
  BY <1>6, <1>7 DEF S!UnknownRefused, S!KnownRefused, S!NotAuthenticated
<1>8. CASE S!ConnectFails \/ S!NotRegistered
  BY <1>3, <1>8 DEF S!ConnectFails, S!NotRegistered, S!service
<1>9. CASE S!Wake \/ S!ServeEnds
  BY <1>9 DEF S!Wake, S!ServeEnds, S!service
<1>10. CASE UNCHANGED <<phase, creds, resetUsed, era, fresh>>
  BY <1>10
<1>. QED
  BY <1>2, <1>4, <1>5, <1>7, <1>8, <1>9, <1>10 DEF S!Next, S!Transmit, S!SendSwitch, S!Queue,
     S!SetIncoming, S!Receive, S!ResetDatabase, S!vars, S!task, S!service

\* However often the server refuses a device, which it may also do when it knows it, the
\* device registers at most once between two connections, and twice before its first.
THEOREM RegistersAtMostOnce == SpecAll => []RegistersSparingly
<1>1. InitAll => FreshInv
  BY DEF InitAll, S!Init, FreshInv, Spent, Holds
<1>2. SwitchInv /\ FreshInv /\ [NextAll]_allVars => FreshInv'
  <2>. SUFFICES ASSUME SwitchInv, FreshInv, [NextAll]_allVars  PROVE FreshInv'
    OBVIOUS
  <2>1. CASE OnSignaling(S!Next)
    BY <2>1, FreshNext DEF OnSignaling
  <2>2. CASE UNCHANGED signaling
    BY <2>2 DEF signaling, FreshInv, Spent, Holds
  <2>. QED
    BY <2>1, <2>2 DEF NextAll, allVars, OnBroker, OnPictures, OnFiles
<1>3. SwitchInv /\ FreshInv => RegistersSparingly
  <2>. SUFFICES ASSUME SwitchInv, FreshInv  PROVE RegistersSparingly
    OBVIOUS
  <2>1. fresh \in Nat /\ era \in Nat
    BY SignalingAssumption DEF SwitchInv, S!TypeOK
  <2>. QED  BY <2>1 DEF FreshInv, Spent, Holds, RegistersSparingly, S!RegistersSparingly
<1>. QED  BY <1>1, <1>2, <1>3, SwitchAlways, PTL DEF SpecAll
=============================================================================
