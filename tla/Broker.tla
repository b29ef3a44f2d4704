------------------------------- MODULE Broker -------------------------------
(***************************************************************************)
(* The broker of the elevated-control service: the single grant, the       *)
(* thread that serves each pipe connection of the application, the         *)
(* watchdog, and the helper process (agent) that is started for a grant    *)
(* and carries out its input and picture requests.                         *)
(*                                                                         *)
(* A grant is named by its agent; the number also stands for the random    *)
(* token.  A critical section of the grant mutex that calls nothing        *)
(* blocking is one step; the mutex is held over steps where the code       *)
(* shuts an agent down under it.  Callers that the executable or session   *)
(* check refuses change nothing and do not appear, nor do picture          *)
(* contents, the handshake and the stopping of the service itself.         *)
(***************************************************************************)
EXTENDS Naturals, Sequences, FiniteSets

CONSTANTS
    Conns,            \* the threads that serve a pipe connection
    Watchdog,         \* the grant-watchdog thread
    Nobody,           \* the grant mutex or an agent's video pipe is free
    Pids, NoPid,      \* processes of the application
    MaxAgents,        \* bound: agents ever started
    PipeRoom,         \* messages an agent's input pipe holds (1 MiB in the code)
    MaxConnections    \* connections served at a time (8 in the code)

Threads == Conns \cup {Watchdog}
Agents  == 1..MaxAgents

ASSUME ThreadsAssumption == Watchdog \notin Conns /\ Nobody \notin Threads
ASSUME PidsAssumption    == NoPid \notin Pids
ASSUME RoomAssumption    == MaxAgents \in Nat /\ PipeRoom \in Nat \ {0} /\ MaxConnections \in Nat

VARIABLES
    app,        \* the process at the other end of a connection
    cutOff,     \* connections whose other end has closed
    token,      \* client(): the token of a connection, 0 for None
    owners,     \* client(): connections with is_owner set
    doing,      \* what a thread is in the middle of
    helper,     \* the agent the thread is dealing with there
    why,        \* why the thread ends a grant or shuts an agent down
    mutex,      \* who holds Broker.grant over several steps
    slot,       \* Broker.grant: the live grant, 0 for None
    boundTo,    \* Grant.owner_pid
    stale,      \* grants with a last_beat older than GRANT_LAPSE_SECS
    agent,      \* the agent process
    inPipe,     \* what the agent's input pipe holds
    video,      \* the agent's video loop: on, told to stop, or off
    videoHeld   \* who holds Agent.video

connVars   == <<app, cutOff, token, owners>>
threadVars == <<doing, helper, why>>
grantVars  == <<mutex, slot, boundTo, stale>>
agentVars  == <<agent, inPipe, video, videoHeld>>
vars == <<connVars, threadVars, grantVars, agentVars>>

-----------------------------------------------------------------------------
Serving  == {c \in Conns : doing[c] # "off"}
Ready(c) == c \in Conns /\ doing[c] = "idle"
Running(g) == agent[g] \in {"starting", "up", "released", "stuck"}
Listens(g) == agent[g] \in {"up", "stuck"}       \* the input loop's end of the pipe is open

\* write_msg to the caller fails once its end is closed, and ends the loop.
Replied(c) == IF c \in cutOff THEN "leaving" ELSE "idle"

\* The end of a process closes its pipes; a killed one is taken to do nothing more.
Die(g) == /\ agent' = [agent EXCEPT ![g] = "dead"]
          /\ inPipe' = [inPipe EXCEPT ![g] = <<>>]
          /\ video' = [video EXCEPT ![g] = "off"]

\* Thread t goes on to what, and deals with agent g there.
GoOn(t, what, g) == doing' = [doing EXCEPT ![t] = what] /\ helper' = [helper EXCEPT ![t] = g]
Goto(t, what)    == GoOn(t, what, 0)
Because(t, r)    == why' = [why EXCEPT ![t] = r]

\* client() has returned.
Forget(c) == /\ app' = [app EXCEPT ![c] = NoPid] /\ token' = [token EXCEPT ![c] = 0]
             /\ cutOff' = cutOff \ {c} /\ owners' = owners \ {c}

Init ==
    /\ app = [c \in Conns |-> NoPid] /\ cutOff = {} /\ owners = {}
    /\ token = [c \in Conns |-> 0]
    /\ doing = [t \in Threads |-> IF t = Watchdog THEN "idle" ELSE "off"]
    /\ helper = [t \in Threads |-> 0] /\ why = [t \in Threads |-> "none"]
    /\ mutex = Nobody /\ slot = 0 /\ stale = {}
    /\ boundTo = [g \in Agents |-> NoPid]
    /\ agent = [g \in Agents |-> "none"]
    /\ inPipe = [g \in Agents |-> <<>>]
    /\ video = [g \in Agents |-> "on"] /\ videoHeld = [g \in Agents |-> Nobody]

-----------------------------------------------------------------------------
(* Connections *)

Accept(c, p) ==
    /\ doing[c] = "off" /\ Cardinality(Serving) < MaxConnections
    /\ app' = [app EXCEPT ![c] = p] /\ Goto(c, "idle")
    /\ UNCHANGED <<cutOff, token, owners, why, grantVars, agentVars>>

\* The application closes its end, or dies.
Cut(c) ==
    /\ c \in Serving \ cutOff /\ cutOff' = cutOff \cup {c}
    /\ UNCHANGED <<app, token, owners, threadVars, grantVars, agentVars>>

\* A closed pipe and a request that validate_ui rejects end the loop.
LoopEnds(c) ==
    /\ Ready(c) /\ c \in cutOff /\ Goto(c, "leaving")
    /\ UNCHANGED <<connVars, why, grantVars, agentVars>>
Malformed(c) ==
    /\ Ready(c) /\ Goto(c, "leaving")
    /\ UNCHANGED <<connVars, why, grantVars, agentVars>>

\* Mutant: an error that returns from client() skips the check for the owner.
LeaveQuietly(c) ==
    /\ c \in Conns /\ doing[c] = "leaving" /\ Goto(c, "off") /\ Forget(c)
    /\ UNCHANGED <<why, grantVars, agentVars>>

\* The end of client(): owner_gone compares process ids.
Leave(c) ==
    /\ c \in Conns /\ doing[c] = "leaving" /\ (c \in owners => mutex = Nobody)
    /\ IF c \in owners /\ slot # 0 /\ boundTo[slot] = app[c]
       THEN Goto(c, "end") /\ Because(c, "gone") /\ UNCHANGED connVars
       ELSE Goto(c, "off") /\ Forget(c) /\ why' = why
    /\ UNCHANGED <<grantVars, agentVars>>

-----------------------------------------------------------------------------
(* Requests.  One that is refused changes nothing and is left out. *)

\* Broker::current
Current(c) == /\ token[c] # 0 /\ mutex = Nobody
              /\ slot = token[c] /\ boundTo[slot] = app[c]

\* Broker::grant up to start_agent, which runs without the mutex.
AskGrant(c, g) ==
    /\ Ready(c) /\ token[c] = 0 /\ mutex = Nobody /\ slot = 0
    /\ agent[g] = "none" /\ \A h \in 1..(g - 1) : agent[h] # "none"
    /\ agent' = [agent EXCEPT ![g] = "starting"]
    /\ GoOn(c, "starting", g)
    /\ UNCHANGED <<connVars, why, grantVars, inPipe, video, videoHeld>>

AgentReady(c) ==
    /\ c \in Conns /\ doing[c] = "starting" /\ GoOn(c, "install", helper[c])
    /\ agent' = [agent EXCEPT ![helper[c]] = "up"]
    /\ UNCHANGED <<connVars, why, grantVars, inPipe, video, videoHeld>>

\* It does not connect within 10 seconds, or is not who it should be: it is killed.
AgentFails(c) ==
    /\ c \in Conns /\ doing[c] = "starting" /\ Goto(c, Replied(c))
    /\ Die(helper[c])
    /\ UNCHANGED <<connVars, why, grantVars, videoHeld>>

\* The rest of Broker::grant.  The slot may have been taken meanwhile.
Install(c) ==
    /\ c \in Conns /\ doing[c] = "install" /\ mutex = Nobody /\ slot = 0
    /\ slot' = helper[c] /\ boundTo' = [boundTo EXCEPT ![helper[c]] = app[c]]
    /\ token' = [token EXCEPT ![c] = helper[c]] /\ owners' = owners \cup {c}
    /\ Goto(c, Replied(c))
    /\ UNCHANGED <<app, cutOff, why, mutex, stale, agentVars>>
TooLate(c) ==
    /\ c \in Conns /\ doing[c] = "install" /\ mutex = Nobody /\ slot # 0
    /\ mutex' = c /\ GoOn(c, "stopInput", helper[c]) /\ Because(c, "late")
    /\ UNCHANGED <<connVars, slot, boundTo, stale, agentVars>>

Attach(c) ==
    /\ Ready(c) /\ mutex = Nobody /\ slot # 0 /\ boundTo[slot] = app[c]
    /\ token' = [token EXCEPT ![c] = slot] /\ Goto(c, Replied(c))
    /\ UNCHANGED <<app, cutOff, owners, why, grantVars, agentVars>>

Heartbeat(c) ==
    /\ Ready(c) /\ Current(c) /\ stale' = stale \ {slot}
    /\ UNCHANGED <<connVars, threadVars, mutex, slot, boundTo, agentVars>>

\* GRANT_LAPSE_SECS pass without a heartbeat.
Lapse(g) ==
    /\ slot = g /\ stale' = stale \cup {g}
    /\ UNCHANGED <<connVars, threadVars, mutex, slot, boundTo, agentVars>>

Revoke(c) ==
    /\ Ready(c) /\ token[c] # 0 /\ mutex = Nobody
    /\ IF Current(c)
       THEN Goto(c, "end") /\ Because(c, "revoke") /\ token' = token
       ELSE Goto(c, Replied(c)) /\ why' = why /\ token' = [token EXCEPT ![c] = 0]
    /\ UNCHANGED <<app, cutOff, owners, grantVars, agentVars>>

\* Broker::inject and capture (or status): the Arc outlives the mutex.
AskInput(c) ==
    /\ Ready(c) /\ Current(c) /\ GoOn(c, "inject", slot)
    /\ UNCHANGED <<connVars, why, grantVars, agentVars>>
AskPicture(c) ==
    /\ Ready(c) /\ Current(c) /\ GoOn(c, "video", slot)
    /\ UNCHANGED <<connVars, why, grantVars, agentVars>>

\* Writing to a full pipe blocks; writing to a closed one fails, and is answered.
Put(g, m)  == inPipe' = [inPipe EXCEPT ![g] = Append(@, m)]
Room(g)    == Listens(g) /\ Len(inPipe[g]) < PipeRoom

Relay(c) ==
    /\ c \in Conns /\ doing[c] = "inject"
    /\ \/ Room(helper[c]) /\ Put(helper[c], "event") /\ Goto(c, "idle")
       \/ ~Listens(helper[c]) /\ Goto(c, Replied(c)) /\ inPipe' = inPipe
    /\ UNCHANGED <<connVars, why, grantVars, agent, video, videoHeld>>

\* capture and status hold the video pipe from the request to the answer.
VideoLives(g) == agent[g] \in {"up", "released", "stuck"} /\ video[g] # "off"
VideoSend(c) ==
    LET g == helper[c] IN
    /\ c \in Conns /\ doing[c] = "video" /\ videoHeld[g] = Nobody
    /\ IF VideoLives(g)
       THEN GoOn(c, "asked", g) /\ videoHeld' = [videoHeld EXCEPT ![g] = c]
       ELSE Goto(c, Replied(c)) /\ videoHeld' = videoHeld
    /\ UNCHANGED <<connVars, why, grantVars, agent, inPipe, video>>
VideoAnswer(c) ==
    LET g == helper[c] IN
    /\ c \in Conns /\ doing[c] = "asked" /\ agent[g] # "stuck"
    /\ Goto(c, Replied(c)) /\ videoHeld' = [videoHeld EXCEPT ![g] = Nobody]
    /\ UNCHANGED <<connVars, why, grantVars, agent, inPipe, video>>

-----------------------------------------------------------------------------
(* Ending a grant *)

\* Mutant: only the death of the agent is looked for.
SweepDead ==
    /\ doing[Watchdog] = "idle" /\ mutex = Nobody /\ slot # 0 /\ agent[slot] = "dead"
    /\ Goto(Watchdog, "end") /\ Because(Watchdog, "lapse")
    /\ UNCHANGED <<connVars, grantVars, agentVars>>

\* The watchdog looks under the mutex, and calls end_grant after it has let go of it.
Sweep ==
    /\ doing[Watchdog] = "idle" /\ mutex = Nobody /\ slot # 0
    /\ slot \in stale \/ agent[slot] = "dead"
    /\ Goto(Watchdog, "end") /\ Because(Watchdog, "lapse")
    /\ UNCHANGED <<connVars, grantVars, agentVars>>

\* Where a thread is after end_grant or Agent::shutdown.
Finish(t) ==
    /\ Because(t, "none")
    /\ CASE why[t] = "gone"   -> Goto(t, "off") /\ Forget(t)
         [] why[t] = "lapse"  -> Goto(t, "idle") /\ UNCHANGED connVars
         [] why[t] = "late"   -> Goto(t, Replied(t)) /\ UNCHANGED connVars
         [] why[t] = "revoke" -> /\ token' = [token EXCEPT ![t] = 0] /\ Goto(t, Replied(t))
                                 /\ UNCHANGED <<app, cutOff, owners>>

\* Mutant: the mutex is free again as soon as the grant has been taken out.
TakeAndLetGo(t) ==
    /\ doing[t] = "end" /\ mutex = Nobody /\ slot # 0
    /\ slot' = 0 /\ GoOn(t, "stopInput", slot)
    /\ UNCHANGED <<connVars, why, mutex, boundTo, stale, agentVars>>

\* end_grant: the guard of the mutex lives to the end of the if let.
TakeGrant(t) ==
    /\ doing[t] = "end" /\ mutex = Nobody /\ slot # 0
    /\ slot' = 0 /\ mutex' = t /\ GoOn(t, "stopInput", slot)
    /\ UNCHANGED <<connVars, why, boundTo, stale, agentVars>>
NothingToEnd(t) ==
    /\ doing[t] = "end" /\ mutex = Nobody /\ slot = 0 /\ Finish(t)
    /\ UNCHANGED <<grantVars, agentVars>>

\* Agent::shutdown: Shutdown to both pipes, then kill.
StopInput(t) ==
    /\ doing[t] = "stopInput" /\ GoOn(t, "stopVideo", helper[t])
    /\ \/ Room(helper[t]) /\ Put(helper[t], "shutdown")
       \/ ~Listens(helper[t]) /\ inPipe' = inPipe
    /\ UNCHANGED <<connVars, why, grantVars, agent, video, videoHeld>>
StopVideo(t) ==
    LET g == helper[t] IN
    /\ doing[t] = "stopVideo" /\ videoHeld[g] = Nobody /\ GoOn(t, "kill", g)
    /\ video' = [video EXCEPT ![g] = IF @ = "on" THEN "told" ELSE @]
    /\ UNCHANGED <<connVars, why, grantVars, agent, inPipe, videoHeld>>

\* Mutant: the agent is trusted to go when it reads Shutdown.
TrustAgent(t) ==
    /\ doing[t] = "kill" /\ mutex' = Nobody /\ Finish(t)
    /\ UNCHANGED <<slot, boundTo, stale, agentVars>>

Kill(t) ==
    /\ doing[t] = "kill" /\ mutex' = Nobody /\ Finish(t)
    /\ Die(helper[t])
    /\ UNCHANGED <<slot, boundTo, stale, videoHeld>>

-----------------------------------------------------------------------------
(* The agent *)

\* input_loop
AgentReads(g) ==
    /\ agent[g] = "up" /\ inPipe[g] # <<>>
    /\ inPipe' = [inPipe EXCEPT ![g] = Tail(@)]
    /\ agent' = IF Head(inPipe[g]) = "shutdown" THEN [agent EXCEPT ![g] = "released"]
                                                ELSE agent
    /\ UNCHANGED <<connVars, threadVars, grantVars, video, videoHeld>>

\* video_loop reads Shutdown.
VideoEnds(g) ==
    /\ agent[g] \in {"up", "released"} /\ video[g] = "told"
    /\ video' = [video EXCEPT ![g] = "off"]
    /\ UNCHANGED <<connVars, threadVars, grantVars, agent, inPipe, videoHeld>>

\* run: the process ends as soon as one of its loops has; the other may be cut short.
AgentExits(g) ==
    /\ agent[g] = "released" \/ (agent[g] = "up" /\ video[g] = "off")
    /\ Die(g)
    /\ UNCHANGED <<connVars, threadVars, grantVars, videoHeld>>

\* It crashes or is killed by somebody else, or makes no more progress.
AgentCrashes(g) ==
    /\ agent[g] \in {"up", "released", "stuck"}
    /\ Die(g)
    /\ UNCHANGED <<connVars, threadVars, grantVars, videoHeld>>
AgentHangs(g) ==
    /\ agent[g] = "up" /\ agent' = [agent EXCEPT ![g] = "stuck"]
    /\ UNCHANGED <<connVars, threadVars, grantVars, inPipe, video, videoHeld>>

-----------------------------------------------------------------------------
Client(c) ==
    \/ \E p \in Pids : Accept(c, p)
    \/ Cut(c) \/ Malformed(c) \/ Attach(c) \/ Heartbeat(c) \/ Revoke(c)
    \/ AskInput(c) \/ AskPicture(c)
    \/ \E g \in Agents : AskGrant(c, g)
\* What a thread does by itself, once begun.
Going(t) ==
    \/ Leave(t) \/ AgentReady(t) \/ AgentFails(t) \/ Install(t) \/ TooLate(t)
    \/ Relay(t) \/ VideoSend(t) \/ VideoAnswer(t)
    \/ TakeGrant(t) \/ NothingToEnd(t) \/ StopInput(t) \/ StopVideo(t) \/ Kill(t)
AgentGoing(g) == AgentReads(g) \/ VideoEnds(g) \/ AgentExits(g)

Next ==
    \/ \E c \in Conns : Client(c) \/ LoopEnds(c)
    \/ \E t \in Threads : Going(t)
    \/ Sweep
    \/ \E g \in Agents : Lapse(g) \/ AgentGoing(g) \/ AgentCrashes(g) \/ AgentHangs(g)

Spec == Init /\ [][Next]_vars

\* Threads keep running, and one that waits for a mutex or for room in a pipe gets
\* its turn; what a closed pipe still holds is read in the end; the watchdog wakes
\* every second; an agent that does not hang makes progress.
FairSpec ==
    /\ Spec /\ WF_vars(Sweep)
    /\ \A t \in Threads : SF_vars(Going(t))
    /\ \A c \in Conns : SF_vars(LoopEnds(c))
    /\ \A g \in Agents : WF_vars(AgentGoing(g))

-----------------------------------------------------------------------------
(* Properties *)

\* The types, and the room of the input pipes.
TypeOK ==
    /\ app \in [Conns -> Pids \cup {NoPid}]
    /\ cutOff \subseteq Conns /\ owners \subseteq Conns
    /\ token \in [Conns -> 0..MaxAgents]
    /\ doing \in [Threads -> {"off", "idle", "starting", "install", "inject", "video", "asked",
                              "end", "stopInput", "stopVideo", "kill", "leaving"}]
    /\ helper \in [Threads -> 0..MaxAgents]
    /\ why \in [Threads -> {"none", "late", "revoke", "gone", "lapse"}]
    /\ mutex \in Threads \cup {Nobody} /\ slot \in 0..MaxAgents /\ stale \subseteq Agents
    /\ boundTo \in [Agents -> Pids \cup {NoPid}]
    /\ agent \in [Agents -> {"none", "starting", "up", "released", "stuck", "dead"}]
    /\ inPipe \in [Agents -> Seq({"event", "shutdown"})]
    /\ \A g \in Agents : Len(inPipe[g]) <= PipeRoom
    /\ video \in [Agents -> {"on", "told", "off"}]
    /\ videoHeld \in [Agents -> Conns \cup {Nobody}]

Granted(g) == boundTo[g] # NoPid

\* The helper of an ended grant is dead before another process gets a grant: at no
\* time are two agents that ever had a grant running.  (end_grant shuts the agent
\* down with the mutex held, grant looks at the slot again under it.)
OneExecutor == \A g, h \in Agents : Granted(g) /\ Running(g) /\ Granted(h) /\ Running(h) => g = h

\* No agent, a process of the SYSTEM account, runs for nobody: it has the grant,
\* somebody is about to install it, or the holder of the mutex is stopping it.
NoStrayAgent ==
    \A g \in Agents : Running(g) =>
        \/ slot = g
        \/ \E t \in Threads : /\ helper[t] = g
                             /\ (doing[t] \in {"starting", "install"} \/ mutex = t)

\* A hung agent that still owes a picture, or whose input pipe is full: shutdown waits
\* for its pipes before it kills, with the grant mutex held, and never gets there.
Jammed == \E g \in Agents :
    agent[g] = "stuck" /\ (videoHeld[g] # Nobody \/ Len(inPipe[g]) = PipeRoom)

\* An agent that should not run any more: its grant ended, or gets no heartbeats, or the
\* connection it was granted to has closed.
Overdue(g) ==
    /\ Granted(g) /\ Running(g)
    /\ \/ slot # g \/ g \in stale
       \/ ~\E c \in owners : token[c] = g
       \/ \E c \in owners \cap cutOff : token[c] = g

\* A grant ends with the connection that holds it (owner_gone, "revokes at once"), one whose
\* heartbeats stop gets them again or ends (sweep, the dead-man switch), and its agent is
\* killed, whatever the other threads are in the middle of and even if the agent hangs;
\* unless an agent is jammed.
GrantsEnd == \A g \in Agents : []<>(Overdue(g) => Jammed)

\* What broker.rs says of owner_gone: a connection that drops ends the grant that
\* was its own.
OwnGrantOnly ==
    [][\A c \in Conns : (mutex = Nobody /\ mutex' = c /\ why[c] = "gone") => token[c] = slot]_vars
=============================================================================
