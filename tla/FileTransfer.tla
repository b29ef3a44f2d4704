---------------------------- MODULE FileTransfer ----------------------------
(***************************************************************************)
(* File transfer over one session: the FileManager of the side that sends, *)
(* the FileManager of the side that receives, the streaming tasks of the   *)
(* sender, the receiver's download directory, and the two directions of    *)
(* the connection.  Both managers are called from the loop of their        *)
(* session only, so a handler is one step; the streaming tasks run beside  *)
(* it.  The viewer is the one who sends files, pauses, resumes, cancels    *)
(* and retries, the host decides about permissions and offers.             *)
(*                                                                         *)
(* A chunk is one unit; what it holds is the source and the version of the *)
(* source it was read from, and the hash of a file is the sequence of what *)
(* its chunks hold.  An open file is an inode, which may lose its name or  *)
(* get another one.  Names that the path checks refuse, sizes above the    *)
(* limit, speeds and directory listings are left out.                      *)
(***************************************************************************)
EXTENDS Naturals, SequencesExt

CONSTANTS
    Sources,      \* files of the sender
    NameOf,       \* the name a source is offered under
    SizeOf,       \* its length in chunks
    None,         \* no file
    MaxActive,    \* FilePolicy.max_active
    BulkRoom,     \* messages the bulk lane holds (4 in the code)
    MaxOffers,    \* bound: transfer ids of a session
    MaxCopies,    \* bound: "name (i)" is tried for i up to this
    MaxTrouble,   \* bound: changes of a source, failures of the file system, changes
                  \* of the permission and lost connections, together
    Careful       \* the viewer neither sends nor asks for a name again, nor retries it,
                  \* while a transfer of it runs

Ids == 1..MaxOffers
Paths == {NameOf[s] : s \in Sources} \X (0..MaxCopies)
Inodes == 1..Cardinality(Paths)
Modes == {"ask", "open", "download"}
Statuses == {"Pending", "Active", "Paused", "Completed", "Failed", "Cancelled"}
Data == Sources \X (0..MaxTrouble)
Hole == <<None, 0>>

ASSUME NamesAssumption == /\ \A s \in Sources : SizeOf[s] \in Nat \ {0}
                          /\ None \notin Sources
\* None stands for an entry without an open file.
ASSUME NoFileAssumption == None \notin [node : Inodes, path : Paths, received : Nat]
ASSUME BoundsAssumption == /\ MaxActive \in Nat \ {0} /\ BulkRoom \in Nat \ {0}
                           /\ MaxOffers \in Nat /\ MaxCopies \in Nat /\ MaxTrouble \in Nat
                           /\ Careful \in BOOLEAN
\* unique_path tries 9999 names: the transfers of all sessions together leave it one.
ASSUME NamesLeft == MaxOffers * (MaxTrouble + 1) <= MaxCopies + 1

\* FileMsg, and PermissionsChanged as far as it is about files.
Msgs == [t : {"offer", "fetch"}, id : Ids \cup {0}, src : Sources]
        \cup [t : {"accept"}, id : Ids, from : Nat]
        \cup [t : {"chunk"}, id : Ids, at : Nat, data : Data]
        \cup [t : {"done"}, id : Ids, hash : Seq(Data)]
        \cup [t : {"verified"}, id : Ids, ok : BOOLEAN]
        \cup [t : {"reject", "cancel"}, id : Ids \cup {0}]
        \cup [t : {"perm"}, on : BOOLEAN]

VARIABLES
    mode,        \* an upload to a host that asks or not, or a download
    up,          \* transfers of the sending FileManager
    ctl,         \* the Ctl a streaming task shares with its transfer
    stream,      \* the streaming tasks
    down,        \* transfers of the receiving FileManager
    approvals,   \* pending_approval
    window,      \* the viewer asked for a download less than 30 s ago
    starting,    \* the receiver is in the loop of start_queued
    mayUp,       \* allowed of the sending side
    mayDown,     \* allowed of the receiving side
    fwd, back,   \* messages on their way to the receiver and to the sender
    inodes, parts, targets,   \* the download directory: contents, .part files, files
    version,     \* what a source holds at the moment
    next,        \* ids given out in this session
    used         \* troubles so far

disk == <<inodes, parts, targets>>
manager == <<up, ctl, stream>>
receiver == <<down, approvals, window, starting>>
perms == <<mayUp, mayDown>>
world == <<mode, version, used>>
vars == <<mode, up, ctl, stream, down, approvals, window, starting, mayUp, mayDown,
          fwd, back, inodes, parts, targets, version, next, used>>

Put(f, x, v) == [y \in DOMAIN f \cup {x} |-> IF y = x THEN v ELSE f[y]]
With(statuses, tbl) == {id \in DOMAIN tbl : tbl[id].status \in statuses}
Running == {"Active", "Pending", "Paused"}
Trouble == used < MaxTrouble /\ used' = used + 1

IsBulk(m) == m.t \in {"chunk", "done"}
\* A control message overtakes the bulk messages its writer has not sent yet.
Overtaking(q, ms) == {SubSeq(q, 1, i) \o ms \o SubSeq(q, i + 1, Len(q)) :
                        i \in {j \in 0..Len(q) : \A k \in (j + 1)..Len(q) : IsBulk(q[k])}}
Tell(ms) == fwd' \in Overtaking(fwd, ms)
Reply(ms) == back' = back \o ms
Cancels(S) == [i \in 1..Cardinality(S) |-> [t |-> "cancel", id |-> SetToSeq(S)[i]]]
BulkFull == Cardinality({k \in 1..Len(fwd) : IsBulk(fwd[k])}) >= BulkRoom

Whole(s, v) == [k \in 1..SizeOf[s] |-> <<s, v>>]   \* hash_file of a source

FreshCtl == [id \in Ids |-> [paused |-> FALSE, cancelled |-> FALSE]]
NoStreams == [id \in Ids |-> [pc |-> "none"]]

Init == /\ up = <<>> /\ down = <<>> /\ approvals = <<>> /\ window = FALSE /\ starting = FALSE
        /\ ctl = FreshCtl /\ stream = NoStreams /\ mayUp = TRUE /\ mayDown = TRUE
        /\ fwd = <<>> /\ back = <<>> /\ next = 1
        /\ mode \in Modes
        /\ inodes = [n \in Inodes |-> <<>>]
        /\ parts = [p \in Paths |-> 0] /\ targets = [p \in Paths |-> 0]
        /\ version = [s \in Sources |-> 0]
        /\ used = 0

-----------------------------------------------------------------------------
(* The sender's manager *)

\* offer: a new transfer waits for the answer of the other side.
Offer(s, tbl) ==
    /\ next <= MaxOffers /\ next' = next + 1
    /\ up' = Put(tbl, next, [src |-> s, status |-> "Pending"])
    /\ Tell(<<[t |-> "offer", id |-> next, src |-> s]>>)
    /\ UNCHANGED <<ctl, stream, receiver, perms, disk, world>>

\* A transfer of this name runs at the sender, or at the other end.
Sending(n) == \E id \in With(Running, up) : NameOf[up[id].src] = n
Moving(n) == \/ Sending(n)
             \/ \E id \in With(Running, down) : NameOf[down[id].src] = n
             \/ \E k \in 1..Len(back) : back[k].t = "fetch" /\ NameOf[back[k].src] = n

SendPaths(s) == /\ mode # "download" /\ mayUp /\ (Careful => ~Sending(NameOf[s]))
                /\ Offer(s, up) /\ UNCHANGED back

\* The viewer retries what failed or was cancelled, under a new id.
Retry(id) == /\ mode # "download" /\ id \in With({"Failed", "Cancelled"}, up)
             /\ Careful => ~Sending(NameOf[up[id].src])
             /\ Offer(up[id].src, [x \in DOMAIN up \ {id} |-> up[x]])
             /\ UNCHANGED back

\* Mutant: the stream starts at the beginning, whatever the receiver has.
OnAcceptFromStart(m) ==
    /\ UNCHANGED <<ctl, fwd, next, perms>>
    /\ IF m.id \in With({"Pending"}, up)
       THEN /\ up' = [up EXCEPT ![m.id].status = "Active"]
            /\ stream' = [stream EXCEPT ![m.id] = [pc |-> "read", src |-> up[m.id].src, pos |-> 0]]
       ELSE UNCHANGED <<up, stream>>

OnAccept(m) ==
    /\ UNCHANGED <<ctl, fwd, next, perms>>
    /\ IF m.id \notin With({"Pending"}, up)
       THEN UNCHANGED <<up, stream>>
       ELSE IF m.from > SizeOf[up[m.id].src]
       THEN up' = [up EXCEPT ![m.id].status = "Failed"] /\ UNCHANGED stream
       ELSE /\ up' = [up EXCEPT ![m.id].status = "Active"]
            /\ stream' = [stream EXCEPT ![m.id] = [pc |-> "read", src |-> up[m.id].src, pos |-> m.from]]

SetStatus(id, st) == up' = IF id \in DOMAIN up THEN [up EXCEPT ![id].status = st] ELSE up
Cancelled(ids) == [id \in Ids |-> IF id \in ids THEN [ctl[id] EXCEPT !.cancelled = TRUE] ELSE ctl[id]]

\* cancel: ids known to this manager.
CancelUp(ids) == /\ ctl' = Cancelled(ids)
                 /\ up' = [id \in DOMAIN up |-> IF id \in ids THEN [up[id] EXCEPT !.status = "Cancelled"]
                                                              ELSE up[id]]

\* A host switches its permission off: everything that runs is cancelled, and the
\* viewer is told after that.  A viewer that hears it does the same.
SetAllowedUp(on, told) ==
    LET ids == IF on THEN {} ELSE With(Running, up)
    IN /\ mayUp' = on
       /\ CancelUp(ids)
       /\ Tell(Cancels(ids) \o told)

\* What the sender does with a message; Fetch makes an offer of its own.
OnBack ==
    /\ back # <<>> /\ back' = Tail(back)
    /\ LET m == Head(back)
       IN \/ /\ m.t = "perm" /\ SetAllowedUp(m.on, <<>>)
             /\ UNCHANGED <<stream, mayDown, next, receiver, disk, world>>
          \/ /\ m.t = "fetch" /\ mayUp /\ Offer(m.src, up)
          \/ /\ m.t = "fetch" /\ ~mayUp /\ Tell(<<[t |-> "reject", id |-> 0]>>)
             /\ UNCHANGED <<manager, next, receiver, perms, disk, world>>
          \/ /\ m.t \notin {"perm", "fetch"} /\ ~mayUp
             /\ UNCHANGED <<fwd, manager, next, receiver, perms, disk, world>>
          \/ /\ m.t = "accept" /\ mayUp /\ OnAccept(m) /\ UNCHANGED <<receiver, disk, world>>
          \/ /\ m.t \in {"reject", "verified"} /\ mayUp
             /\ SetStatus(m.id, IF m.t = "verified" /\ m.ok THEN "Completed" ELSE "Failed")
             /\ UNCHANGED <<fwd, ctl, stream, next, receiver, perms, disk, world>>
          \/ /\ m.t = "cancel" /\ mayUp /\ CancelUp({m.id} \cap DOMAIN up)
             /\ UNCHANGED <<fwd, stream, next, receiver, perms, disk, world>>

\* stream_file: the next chunk is read, or the end of the file is found.
ReadChunk(id) ==
    LET t == stream[id]
    IN stream' = [stream EXCEPT ![id] =
                    IF t.pos < SizeOf[t.src]
                    THEN [pc |-> "send", src |-> t.src, pos |-> t.pos, data |-> <<t.src, version[t.src]>>]
                    ELSE [pc |-> "hash", src |-> t.src, pos |-> t.pos]]

\* The top of the loop: a cancelled task ends, a paused one waits.
StreamRead(id) ==
    /\ stream[id].pc = "read"
    /\ IF ctl[id].cancelled THEN stream' = [stream EXCEPT ![id] = [pc |-> "none"]]
       ELSE IF ctl[id].paused THEN stream' = [stream EXCEPT ![id].pc = "paused"]
       ELSE ReadChunk(id)
    /\ UNCHANGED <<up, ctl, receiver, perms, fwd, back, disk, world, next>>

StreamResume(id) ==
    /\ stream[id].pc = "paused" /\ (ctl[id].cancelled \/ ~ctl[id].paused)
    /\ ReadChunk(id)
    /\ UNCHANGED <<up, ctl, receiver, perms, fwd, back, disk, world, next>>

\* The file cannot be read: the transfer fails here, and nobody is told.
StreamFails(id) ==
    /\ stream[id].pc \in {"read", "paused", "hash"} /\ ~ctl[id].cancelled /\ ~ctl[id].paused
    /\ Trouble
    /\ stream' = [stream EXCEPT ![id] = [pc |-> "none"]]
    /\ SetStatus(id, "Failed")
    /\ UNCHANGED <<ctl, receiver, perms, fwd, back, disk, mode, version, next>>

\* send_bulk, with room in the lane: a chunk, or after the last one the hash.
StreamSend(id) ==
    LET t == stream[id]
    IN /\ t.pc \in {"send", "hash"} /\ ~BulkFull
       /\ IF t.pc = "send"
          THEN /\ fwd' = Append(fwd, [t |-> "chunk", id |-> id, at |-> t.pos, data |-> t.data])
               /\ stream' = [stream EXCEPT ![id] = [pc |-> "read", src |-> t.src, pos |-> t.pos + 1]]
          ELSE /\ fwd' = Append(fwd, [t |-> "done", id |-> id, hash |-> Whole(t.src, version[t.src])])
               /\ stream' = [stream EXCEPT ![id] = [pc |-> "none"]]
       /\ UNCHANGED <<up, ctl, receiver, perms, back, disk, world, next>>

-----------------------------------------------------------------------------
(* The receiver's manager and its directory *)

\* Mutant: the name is taken whether or not there is a file of that name.
UniquePathPlain(n) == <<n, 0>>

\* unique_path: the name, or "name (i)" for the first i that is free.
UniquePath(n) ==
    LET free == {i \in 0..MaxCopies : targets[<<n, i>>] = 0 /\ parts[<<n, i>>] = 0}
    IN <<n, IF free = {} THEN 0 ELSE Min(free)>>

OpenFiles == {down[id].file : id \in DOMAIN down} \ {None}
Named == {parts[p] : p \in Paths} \cup {targets[p] : p \in Paths}
FreeInodes == Inodes \ (Named \cup {f.node : f \in OpenFiles})

\* start_incoming with IncomingFile::open: a .part file without its file is taken up
\* again, anything else gets a name nobody has.
StartIncoming(id, s) ==
    LET plain  == <<NameOf[s], 0>>
        resume == parts[plain] # 0 /\ targets[plain] = 0
        path   == IF resume THEN plain ELSE UniquePath(NameOf[s])
        node   == IF parts[path] # 0 THEN parts[path] ELSE CHOOSE n \in FreeInodes : TRUE
        length == IF resume THEN Len(inodes[node]) ELSE 0
        kept   == IF length <= SizeOf[s] THEN length ELSE 0
    IN /\ parts[path] # 0 \/ FreeInodes # {}   \* bound: as many open and named files as paths
       /\ parts' = [parts EXCEPT ![path] = node]
       /\ inodes' = [inodes EXCEPT ![node] = IF kept = 0 THEN <<>> ELSE @]
       /\ down' = Put(down, id,
                      [src |-> s, status |-> "Active", queued |-> FALSE,
                       cancelled |-> id \in DOMAIN down /\ down[id].cancelled,
                       file |-> [node |-> node, path |-> path, received |-> kept]])
       /\ Reply(<<[t |-> "accept", id |-> id, from |-> kept]>>)
       /\ UNCHANGED <<targets, used>>

\* The file cannot be opened; a queued transfer stays queued.
StartFails(id) ==
    /\ Trouble
    /\ down' = IF id \in DOMAIN down THEN [down EXCEPT ![id].status = "Failed", ![id].file = None]
                                     ELSE down
    /\ Reply(<<[t |-> "reject", id |-> id]>>)
    /\ UNCHANGED disk

SlotFree == Cardinality(With({"Active"}, down)) < MaxActive

\* accept_incoming: without a free slot the transfer is queued.
AcceptIncoming(id, s) ==
    \/ SlotFree /\ (StartIncoming(id, s) \/ StartFails(id))
    \/ /\ ~SlotFree
       /\ down' = Put(down, id, [src |-> s, status |-> "Pending", queued |-> TRUE,
                                 cancelled |-> FALSE, file |-> None])
       /\ UNCHANGED <<back, disk, used>>

\* The viewer asks for a file; for 30 seconds it takes what the host offers.
Download(s) ==
    /\ mode = "download" /\ mayDown /\ next <= MaxOffers
    /\ Len(fwd) + Len(back) < MaxOffers   \* bound
    /\ Careful => ~Moving(NameOf[s])
    /\ window' = TRUE
    /\ Reply(<<[t |-> "fetch", id |-> 0, src |-> s]>>)
    /\ UNCHANGED <<manager, down, approvals, starting, perms, fwd, disk, world, next>>

WindowCloses == /\ window /\ window' = FALSE
                /\ UNCHANGED <<manager, down, approvals, starting, perms, fwd, back, disk, world, next>>

OnOffer(m) ==
    \/ /\ ~mayDown \/ m.id \in DOMAIN down \/ (mode = "download" /\ ~window)
       /\ Reply(<<[t |-> "reject", id |-> m.id]>>)
       /\ UNCHANGED <<down, approvals, disk, used>>
    \/ /\ mayDown /\ m.id \notin DOMAIN down /\ mode = "ask"
       /\ approvals' = Put(approvals, m.id, m.src)
       /\ UNCHANGED <<down, back, disk, used>>
    \/ /\ mayDown /\ m.id \notin DOMAIN down /\ (mode = "open" \/ (mode = "download" /\ window))
       /\ AcceptIncoming(m.id, m.src) /\ UNCHANGED approvals

\* respond: the owner of the host answers the request.
Respond(id, accept) ==
    /\ id \in DOMAIN approvals /\ ~starting
    /\ approvals' = [x \in DOMAIN approvals \ {id} |-> approvals[x]]
    /\ IF accept THEN AcceptIncoming(id, approvals[id])
       ELSE Reply(<<[t |-> "reject", id |-> id]>>) /\ UNCHANGED <<down, disk, used>>
    /\ UNCHANGED <<manager, window, starting, perms, fwd, mode, version, next>>

Written(q, at, d) == [k \in 1..(IF Len(q) > at THEN Len(q) ELSE at + 1) |->
                        IF k = at + 1 THEN d ELSE IF k <= Len(q) THEN q[k] ELSE Hole]

\* The file of a transfer that takes chunks at the moment.
Takes(id) == id \in DOMAIN down /\ ~down[id].cancelled /\ down[id].file # None

FailChunk(id) == /\ down' = [down EXCEPT ![id].status = "Failed", ![id].file = None]
                 /\ Reply(<<[t |-> "cancel", id |-> id]>>)
                 /\ UNCHANGED inodes

\* Mutant: the sender is not told that a chunk could not be written.
OnChunkSilent(m) ==
    LET f == down[m.id].file
    IN IF ~Takes(m.id) THEN UNCHANGED <<down, inodes, back, used>>
       ELSE \/ /\ m.at = f.received
               /\ inodes' = [inodes EXCEPT ![f.node] = Written(@, m.at, m.data)]
               /\ down' = [down EXCEPT ![m.id].file.received = @ + 1]
               /\ UNCHANGED <<back, used>>
            \/ /\ Trouble
               /\ down' = [down EXCEPT ![m.id].status = "Failed", ![m.id].file = None]
               /\ UNCHANGED <<inodes, back>>

\* on_chunk with write_chunk: the next chunk in order is written, or fails.
OnChunk(m) ==
    LET f == down[m.id].file
        inOrder == m.at = f.received /\ f.received + 1 <= SizeOf[down[m.id].src]
    IN IF ~Takes(m.id) THEN UNCHANGED <<down, inodes, back, used>>
       ELSE \/ /\ inOrder
               /\ inodes' = [inodes EXCEPT ![f.node] = Written(@, m.at, m.data)]
               /\ down' = [down EXCEPT ![m.id].file.received = @ + 1]
               /\ UNCHANGED <<back, used>>
            \/ ~inOrder /\ FailChunk(m.id) /\ UNCHANGED used
            \/ inOrder /\ Trouble /\ FailChunk(m.id)

\* Mutant: the hash is not compared.
FinishUnchecked(f, size, hash) == f.received = size

\* IncomingFile::finish succeeds: everything arrived, and the .part file under the
\* name has the hash.
Finish(f, size, hash) ==
    /\ f.received = size
    /\ parts[f.path] # 0 /\ inodes[parts[f.path]] = hash

\* Done of a transfer with an open file: the .part file gets its name, or goes when
\* its hash is wrong, and the sender is told.
OnDone(m) ==
    LET f == down[m.id].file
        ok == Finish(f, SizeOf[down[m.id].src], m.hash)
    IN IF m.id \notin DOMAIN down \/ f = None
       THEN UNCHANGED <<down, parts, targets, back, starting>>
       ELSE /\ down' = [down EXCEPT ![m.id].file = None,
                                    ![m.id].status = IF ok THEN "Completed" ELSE "Failed"]
            /\ Reply(<<[t |-> "verified", id |-> m.id, ok |-> ok]>>)
            /\ targets' = IF ok THEN [targets EXCEPT ![f.path] = parts[f.path]] ELSE targets
            /\ parts' = IF ok \/ f.received = SizeOf[down[m.id].src]
                        THEN [parts EXCEPT ![f.path] = 0] ELSE parts
            /\ starting' = TRUE

\* start_queued: one round of the loop, which nothing of the session interrupts.
StartQueued ==
    /\ starting
    /\ LET queued == {id \in DOMAIN down : down[id].queued}
       IN \/ /\ SlotFree /\ starting' = TRUE
             /\ \E id \in queued : StartIncoming(id, down[id].src) \/ StartFails(id)
          \/ /\ ~SlotFree \/ queued = {}
             /\ starting' = FALSE /\ UNCHANGED <<down, back, disk, used>>
    /\ UNCHANGED <<manager, approvals, window, perms, fwd, mode, version, next>>

CancelDown(ids) ==
    down' = [id \in DOMAIN down |->
               IF id \in ids THEN [down[id] EXCEPT !.status = "Cancelled", !.cancelled = TRUE, !.file = None]
               ELSE down[id]]

\* Mutant: what runs goes on when the permission goes.
SetAllowedDownOnly(on, told) == mayDown' = on /\ Reply(told) /\ UNCHANGED down

SetAllowedDown(on, told) ==
    LET ids == IF on THEN {} ELSE With(Running, down)
    IN mayDown' = on /\ CancelDown(ids) /\ Reply(Cancels(ids) \o told)

OnFwd ==
    /\ fwd # <<>> /\ ~starting /\ fwd' = Tail(fwd)
    /\ LET m == Head(fwd)
       IN \/ /\ m.t = "perm" /\ SetAllowedDown(m.on, <<>>)
             /\ UNCHANGED <<approvals, starting, mayUp, disk, used>>
          \/ /\ m.t # "perm" /\ m.t # "offer" /\ ~mayDown
             /\ UNCHANGED <<down, approvals, starting, perms, back, disk, used>>
          \/ m.t = "offer" /\ OnOffer(m) /\ UNCHANGED <<starting, perms>>
          \/ /\ m.t = "chunk" /\ mayDown /\ OnChunk(m)
             /\ UNCHANGED <<approvals, starting, perms, parts, targets>>
          \/ /\ m.t = "done" /\ mayDown /\ OnDone(m)
             /\ UNCHANGED <<approvals, perms, inodes, used>>
          \/ /\ m.t = "cancel" /\ mayDown /\ CancelDown({m.id})
             /\ UNCHANGED <<approvals, starting, perms, back, disk, used>>
          \/ /\ m.t = "reject" /\ mayDown   \* of a Fetch: no transfer has its id
             /\ UNCHANGED <<down, approvals, starting, perms, back, disk, used>>
    /\ UNCHANGED <<manager, window, mode, version, next>>

-----------------------------------------------------------------------------
(* The people at both ends, and the world *)

\* pause, resume and cancel of the viewer; the button shows what the viewer knows.
ViewerPauses(id) ==
    IF mode = "download"
    THEN /\ id \in With({"Active"}, down) /\ ~starting
         /\ down' = [down EXCEPT ![id].status = "Paused"] /\ UNCHANGED <<up, ctl>>
    ELSE /\ id \in With({"Active"}, up) /\ UNCHANGED down
         /\ up' = [up EXCEPT ![id].status = "Paused"] /\ ctl' = [ctl EXCEPT ![id].paused = TRUE]

ViewerResumes(id) ==
    IF mode = "download"
    THEN /\ id \in With({"Paused"}, down) /\ ~starting
         /\ down' = [down EXCEPT ![id].status = "Active"] /\ UNCHANGED <<up, ctl>>
    ELSE /\ id \in With({"Paused"}, up) /\ UNCHANGED down
         /\ up' = [up EXCEPT ![id].status = "Active"] /\ ctl' = [ctl EXCEPT ![id].paused = FALSE]

ViewerCancels(id) ==
    IF mode = "download"
    THEN /\ id \in With(Running \cup {"Completed"}, down) /\ ~starting
         /\ CancelDown({id}) /\ Reply(Cancels({id})) /\ UNCHANGED <<up, ctl, fwd>>
    ELSE /\ id \in With(Running \cup {"Completed"}, up)
         /\ CancelUp({id}) /\ Tell(Cancels({id})) /\ UNCHANGED <<down, back>>

Viewer(id) ==
    /\ \/ (ViewerPauses(id) \/ ViewerResumes(id)) /\ UNCHANGED <<fwd, back>>
       \/ ViewerCancels(id)
    /\ UNCHANGED <<stream, approvals, window, starting, perms, disk, world, next>>

\* The owner of the host changes the file permission.
SetPermission(on) ==
    /\ Trouble
    /\ LET told == <<[t |-> "perm", on |-> on]>>
       IN IF mode = "download"
          THEN mayUp # on /\ SetAllowedUp(on, told) /\ UNCHANGED <<down, mayDown, back>>
          ELSE /\ mayDown # on /\ ~starting /\ SetAllowedDown(on, told)
               /\ UNCHANGED <<up, ctl, mayUp, fwd>>
    /\ UNCHANGED <<stream, approvals, window, starting, disk, mode, version, next>>

\* The connection is lost and comes back: a new session has new managers, the
\* directory and its .part files stay.
Reconnect == /\ Trouble
             /\ up' = <<>> /\ down' = <<>> /\ approvals' = <<>> /\ window' = FALSE /\ starting' = FALSE
             /\ ctl' = FreshCtl /\ stream' = NoStreams /\ mayUp' = TRUE /\ mayDown' = TRUE
             /\ fwd' = <<>> /\ back' = <<>> /\ next' = 1
             /\ UNCHANGED <<disk, mode, version>>

EditSource(s) == /\ Trouble
                 /\ version' = [version EXCEPT ![s] = @ + 1]
                 /\ UNCHANGED <<manager, receiver, perms, fwd, back, disk, mode, next>>

Next == \/ \E s \in Sources : SendPaths(s) \/ Download(s) \/ EditSource(s)
        \/ \E id \in Ids : Retry(id) \/ Viewer(id) \/ Respond(id, TRUE) \/ Respond(id, FALSE)
        \/ \E id \in Ids : \/ StreamRead(id) \/ StreamResume(id)
                           \/ StreamFails(id) \/ StreamSend(id)
        \/ OnFwd \/ OnBack \/ StartQueued \/ WindowCloses
        \/ \E on \in BOOLEAN : SetPermission(on)
        \/ Reconnect

Spec == Init /\ [][Next]_vars

-----------------------------------------------------------------------------
(* Properties *)

TypeOK ==
    /\ mode \in Modes
    /\ DOMAIN up \subseteq Ids
    /\ \A id \in DOMAIN up : up[id] \in [src : Sources, status : Statuses]
    /\ ctl \in [Ids -> [paused : BOOLEAN, cancelled : BOOLEAN]]
    /\ \A id \in Ids : stream[id].pc \in {"none", "read", "paused", "send", "hash"}
    /\ DOMAIN down \subseteq Ids
    /\ \A id \in DOMAIN down :
         /\ down[id].src \in Sources /\ down[id].status \in Statuses
         /\ down[id].file # None => down[id].file \in [node : Inodes, path : Paths, received : Nat]
    /\ DOMAIN approvals \subseteq Ids /\ \A id \in DOMAIN approvals : approvals[id] \in Sources
    /\ window \in BOOLEAN /\ starting \in BOOLEAN /\ mayUp \in BOOLEAN /\ mayDown \in BOOLEAN
    /\ \A k \in 1..Len(fwd) : fwd[k] \in Msgs
    /\ \A k \in 1..Len(back) : back[k] \in Msgs
    /\ \A n \in Inodes : \A k \in 1..Len(inodes[n]) : inodes[n][k] \in Data \cup {Hole}
    /\ parts \in [Paths -> Inodes \cup {0}] /\ targets \in [Paths -> Inodes \cup {0}]
    /\ version \in [Sources -> 0..MaxTrouble] /\ next \in 1..(MaxOffers + 1)

\* A file in the download directory is one version of one source, complete: no mix of
\* what was there before and after a change of the source, and no part of another file;
\* and what the sender calls completed is there.
FilesAreWhole ==
    /\ \A p \in Paths : targets[p] # 0 =>
          \E s \in Sources : /\ NameOf[s] = p[1]
                             /\ \E v \in 0..MaxTrouble : inodes[targets[p]] = Whole(s, v)
    /\ \A id \in With({"Completed"}, up) :
          \E p \in Paths : /\ p[1] = NameOf[up[id].src] /\ targets[p] # 0
                           /\ Len(inodes[targets[p]]) = SizeOf[up[id].src]

\* q holds the chunks of a transfer from one position up to another, each once, in order.
Chunk(m, id) == m.t = "chunk" /\ m.id = id
Continues(q, id, from, to) ==
    /\ \A k \in 1..Len(q) : Chunk(q[k], id) => from <= q[k].at /\ q[k].at < to
    /\ \A j, k \in 1..Len(q) : j < k /\ Chunk(q[j], id) /\ Chunk(q[k], id) => q[j].at < q[k].at
    /\ \A n \in from..(to - 1) : \E k \in 1..Len(q) : Chunk(q[k], id) /\ q[k].at = n

\* The chunks on their way continue where the open file ends, and the stream continues
\* where they end: the resume offset is agreed on however often a transfer was cut.
ChunksContinueTheFile ==
    \A id \in DOMAIN down : Takes(id) /\ mayDown =>
        LET from == down[id].file.received
        IN \E to \in from..(from + Len(fwd)) :
              /\ Continues(fwd, id, from, to)
              /\ stream[id].pc # "none" => stream[id].pos = to

\* Without the file permission nothing runs at the receiver.  A host that asks may
\* still approve an offer after it took the permission back.
RevokedStopsReceiving == (~mayDown /\ mode # "ask") => With({"Active"}, down) = {}

\* A file that is there is never replaced and never changes.
NeverOverwrites ==
    [][\A p \in Paths : targets[p] # 0 =>
           targets'[p] = targets[p] /\ inodes'[targets[p]] = inodes[targets[p]]]_vars

\* Once nothing is on its way and no task runs, no transfer of the sender is left
\* running, whatever failed or was withdrawn at the other end.  (An offer that nobody has
\* accepted yet is pending, not running, there.)
Quiet == fwd = <<>> /\ back = <<>> /\ ~starting /\ \A id \in Ids : stream[id].pc = "none"
QuietMeansSettled == Quiet => With({"Active", "Paused"}, up) = {}
=============================================================================
