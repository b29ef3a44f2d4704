----------------------- MODULE TransferOutcomeProofs ------------------------
(***************************************************************************)
(* More proofs about FileTransfer, for every set of sources, number of     *)
(* transfers and sessions, and order of events.                            *)
(*  - With a viewer that is careful (Careful): a file that is in the       *)
(*    download directory is whole and the one it was offered as, what the  *)
(*    sender calls completed is there, and no file is ever overwritten.    *)
(*  - With any viewer: the two sides speak of the same transfers, and once *)
(*    everything is quiet no transfer of the sender is left running.       *)
(***************************************************************************)
EXTENDS FileTransferProofs, WellFoundedInduction

-----------------------------------------------------------------------------
(* The source of a transfer, wherever it is spoken of *)

\* The messages of these kinds in r are messages of q.
NoNew(q, r, kinds) == \A k \in 1..Len(r) : r[k].t \in kinds => \E l \in 1..Len(q) : q[l] = r[k]

LEMMA KeptTail ==
    ASSUME NEW q, IsSeq(q), q # <<>>, NEW r, r = Tail(q), NEW kinds
    PROVE  NoNew(q, r, kinds)
<1>1. \A k \in 1..Len(r) : k + 1 \in 1..Len(q) /\ r[k] = q[k + 1]
  BY TailOf
<1>. QED  BY <1>1 DEF NoNew

LEMMA InsertedFrom ==
    ASSUME NEW q, IsSeq(q), NEW ms, IsSeq(ms), NEW r, Inserted(q, ms, r), NEW k \in 1..Len(r)
    PROVE  (\E l \in 1..Len(q) : q[l] = r[k]) \/ (\E j \in 1..Len(ms) : ms[j] = r[k])
<1>1. PICK g : Woven(q, ms, r, g)
  BY InsertedWoven
<1>. QED  BY <1>1 DEF Woven

LEMMA KeptInserted ==
    ASSUME NEW q, IsSeq(q), NEW ms, IsSeq(ms), NEW r, Inserted(q, ms, r), NEW kinds,
           \A k \in 1..Len(ms) : ms[k].t \notin kinds
    PROVE  NoNew(q, r, kinds)
<1>. SUFFICES ASSUME NEW k \in 1..Len(r), r[k].t \in kinds PROVE \E l \in 1..Len(q) : q[l] = r[k]
  BY DEF NoNew
<1>1. (\E l \in 1..Len(q) : q[l] = r[k]) \/ (\E j \in 1..Len(ms) : ms[j] = r[k])
  BY InsertedFrom
<1>. QED  BY <1>1

LEMMA KeptConcat ==
    ASSUME NEW q, IsSeq(q), NEW ms, IsSeq(ms), NEW r, r = q \o ms, NEW kinds,
           \A k \in 1..Len(ms) : ms[k].t \notin kinds
    PROVE  NoNew(q, r, kinds)
BY ConcatInserts, KeptInserted

LEMMA KeptTold ==
    ASSUME IsSeq(fwd), NEW ms, IsSeq(ms), Tell(ms), NEW kinds, \A k \in 1..Len(ms) : ms[k].t \notin kinds
    PROVE  NoNew(fwd, fwd', kinds)
BY OvertakingInserts, KeptInserted DEF Tell

\* f says which source every transfer is about.
Agreed(f) ==
    /\ \A k \in 1..Len(fwd) : fwd[k].t = "offer" => fwd[k].src = f[fwd[k].id]
    /\ \A i \in DOMAIN up : up[i].src = f[i]
    /\ \A i \in DOMAIN approvals : approvals[i] = f[i]
    /\ \A i \in DOMAIN down : down[i].src = f[i]
    /\ \A i \in Ids : stream[i].pc # "none" => "src" \in DOMAIN stream[i] /\ stream[i].src = f[i]
Agree == \E f \in [Ids -> Sources \cup {None}] : Agreed(f)

\* What a step without a new transfer brings is about the source it should be about.
Consistent(f) ==
    /\ NoNew(fwd, fwd', {"offer"})
    /\ \A i \in DOMAIN approvals' : approvals'[i] = f[i]
    /\ \A i \in DOMAIN down' : i \in DOMAIN down \/ down'[i].src = f[i]
    /\ \A i \in Ids : stream'[i].pc # "none" => "src" \in DOMAIN stream'[i] /\ stream'[i].src = f[i]

LEMMA AgreeEven ==
    ASSUME Even, Inv', NEW f, Agreed(f), Consistent(f)
    PROVE  Agreed(f)'
<1>1. DOMAIN up' \subseteq Ids /\ DOMAIN down' \subseteq Ids
  BY DEF Inv, Shape, Uploads, Rows
<1>2. \A i \in DOMAIN up' : i \in DOMAIN up /\ up'[i].src = up[i].src
  BY <1>1 DEF Even, Steady
<1>3. \A i \in DOMAIN down' : i \in DOMAIN down => down'[i].src = down[i].src
  BY <1>1 DEF Even, Steady
<1>4. \A i \in DOMAIN down' : down'[i].src = f[i]
  BY <1>3 DEF Agreed, Consistent
<1>5. \A k \in 1..Len(fwd') : fwd'[k].t = "offer" => fwd'[k].src = f[fwd'[k].id]
  <2>. SUFFICES ASSUME NEW k \in 1..Len(fwd'), fwd'[k].t = "offer" PROVE fwd'[k].src = f[fwd'[k].id]
    OBVIOUS
  <2>1. PICK l \in 1..Len(fwd) : fwd[l] = fwd'[k]
    BY DEF Consistent, NoNew
  <2>. QED  BY <2>1 DEF Agreed
<1>. QED  BY <1>2, <1>4, <1>5 DEF Agreed, Consistent

-----------------------------------------------------------------------------
LEMMA KeptSame == \A q, kinds : NoNew(q, q, kinds)
BY DEF NoNew

\* Nothing but rows that are there and the tables of the sender may change.
LEMMA ConsistentSame ==
    ASSUME NEW f, Agreed(f), NoNew(fwd, fwd', {"offer"}), DOMAIN down' = DOMAIN down,
           UNCHANGED <<approvals, stream>>
    PROVE  Consistent(f)
BY DEF Consistent, Agreed

\* What starting, queueing and failing do to the table.
LEMMA RowSource ==
    ASSUME NEW id, NEW s, AcceptIncoming(id, s) \/ StartIncoming(id, s) \/ StartFails(id)
    PROVE  /\ \A i \in DOMAIN down' : i \in DOMAIN down \/ (i = id /\ down'[i].src = s)
           /\ \A i \in DOMAIN down : i \in DOMAIN down'
<1>1. ASSUME NEW w, down' = Put(down, id, w), w.src = s
      PROVE  /\ \A i \in DOMAIN down' : i \in DOMAIN down \/ (i = id /\ down'[i].src = s)
             /\ \A i \in DOMAIN down : i \in DOMAIN down'
  BY <1>1 DEF Put
<1>2. CASE StartIncoming(id, s)
  <2>1. PICK w : down' = Put(down, id, w) /\ w.src = s
    <3>. DEFINE plain  == <<NameOf[s], 0>>
                resume == parts[plain] # 0 /\ targets[plain] = 0
                path   == IF resume THEN plain ELSE UniquePath(NameOf[s])
                node   == IF parts[path] # 0 THEN parts[path] ELSE CHOOSE n \in FreeInodes : TRUE
                length == IF resume THEN Len(inodes[node]) ELSE 0
                kept   == IF length <= SizeOf[s] THEN length ELSE 0
                g      == [node |-> node, path |-> path, received |-> kept]
                c      == id \in DOMAIN down /\ down[id].cancelled
    <3>1. down' = Put(down, id, [src |-> s, status |-> "Active", queued |-> FALSE, cancelled |-> c, file |-> g])
      BY <1>2, Zenon DEF StartIncoming
    <3>. HIDE DEF g, c
    <3>. QED  BY <3>1
  <2>. QED  BY <1>1, <2>1
<1>3. CASE StartFails(id)
  <2>1. DOMAIN down' = DOMAIN down
    BY <1>3 DEF StartFails
  <2>. QED  BY <2>1
<1>4. CASE down' = Put(down, id, [src |-> s, status |-> "Pending", queued |-> TRUE,
                                  cancelled |-> FALSE, file |-> None])
  <2>1. PICK w : w = [src |-> s, status |-> "Pending", queued |-> TRUE, cancelled |-> FALSE, file |-> None]
    OBVIOUS
  <2>2. down' = Put(down, id, w) /\ w.src = s
    BY <1>4, <2>1
  <2>. QED  BY <1>1, <2>2
<1>. QED  BY <1>2, <1>3, <1>4 DEF AcceptIncoming

LEMMA StreamsConsistent ==
    ASSUME Inv, NEW id \in Ids, NEW f, Agreed(f),
           StreamRead(id) \/ StreamResume(id) \/ StreamFails(id) \/ StreamSend(id)
    PROVE  Consistent(f)
<1>1. UNCHANGED <<approvals, down>> /\ IsSeq(fwd) /\ Streams(stream)
  BY DEF StreamRead, StreamResume, StreamFails, StreamSend, receiver, Inv, Shape, Sent
<1>2. /\ \A i \in Ids : i # id => stream'[i] = stream[i]
      /\ stream'[id].pc # "none" => /\ stream[id].pc # "none" /\ "src" \in DOMAIN stream'[id]
                                    /\ stream'[id].src = stream[id].src
  <2>. PICK t : t = stream[id]
    OBVIOUS
  <2>0. id \in DOMAIN stream
    BY <1>1 DEF Streams
  <2>1. CASE t.pc \in {"read", "paused"} /\ ReadChunk(id)
    <3>. PICK w : /\ w = IF t.pos < SizeOf[t.src]
                          THEN [pc |-> "send", src |-> t.src, pos |-> t.pos, data |-> <<t.src, version[t.src]>>]
                          ELSE [pc |-> "hash", src |-> t.src, pos |-> t.pos]
      OBVIOUS
    <3>1. stream' = [stream EXCEPT ![id] = w] /\ w.src = t.src
      BY <2>1 DEF ReadChunk
    <3>. QED  BY <2>0, <2>1, <3>1
  <2>2. CASE stream' = [stream EXCEPT ![id] = [pc |-> "none"]]
    BY <2>0, <2>2
  <2>3. CASE t.pc = "read" /\ stream' = [stream EXCEPT ![id].pc = "paused"]
    <3>1. "src" \in DOMAIN t
      BY <2>3 DEF Agreed
    <3>. QED  BY <2>0, <2>3, <3>1
  <2>4. CASE t.pc = "send" /\ stream' = [stream EXCEPT ![id] = [pc |-> "read", src |-> t.src, pos |-> t.pos + 1]]
    BY <2>0, <2>4
  <2>. QED  BY <2>1, <2>2, <2>3, <2>4 DEF StreamRead, StreamResume, StreamFails, StreamSend
<1>3. NoNew(fwd, fwd', {"offer"})
  <2>1. CASE fwd' = fwd
    BY <2>1, KeptSame
  <2>2. CASE StreamSend(id)
    <3>1. PICK m : fwd' = Append(fwd, m) /\ m.t # "offer"
      BY <2>2 DEF StreamSend
    <3>2. Len(fwd') = Len(fwd) + 1 /\ Len(fwd) \in Nat /\ fwd'[Len(fwd) + 1] = m /\ \A k \in 1..Len(fwd) : fwd'[k] = fwd[k]
      BY <1>1, <3>1, AppendOf
    <3>. QED  BY <3>1, <3>2 DEF NoNew
  <2>. QED  BY <2>1, <2>2 DEF StreamRead, StreamResume, StreamFails
<1>4. \A i \in Ids : stream'[i].pc # "none" => "src" \in DOMAIN stream'[i] /\ stream'[i].src = f[i]
  BY <1>2 DEF Agreed
<1>. QED  BY <1>1, <1>3, <1>4 DEF Consistent, Agreed

LEMMA RespondConsistent ==
    ASSUME Inv, NEW id \in Ids, NEW accept, Respond(id, accept), NEW f, Agreed(f)
    PROVE  Consistent(f)
<1>1. /\ id \in DOMAIN approvals /\ UNCHANGED <<stream, fwd>>
      /\ DOMAIN approvals' \subseteq DOMAIN approvals
      /\ \A x \in DOMAIN approvals' : approvals'[x] = approvals[x]
      /\ AcceptIncoming(id, approvals[id]) \/ down' = down
  BY DEF Respond, manager
<1>2. PICK s : s = approvals[id]
  OBVIOUS
<1>3. \A i \in DOMAIN down' : i \in DOMAIN down \/ (i = id /\ down'[i].src = s)
  BY <1>1, <1>2, RowSource
<1>4. s = f[id]
  BY <1>1, <1>2 DEF Agreed
<1>. QED  BY <1>1, <1>3, <1>4, KeptSame DEF Consistent, Agreed

LEMMA StartQueuedConsistent ==
    ASSUME Inv, StartQueued, NEW f, Agreed(f)
    PROVE  Consistent(f)
<1>1. UNCHANGED <<approvals, stream, fwd>> /\ NoNew(fwd, fwd', {"offer"})
  BY KeptSame DEF StartQueued, manager
<1>2. DOMAIN down' = DOMAIN down
  <2>1. ASSUME NEW id \in DOMAIN down, StartIncoming(id, down[id].src) \/ StartFails(id)
        PROVE  DOMAIN down' = DOMAIN down
    <3>. PICK s : s = down[id].src
      OBVIOUS
    <3>1. /\ \A i \in DOMAIN down' : i \in DOMAIN down \/ (i = id /\ down'[i].src = s)
          /\ \A i \in DOMAIN down : i \in DOMAIN down'
      BY <2>1, RowSource
    <3>. QED  BY <2>1, <3>1
  <2>. QED  BY <2>1 DEF StartQueued
<1>. QED  BY <1>1, <1>2, ConsistentSame

LEMMA OnFwdConsistent ==
    ASSUME Inv, OnFwd, NEW f, Agreed(f)
    PROVE  Consistent(f)
<1>. PICK m : m = Head(fwd)
  OBVIOUS
<1>1. /\ IsSeq(fwd) /\ fwd # <<>> /\ fwd' = Tail(fwd) /\ UNCHANGED stream
  BY DEF OnFwd, manager, Inv, Shape, Sent
<1>2. NoNew(fwd, fwd', {"offer"})
  BY <1>1, KeptTail
<1>3. ASSUME UNCHANGED approvals, DOMAIN down' = DOMAIN down
      PROVE  Consistent(f)
  BY <1>1, <1>2, <1>3, ConsistentSame
<1>4. m.t = "offer" => m.src = f[m.id]
  BY <1>1, TailOf DEF Agreed
<1>5. CASE m.t = "offer" /\ OnOffer(m) /\ UNCHANGED <<starting, perms>>
  <2>1. CASE UNCHANGED <<down, approvals>>
    BY <1>3, <2>1
  <2>2. CASE approvals' = Put(approvals, m.id, m.src) /\ UNCHANGED down
    <3>. PICK s, id : s = m.src /\ id = m.id
      OBVIOUS
    <3>1. /\ DOMAIN approvals' = DOMAIN approvals \cup {id} /\ approvals'[id] = s
          /\ \A x \in DOMAIN approvals : x # id => approvals'[x] = approvals[x]
      BY <2>2 DEF Put
    <3>. QED  BY <1>1, <1>2, <1>4, <1>5, <2>2, <3>1 DEF Consistent, Agreed
  <2>3. CASE AcceptIncoming(m.id, m.src) /\ UNCHANGED approvals
    <3>. PICK s, id : s = m.src /\ id = m.id
      OBVIOUS
    <3>1. \A i \in DOMAIN down' : i \in DOMAIN down \/ (i = id /\ down'[i].src = s)
      BY <2>3, RowSource
    <3>. QED  BY <1>1, <1>2, <1>4, <1>5, <2>3, <3>1 DEF Consistent, Agreed
  <2>. QED  BY <1>5, <2>1, <2>2, <2>3 DEF OnOffer
<1>6. CASE m.t = "chunk" /\ OnChunk(m) /\ UNCHANGED approvals
  <2>1. DOMAIN down' = DOMAIN down
    BY <1>6 DEF OnChunk, FailChunk
  <2>. QED  BY <1>3, <1>6, <2>1
<1>7. CASE m.t = "done" /\ OnDone(m) /\ UNCHANGED approvals
  <2>1. DOMAIN down' = DOMAIN down
    <3>1. \/ down' = down
          \/ \E st : down' = [down EXCEPT ![m.id].file = None, ![m.id].status = st]
      BY <1>7 DEF OnDone
    <3>. QED  BY <3>1
  <2>. QED  BY <1>3, <1>7, <2>1
<1>8. CASE (\E S : CancelDown(S)) /\ UNCHANGED approvals
  <2>1. DOMAIN down' = DOMAIN down
    BY <1>8 DEF CancelDown
  <2>. QED  BY <1>3, <1>8, <2>1
<1>9. CASE UNCHANGED <<down, approvals>>
  BY <1>3, <1>9
<1>. QED  BY <1>5, <1>6, <1>7, <1>8, <1>9 DEF OnFwd, SetAllowedDown

\* What a permission is withdrawn with is no offer.
LEMMA WithdrawnSays ==
    ASSUME NEW S, IsFiniteSet(S), NEW told, \/ told = <<>>
                                            \/ \E on : told = <<[t |-> "perm", on |-> on]>>,
           NEW c, c = Cancels(S) \o told
    PROVE  IsSeq(c) /\ \A k \in 1..Len(c) : c[k].t \in {"cancel", "perm"}
<1>1. IsSeq(told) /\ \A k \in 1..Len(told) : told[k].t = "perm"
  <2>1. CASE told = <<>>
    BY <2>1, EmptyOf
  <2>2. CASE \E on : told = <<[t |-> "perm", on |-> on]>>
    <3>. PICK on : told = <<[t |-> "perm", on |-> on]>>
      BY <2>2
    <3>. PICK m : m = [t |-> "perm", on |-> on]
      OBVIOUS
    <3>1. m.t = "perm" /\ told = <<m>>
      OBVIOUS
    <3>. QED  BY <3>1, SingleOf
  <2>. QED  BY <2>1, <2>2
<1>2. Withdraws(S, told, c)
  BY <1>1, CancelsAnd
<1>. QED  BY <1>1, <1>2 DEF Withdraws

LEMMA AllowedUpSays ==
    ASSUME Inv, NEW on, NEW told, \/ told = <<>>
                                  \/ \E o : told = <<[t |-> "perm", on |-> o]>>,
           SetAllowedUp(on, told), NEW kinds, "cancel" \notin kinds, "perm" \notin kinds
    PROVE  NoNew(fwd, fwd', kinds)
<1>1. Shape /\ IsSeq(fwd)
  BY DEF Inv, Shape, Sent
<1>2. PICK ids : ids = (IF on THEN {} ELSE With(Running, up)) /\ Tell(Cancels(ids) \o told)
  BY DEF SetAllowedUp
<1>3. IsFiniteSet(ids)
  BY <1>1, <1>2, RunningFinite, FS_EmptySet
<1>. PICK c : c = Cancels(ids) \o told
  OBVIOUS
<1>4. IsSeq(c) /\ \A k \in 1..Len(c) : c[k].t \in {"cancel", "perm"}
  BY <1>3, WithdrawnSays
<1>. QED  BY <1>1, <1>2, <1>4, KeptTold

LEMMA OnBackConsistent ==
    ASSUME Inv, OnBack, ~(Head(back).t = "fetch" /\ mayUp), NEW f, Agreed(f)
    PROVE  Consistent(f)
<1>. PICK m : m = Head(back)
  OBVIOUS
<1>1. UNCHANGED <<down, approvals>> /\ IsSeq(fwd) /\ Streams(stream)
  BY DEF OnBack, OnAccept, receiver, Inv, Shape, Sent
<1>2. NoNew(fwd, fwd', {"offer"})
  <2>1. CASE fwd' = fwd
    BY <2>1, KeptSame
  <2>2. CASE SetAllowedUp(m.on, <<>>)
    BY <2>2, AllowedUpSays
  <2>3. CASE Tell(<<[t |-> "reject", id |-> 0]>>)
    <3>. PICK r : r = [t |-> "reject", id |-> 0]
      OBVIOUS
    <3>. PICK ms : ms = <<r>>
      OBVIOUS
    <3>1. IsSeq(ms) /\ \A k \in 1..Len(ms) : ms[k].t = "reject"
      <4>1. r.t = "reject"
        OBVIOUS
      <4>. QED  BY <4>1, SingleOf
    <3>. QED  BY <1>1, <2>3, <3>1, KeptTold
  <2>. QED  BY <2>1, <2>2, <2>3 DEF OnBack, OnAccept
<1>3. CASE UNCHANGED stream
  BY <1>1, <1>2, <1>3, ConsistentSame
<1>4. CASE m.t = "accept" /\ OnAccept(m)
  <2>1. CASE /\ m.id \in With({"Pending"}, up)
             /\ stream' = [stream EXCEPT ![m.id] = [pc |-> "read", src |-> up[m.id].src, pos |-> m.from]]
    <3>. PICK id : id = m.id
      OBVIOUS
    <3>. PICK w : w = [pc |-> "read", src |-> up[m.id].src, pos |-> m.from]
      OBVIOUS
    <3>1. "src" \in DOMAIN w /\ w.src = f[id]
      BY <2>1 DEF With, Agreed
    <3>2. \A i \in Ids : stream'[i] = stream[i] \/ (i = id /\ stream'[i] = w)
      BY <1>1, <2>1 DEF Streams
    <3>3. \A i \in Ids : stream'[i].pc # "none" => "src" \in DOMAIN stream'[i] /\ stream'[i].src = f[i]
      BY <3>1, <3>2 DEF Agreed
    <3>. QED  BY <1>1, <1>2, <3>3 DEF Consistent, Agreed
  <2>. QED  BY <1>3, <1>4, <2>1 DEF OnAccept
<1>. QED  BY <1>3, <1>4 DEF OnBack, manager

LEMMA ViewerConsistent ==
    ASSUME Inv, NEW id \in Ids, Viewer(id), NEW f, Agreed(f)
    PROVE  Consistent(f)
<1>1. UNCHANGED <<approvals, stream>> /\ IsSeq(fwd)
  BY DEF Viewer, Inv, Shape, Sent
<1>2. DOMAIN down' = DOMAIN down
  BY DEF Viewer, ViewerPauses, ViewerResumes, ViewerCancels, CancelDown
<1>3. NoNew(fwd, fwd', {"offer"})
  <2>1. CASE fwd' = fwd
    BY <2>1, KeptSame
  <2>2. CASE Tell(Cancels({id}))
    <3>. PICK c : c = Cancels({id})
      OBVIOUS
    <3>1. IsSeq(c) /\ \A k \in 1..Len(c) : c[k].t = "cancel"
      BY FS_Singleton, CancelsOf
    <3>. QED  BY <1>1, <2>2, <3>1, KeptTold
  <2>. QED  BY <2>1, <2>2 DEF Viewer, ViewerCancels
<1>. QED  BY <1>1, <1>2, <1>3, ConsistentSame

LEMMA SetPermissionConsistent ==
    ASSUME Inv, NEW on, SetPermission(on), NEW f, Agreed(f)
    PROVE  Consistent(f)
<1>1. UNCHANGED <<approvals, stream>>
  BY DEF SetPermission
<1>2. DOMAIN down' = DOMAIN down
  BY DEF SetPermission, SetAllowedDown, CancelDown
<1>3. NoNew(fwd, fwd', {"offer"})
  <2>1. CASE fwd' = fwd
    BY <2>1, KeptSame
  <2>2. CASE SetAllowedUp(on, <<[t |-> "perm", on |-> on]>>)
    BY <2>2, AllowedUpSays
  <2>. QED  BY <2>1, <2>2 DEF SetPermission
<1>. QED  BY <1>1, <1>2, <1>3, ConsistentSame

LEMMA OrdinaryConsistent ==
    ASSUME Inv, Ordinary, NEW f, Agreed(f)
    PROVE  Consistent(f)
<1>1. CASE UNCHANGED <<fwd, down, approvals, stream>>
  <2>1. NoNew(fwd, fwd', {"offer"})
    BY <1>1, KeptSame
  <2>. QED  BY <1>1, <2>1, ConsistentSame
<1>2. CASE \E s \in Sources : Download(s) \/ EditSource(s)
  BY <1>1, <1>2 DEF Download, EditSource, manager, receiver
<1>3. CASE WindowCloses \/ UNCHANGED vars
  BY <1>1, <1>3 DEF WindowCloses, manager, vars
<1>. QED  BY <1>2, <1>3, ViewerConsistent, RespondConsistent, StreamsConsistent, OnFwdConsistent,
             StartQueuedConsistent, OnBackConsistent, SetPermissionConsistent DEF Ordinary

\* An offer names the source of its transfer, which nobody has heard of.
LEMMA OneMoreAgrees ==
    ASSUME Inv, Orders, NEW s \in Sources, NEW tbl, OneMore(s, tbl), NEW f \in [Ids -> Sources \cup {None}], Agreed(f)
    PROVE  Agree'
<1>. PICK n : n = next
  OBVIOUS
<1>. PICK m : m = [t |-> "offer", id |-> next, src |-> s]
  OBVIOUS
<1>. PICK ms : ms = <<m>>
  OBVIOUS
<1>. PICK g : g = [f EXCEPT ![n] = s]
  OBVIOUS
<1>1. /\ fwd' \in Overtaking(fwd, ms) /\ UNCHANGED <<stream, down, approvals>> /\ IsSeq(fwd)
      /\ Numbers /\ next \in Nat /\ Stages
  BY DEF OneMore, Offer, Tell, receiver, Inv, Shape, Sent
<1>2. /\ \A i \in Ids : i \in DOMAIN up' => i = n \/ i \in DOMAIN tbl
      /\ \A i \in Ids \ {n} : i \in DOMAIN up' => up'[i] = up[i]
      /\ n \in Ids /\ n \notin DOMAIN up /\ up'[n].src = s /\ DOMAIN tbl \subseteq DOMAIN up
      /\ DOMAIN up' \subseteq Ids
  <2>1. Uploads(up')
    <3>1. Uploads(up)
      BY DEF Inv, Shape
    <3>2. Offer(s, tbl)
      BY DEF OneMore
    <3>3. PICK w : w = [src |-> s, status |-> "Pending"]
      OBVIOUS
    <3>4. up' = Put(tbl, n, w) /\ DOMAIN w = {"src", "status"} /\ w.src \in Sources
      BY <3>2, <3>3 DEF Offer
    <3>5. n \in Ids
      BY <3>2, <1>1, BoundsAssumption DEF Offer, Ids, Inv, Shape
    <3>6. DOMAIN up' = DOMAIN tbl \cup {n} /\ up'[n] = w /\ \A i \in DOMAIN tbl : i # n => up'[i] = tbl[i]
      BY <3>4 DEF Put
    <3>. QED  BY <3>1, <3>4, <3>5, <3>6 DEF Uploads, OneMore
  <2>. QED  BY <2>1, OfferEven DEF OneMore, Uploads
<1>3. g \in [Ids -> Sources \cup {None}] /\ g[n] = s /\ \A i \in Ids : i # n => g[i] = f[i]
  BY <1>2
<1>4. ~(n < n) /\ n < n + 1 /\ n >= n
  BY <1>1
<1>5. n \notin DOMAIN approvals /\ n \notin DOMAIN down /\ ~Has(fwd, "offer", n) /\ stream[n].pc = "none"
  <2>1. Fresh(n) /\ Stage(n)
    BY <1>1, <1>2, <1>4 DEF Fresh, Stages
  <2>. QED  BY <1>1, <1>4, <2>1 DEF Numbers, Stage, Idle
<1>6. \A k \in 1..Len(fwd') : fwd'[k].t = "offer" => fwd'[k].src = g[fwd'[k].id]
  <2>1. IsSeq(ms) /\ Len(ms) = 1 /\ ms[1] = m
    BY SingleOf
  <2>2. Inserted(fwd, ms, fwd')
    BY <1>1, <2>1, OvertakingInserts
  <2>5. ASSUME NEW k \in 1..Len(fwd')
        PROVE  fwd'[k] = m \/ \E l \in 1..Len(fwd) : fwd[l] = fwd'[k]
    <3>1. (\E l \in 1..Len(fwd) : fwd[l] = fwd'[k]) \/ (\E j \in 1..Len(ms) : ms[j] = fwd'[k])
      BY <1>1, <2>1, <2>2, InsertedFrom
    <3>. QED  BY <2>1, <3>1
  <2>6. ASSUME NEW l \in 1..Len(fwd), fwd[l].t = "offer" PROVE fwd[l].src = g[fwd[l].id]
    <3>1. Sound(fwd[l]) /\ Has(fwd, "offer", fwd[l].id)
      BY <2>6 DEF Inv, Shape, Sent, AllSound, Has
    <3>2. fwd[l].id \in Ids /\ fwd[l].id # n
      BY <1>5, <2>6, <3>1 DEF Sound
    <3>. QED  BY <1>3, <2>6, <3>2 DEF Agreed
  <2>7. m.src = g[m.id]
    BY <1>3
  <2>. QED  BY <2>5, <2>6, <2>7
<1>7. Agreed(g)'
  <2>1. \A i \in DOMAIN up' : up'[i].src = g[i]
    BY <1>2, <1>3 DEF Agreed
  <2>2. \A i \in DOMAIN approvals : approvals[i] = g[i]
    BY <1>3, <1>5 DEF Agreed, Inv, Shape, Asked
  <2>3. \A i \in DOMAIN down : down[i].src = g[i]
    BY <1>3, <1>5 DEF Agreed, Inv, Shape, Rows
  <2>4. \A i \in Ids : stream[i].pc # "none" => "src" \in DOMAIN stream[i] /\ stream[i].src = g[i]
    BY <1>3, <1>5 DEF Agreed
  <2>. QED  BY <1>1, <1>6, <2>1, <2>2, <2>3, <2>4 DEF Agreed
<1>. QED  BY <1>3, <1>7 DEF Agree

LEMMA NewOrders == New => Orders /\ Agree
<1>. SUFFICES ASSUME New PROVE Orders /\ Agree
  OBVIOUS
<1>1. DOMAIN up = {} /\ DOMAIN down = {} /\ DOMAIN approvals = {} /\ Len(fwd) = 0 /\ Len(back) = 0 /\ mayUp
  BY EmptyOf DEF New
<1>2. \A kind, id : ~Has(fwd, kind, id) /\ ~Has(back, kind, id)
  BY <1>1 DEF Has
<1>3. \A i \in Ids : stream[i].pc = "none"
  BY DEF New, NoStreams
<1>4. \A i \in Ids : Order(i)
  <2>. SUFFICES ASSUME NEW i \in Ids PROVE Order(i)
    OBVIOUS
  <2>1. ~Ahead(back, "accept", i, "reject", i)
    BY <1>2, AheadHas
  <2>. QED  BY <1>1, <1>2, <1>3, <2>1 DEF Order, Sending1, Refused, Closed, Taken1, Halted, Open, TakesOf
<1>5. Orders
  BY <1>1, <1>4 DEF Orders, NothingOff
<1>6. Agree
  <2>1. PICK f : f = [i \in Ids |-> None]
    OBVIOUS
  <2>2. f \in [Ids -> Sources \cup {None}]
    BY <2>1
  <2>3. Agreed(f)
    BY <1>1, <1>3 DEF Agreed
  <2>. QED  BY <2>2, <2>3 DEF Agree
<1>. QED  BY <1>5, <1>6

LEMMA OrdersNext ==
    ASSUME Inv, Inv', Orders, Agree, [Next]_vars
    PROVE  Orders' /\ Agree'
<1>1. PICK f \in [Ids -> Sources \cup {None}] : Agreed(f)
  BY DEF Agree
<1>2. CASE Ordinary
  <2>1. Even /\ Consistent(f)
    BY <1>1, <1>2, OrdinaryEven, OrdinaryConsistent
  <2>2. Agreed(f)'
    BY <1>1, <2>1, AgreeEven
  <2>. QED  BY <1>1, <2>1, <2>2 DEF Even, Agree
<1>3. CASE Reconnect
  <2>1. New'
    BY <1>3 DEF New, Reconnect
  <2>. QED  BY <2>1, NewOrders, PTL
<1>4. ASSUME NEW s \in Sources, NEW tbl, OneMore(s, tbl)
      PROVE  Orders' /\ Agree'
  <2>1. Agree'
    BY <1>1, <1>4, OneMoreAgrees
  <2>2. Orders'
    BY <1>4, OfferEven DEF OneMore
  <2>. QED  BY <2>1, <2>2
<1>. QED  BY <1>2, <1>3, <1>4, EveryStep

-----------------------------------------------------------------------------
(* What the receiver says *)

Says(kinds) == \E ms : IsSeq(ms) /\ back' = back \o ms /\ \A k \in 1..Len(ms) : ms[k].t \notin kinds

LEMMA SaysOne ==
    ASSUME NEW m, Reply(<<m>>), NEW kinds, m.t \notin kinds
    PROVE  Says(kinds)
<1>. PICK ms : ms = <<m>>
  OBVIOUS
<1>1. IsSeq(ms) /\ Len(ms) = 1 /\ ms[1] = m
  BY SingleOf
<1>2. back' = back \o ms
  BY DEF Reply
<1>3. \A k \in 1..Len(ms) : ms[k].t \notin kinds
  BY <1>1
<1>. QED  BY <1>1, <1>2, <1>3, Zenon DEF Says

LEMMA SaysNothing ==
    ASSUME Inv, back' = back, NEW kinds
    PROVE  Says(kinds)
<1>1. PICK T : back \in Seq(T)
  BY DEF Inv, Shape, Sent, IsSeq
<1>. PICK ms : ms = <<>>
  OBVIOUS
<1>2. back \o ms = back
  BY <1>1, ConcatEmptySeq
<1>3. IsSeq(ms) /\ Len(ms) = 0
  BY EmptyOf
<1>4. \A k \in 1..Len(ms) : ms[k].t \notin kinds
  BY <1>3
<1>5. back' = back \o ms
  BY <1>2
<1>. QED  BY <1>3, <1>4, <1>5, Zenon DEF Says

LEMMA SaysWithdrawn ==
    ASSUME Inv, NEW on, NEW told, \/ told = <<>>
                                  \/ \E o : told = <<[t |-> "perm", on |-> o]>>,
           SetAllowedDown(on, told), NEW kinds, "cancel" \notin kinds, "perm" \notin kinds
    PROVE  Says(kinds)
<1>1. Shape
  BY DEF Inv
<1>2. PICK ids : ids = (IF on THEN {} ELSE With(Running, down)) /\ Reply(Cancels(ids) \o told)
  BY DEF SetAllowedDown
<1>3. IsFiniteSet(ids)
  BY <1>1, <1>2, RunningFinite, FS_EmptySet
<1>. PICK c : c = Cancels(ids) \o told
  OBVIOUS
<1>4. IsSeq(c) /\ \A k \in 1..Len(c) : c[k].t \in {"cancel", "perm"}
  BY <1>3, WithdrawnSays
<1>5. back' = back \o c
  BY <1>2 DEF Reply
<1>. QED  BY <1>4, <1>5 DEF Says

LEMMA SaysAccepted ==
    ASSUME Inv, NEW id, NEW s, AcceptIncoming(id, s) \/ StartIncoming(id, s) \/ StartFails(id),
           NEW kinds, "accept" \notin kinds, "reject" \notin kinds
    PROVE  Says(kinds)
<1>1. CASE StartIncoming(id, s)
  <2>1. PICK from : Reply(<<[t |-> "accept", id |-> id, from |-> from]>>)
    BY <1>1, Zenon DEF StartIncoming
  <2>2. PICK m : m = [t |-> "accept", id |-> id, from |-> from]
    OBVIOUS
  <2>3. Reply(<<m>>) /\ m.t \notin kinds
    BY <2>1, <2>2
  <2>. QED  BY <2>3, SaysOne
<1>2. CASE StartFails(id)
  <2>1. PICK m : m = [t |-> "reject", id |-> id]
    OBVIOUS
  <2>2. Reply(<<m>>) /\ m.t \notin kinds
    BY <1>2, <2>1 DEF StartFails
  <2>. QED  BY <2>2, SaysOne
<1>3. CASE back' = back
  BY <1>3, SaysNothing
<1>. QED  BY <1>1, <1>2, <1>3 DEF AcceptIncoming

\* A file comes to its end.
Ends == OnFwd /\ Head(fwd).t = "done" /\ mayDown /\ OnDone(Head(fwd))

LEMMA OnFwdSays ==
    ASSUME Inv, OnFwd
    PROVE  Says({"fetch", "verified"}) \/ (Ends /\ Says({"fetch"}))
<1>. PICK m : m = Head(fwd)
  OBVIOUS
<1>1. CASE UNCHANGED back
  BY <1>1, SaysNothing
<1>2. CASE SetAllowedDown(m.on, <<>>)
  BY <1>2, SaysWithdrawn
<1>3. CASE m.t = "offer" /\ OnOffer(m)
  <2>1. CASE Reply(<<[t |-> "reject", id |-> m.id]>>)
    <3>. PICK r : r = [t |-> "reject", id |-> m.id]
      OBVIOUS
    <3>1. Reply(<<r>>) /\ r.t \notin {"fetch", "verified"}
      BY <2>1
    <3>. QED  BY <3>1, SaysOne
  <2>2. CASE AcceptIncoming(m.id, m.src)
    BY <2>2, SaysAccepted
  <2>. QED  BY <1>1, <1>3, <2>1, <2>2 DEF OnOffer
<1>4. CASE m.t = "chunk" /\ OnChunk(m)
  <2>1. CASE FailChunk(m.id)
    <3>. PICK r : r = [t |-> "cancel", id |-> m.id]
      OBVIOUS
    <3>1. Reply(<<r>>) /\ r.t \notin {"fetch", "verified"}
      BY <2>1 DEF FailChunk
    <3>. QED  BY <3>1, SaysOne
  <2>. QED  BY <1>1, <1>4, <2>1 DEF OnChunk
<1>5. CASE m.t = "done" /\ mayDown /\ OnDone(m)
  <2>1. Ends
    BY <1>5 DEF Ends
  <2>2. CASE \E ok : Reply(<<[t |-> "verified", id |-> m.id, ok |-> ok]>>)
    <3>1. PICK ok : Reply(<<[t |-> "verified", id |-> m.id, ok |-> ok]>>)
      BY <2>2
    <3>. PICK r : r = [t |-> "verified", id |-> m.id, ok |-> ok]
      OBVIOUS
    <3>2. Reply(<<r>>) /\ r.t \notin {"fetch"}
      BY <3>1
    <3>. QED  BY <2>1, <3>2, SaysOne
  <2>. QED  BY <1>1, <1>5, <2>2 DEF OnDone
<1>. QED  BY <1>1, <1>2, <1>3, <1>4, <1>5 DEF OnFwd

LEMMA OrdinarySays ==
    ASSUME Inv, Ordinary
    PROVE  \/ back # <<>> /\ back' = Tail(back)
           \/ Says({"fetch", "verified"})
           \/ \E s \in Sources : Download(s)
           \/ Ends /\ Says({"fetch"})
<1>1. CASE UNCHANGED back
  BY <1>1, SaysNothing
<1>2. ASSUME NEW id \in Ids, Respond(id, TRUE) \/ Respond(id, FALSE)
      PROVE  Says({"fetch", "verified"})
  <2>1. CASE AcceptIncoming(id, approvals[id])
    BY <2>1, SaysAccepted
  <2>2. CASE Reply(<<[t |-> "reject", id |-> id]>>)
    <3>. PICK r : r = [t |-> "reject", id |-> id]
      OBVIOUS
    <3>1. Reply(<<r>>) /\ r.t \notin {"fetch", "verified"}
      BY <2>2
    <3>. QED  BY <3>1, SaysOne
  <2>. QED  BY <1>2, <2>1, <2>2 DEF Respond
<1>3. CASE StartQueued
  <2>1. CASE \E id \in DOMAIN down : StartIncoming(id, down[id].src) \/ StartFails(id)
    BY <2>1, SaysAccepted
  <2>. QED  BY <1>1, <1>3, <2>1 DEF StartQueued
<1>4. ASSUME NEW id \in Ids, Viewer(id)
      PROVE  Says({"fetch", "verified"})
  <2>1. CASE Reply(Cancels({id}))
    <3>. PICK c : c = Cancels({id})
      OBVIOUS
    <3>1. IsSeq(c) /\ \A k \in 1..Len(c) : c[k].t = "cancel"
      BY FS_Singleton, CancelsOf
    <3>2. back' = back \o c
      BY <2>1 DEF Reply
    <3>. QED  BY <3>1, <3>2 DEF Says
  <2>. QED  BY <1>1, <1>4, <2>1, SaysNothing DEF Viewer, ViewerCancels
<1>5. ASSUME NEW on \in BOOLEAN, SetPermission(on)
      PROVE  Says({"fetch", "verified"})
  <2>1. CASE SetAllowedDown(on, <<[t |-> "perm", on |-> on]>>)
    BY <2>1, SaysWithdrawn
  <2>. QED  BY <1>1, <1>5, <2>1, SaysNothing DEF SetPermission
<1>6. ASSUME NEW id \in Ids, StreamRead(id) \/ StreamResume(id) \/ StreamFails(id) \/ StreamSend(id)
      PROVE  Says({"fetch", "verified"})
  BY <1>6, SaysNothing DEF StreamRead, StreamResume, StreamFails, StreamSend
<1>7. CASE OnBack
  BY <1>7 DEF OnBack
<1>8. CASE WindowCloses \/ UNCHANGED vars \/ \E s \in Sources : EditSource(s)
  BY <1>1, <1>8 DEF WindowCloses, EditSource, vars
<1>. QED  BY <1>2, <1>3, <1>4, <1>5, <1>6, <1>7, <1>8, OnFwdSays DEF Ordinary

-----------------------------------------------------------------------------
(* One transfer of a name at a time *)

Same(i, j) == NameOf[up[i].src] = NameOf[up[j].src]
Fetches(q, k, n) == q[k].t = "fetch" /\ NameOf[q[k].src] = n
LivelyOnce ==
    /\ \A i, j \in Ids : Lively(i) /\ Lively(j) /\ Same(i, j) => i = j
    /\ \A k \in 1..Len(back) : \A n : Fetches(back, k, n) => mode = "download" /\ ~Sending(n)
    /\ \A k, l \in 1..Len(back) : \A n : Fetches(back, k, n) /\ Fetches(back, l, n) => k = l

LEMMA ModeStays == [Next]_vars => mode' = mode
BY DEF Next, SendPaths, Retry, Offer, Download, EditSource, Viewer, Respond, StreamRead, StreamResume,
       StreamFails, StreamSend, OnFwd, OnBack, OnAccept, StartQueued, WindowCloses, SetPermission, Reconnect, vars, world

LEMMA SendingShrinks ==
    ASSUME Even, Inv, Inv'
    PROVE  /\ \A i \in Ids : Lively(i)' => Lively(i) /\ up'[i].src = up[i].src
           /\ \A n : Sending(n)' => Sending(n)
<1>1. \A i \in Ids : Lively(i)' => Lively(i) /\ up'[i].src = up[i].src
  <2>1. \A i : Lively(i)' => i \in DOMAIN up'
    BY DEF Lively, With
  <2>. QED  BY <2>1 DEF Even, Steady
<1>2. ASSUME NEW n, Sending(n)' PROVE Sending(n)
  <2>1. PICK i : Lively(i)' /\ NameOf[up'[i].src] = n
    BY <1>2 DEF Sending, Lively
  <2>2. i \in Ids
    <3>1. i \in DOMAIN up' /\ Uploads(up')
      BY <2>1 DEF Lively, With, Inv, Shape
    <3>. QED  BY <3>1 DEF Uploads
  <2>. QED  BY <1>1, <2>1, <2>2 DEF Sending, Lively
<1>. QED  BY <1>1, <1>2

LEMMA FetchesTail ==
    ASSUME NEW q, IsSeq(q), q # <<>>, NEW r, r = Tail(q)
    PROVE  /\ \A k \in 1..Len(r) : \A n : Fetches(r, k, n) => k + 1 \in 1..Len(q) /\ Fetches(q, k + 1, n) /\ k + 1 # 1
<1>1. Len(r) = Len(q) - 1 /\ Len(q) \in Nat /\ \A k \in 1..Len(r) : k + 1 \in 1..Len(q) /\ r[k] = q[k + 1]
  BY TailOf
<1>. QED  BY <1>1 DEF Fetches

LEMMA FetchesMore ==
    ASSUME NEW q, IsSeq(q), NEW ms, IsSeq(ms), NEW r, r = q \o ms, \A k \in 1..Len(ms) : ms[k].t # "fetch"
    PROVE  \A k \in 1..Len(r) : \A n : Fetches(r, k, n) => k \in 1..Len(q) /\ Fetches(q, k, n)
<1>1. Concat(q, ms, r) /\ Len(q) \in Nat /\ Len(ms) \in Nat
  BY ConcatOf, LenOf
<1>. SUFFICES ASSUME NEW k \in 1..Len(r), r[k].t = "fetch" PROVE k \in 1..Len(q) /\ q[k] = r[k]
  BY DEF Fetches
<1>2. CASE k <= Len(q)
  <2>1. k \in 1..Len(q)
    BY <1>1, <1>2
  <2>. QED  BY <1>1, <2>1 DEF Concat
<1>3. CASE ~(k <= Len(q))
  <2>1. Len(r) = Len(q) + Len(ms)
    BY <1>1 DEF Concat
  <2>2. PICK x \in 1..Len(ms) : k = Len(q) + x
    <3>1. k - Len(q) \in 1..Len(ms) /\ k = Len(q) + (k - Len(q))
      BY <1>1, <1>3, <2>1
    <3>. QED  BY <3>1
  <2>3. r[k] = ms[x]
    BY <1>1, <2>2 DEF Concat
  <2>. QED  BY <2>3
<1>. QED  BY <1>2, <1>3

LEMMA LivelyOnceOrdinary ==
    ASSUME Careful, Inv, Inv', Even, LivelyOnce, Ordinary, mode' = mode
    PROVE  LivelyOnce'
<1>1. /\ \A i \in Ids : Lively(i)' => Lively(i) /\ up'[i].src = up[i].src
      /\ \A n : Sending(n)' => Sending(n)
  BY SendingShrinks
<1>2. \A i, j \in Ids : (Lively(i) /\ Lively(j) /\ Same(i, j))' => i = j
  BY <1>1 DEF LivelyOnce, Same
<1>3. IsSeq(back) /\ Len(back) \in Nat
  BY LenOf DEF Inv, Shape, Sent
<1>4. ASSUME \A k \in 1..Len(back') : \A n : Fetches(back', k, n) => k \in 1..Len(back) /\ Fetches(back, k, n)
      PROVE  LivelyOnce'
  <2>1. \A k \in 1..Len(back') : \A n : Fetches(back', k, n) => mode' = "download" /\ ~Sending(n)'
    BY <1>1, <1>4 DEF LivelyOnce
  <2>2. \A k, l \in 1..Len(back') : \A n : Fetches(back', k, n) /\ Fetches(back', l, n) => k = l
    BY <1>4 DEF LivelyOnce
  <2>. QED  BY <1>2, <2>1, <2>2 DEF LivelyOnce, Fetches
<1>5. CASE back # <<>> /\ back' = Tail(back)
  <2>1. \A k \in 1..Len(back') : \A n : Fetches(back', k, n) => k + 1 \in 1..Len(back) /\ Fetches(back, k + 1, n)
    BY <1>3, <1>5, FetchesTail
  <2>2. \A k \in 1..Len(back') : \A n : Fetches(back', k, n) => mode' = "download" /\ ~Sending(n)'
    BY <1>1, <2>1 DEF LivelyOnce
  <2>3. \A k, l \in 1..Len(back') : \A n : Fetches(back', k, n) /\ Fetches(back', l, n) => k = l
    <3>. SUFFICES ASSUME NEW k \in 1..Len(back'), NEW l \in 1..Len(back'), NEW n,
                         Fetches(back', k, n), Fetches(back', l, n)
                  PROVE  k = l
      OBVIOUS
    <3>1. k + 1 = l + 1
      BY <2>1 DEF LivelyOnce
    <3>. QED  BY <3>1
  <2>. QED  BY <1>2, <2>2, <2>3 DEF LivelyOnce, Fetches
<1>6. CASE Says({"fetch"}) \/ Says({"fetch", "verified"})
  <2>1. PICK ms : IsSeq(ms) /\ back' = back \o ms /\ \A k \in 1..Len(ms) : ms[k].t # "fetch"
    BY <1>6 DEF Says
  <2>. QED  BY <1>3, <1>4, <2>1, FetchesMore
<1>7. ASSUME NEW s \in Sources, Download(s) PROVE LivelyOnce'
  <2>. PICK m : m = [t |-> "fetch", id |-> 0, src |-> s]
    OBVIOUS
  <2>. PICK ms : ms = <<m>>
    OBVIOUS
  <2>1. /\ mode = "download" /\ ~Moving(NameOf[s]) /\ back' = back \o ms /\ up' = up
        /\ IsSeq(ms) /\ Len(ms) = 1 /\ ms[1] = m
    BY <1>7, SingleOf DEF Download, Reply, manager
  <2>2. Concat(back, ms, back')
    BY <1>3, <2>1, ConcatOf
  <2>3. ASSUME NEW k \in 1..Len(back'), NEW n, Fetches(back', k, n)
        PROVE  \/ k \in 1..Len(back) /\ Fetches(back, k, n)
               \/ k = Len(back) + 1 /\ n = NameOf[s]
    <3>1. CASE k <= Len(back)
      <4>1. k \in 1..Len(back)
        BY <1>3, <3>1
      <4>. QED  BY <2>2, <2>3, <4>1 DEF Concat, Fetches
    <3>2. CASE ~(k <= Len(back))
      <4>1. k = Len(back) + 1 /\ back'[Len(back) + 1] = m
        BY <1>3, <2>1, <2>2, <3>2 DEF Concat
      <4>. QED  BY <2>3, <4>1 DEF Fetches
    <3>. QED  BY <3>1, <3>2
  <2>4. ~Sending(NameOf[s]) /\ \A k \in 1..Len(back) : ~Fetches(back, k, NameOf[s])
    BY <2>1 DEF Moving, Fetches
  <2>5. \A k \in 1..Len(back') : \A n : Fetches(back', k, n) => mode' = "download" /\ ~Sending(n)'
    BY <1>1, <2>1, <2>3, <2>4 DEF LivelyOnce
  <2>6. \A k, l \in 1..Len(back') : \A n : Fetches(back', k, n) /\ Fetches(back', l, n) => k = l
    BY <2>3, <2>4 DEF LivelyOnce
  <2>. QED  BY <1>2, <2>5, <2>6 DEF LivelyOnce, Fetches
<1>. QED  BY <1>5, <1>6, <1>7, OrdinarySays

LEMMA LivelyOnceOneMore ==
    ASSUME Careful, Inv, Inv', Orders, LivelyOnce, NEW s \in Sources, NEW tbl, OneMore(s, tbl), mode' = mode
    PROVE  LivelyOnce' /\ ~Sending(NameOf[s])
<1>. PICK n : n = next
  OBVIOUS
<1>1. IsSeq(back) /\ Len(back) \in Nat
  BY LenOf DEF Inv, Shape, Sent
<1>2. /\ \A i \in Ids \ {n} : Lively(i)' => Lively(i) /\ up'[i].src = up[i].src
      /\ up'[n].src = s
  <2>1. /\ \A i \in Ids : i \in DOMAIN up' => i = n \/ i \in DOMAIN tbl
        /\ \A i \in Ids \ {n} : i \in DOMAIN up' => up'[i] = up[i]
        /\ \A i \in Ids \ {n} : Steady(i)
        /\ up'[n].src = s
    BY OfferEven DEF OneMore
  <2>2. \A i : Lively(i)' => i \in DOMAIN up'
    BY DEF Lively, With
  <2>. QED  BY <2>1, <2>2 DEF Steady
<1>3. ~Sending(NameOf[s]) /\ \A k \in 1..Len(back') : \A x : Fetches(back', k, x) => x # NameOf[s]
  <2>1. CASE back' = back /\ mode # "download" /\ ~Sending(NameOf[s])
    BY <2>1 DEF LivelyOnce
  <2>2. CASE back # <<>> /\ back' = Tail(back) /\ Head(back).t = "fetch" /\ Head(back).src = s
    <3>1. 1 \in 1..Len(back) /\ Fetches(back, 1, NameOf[s])
      BY <1>1, <2>2, TailOf DEF Fetches
    <3>2. \A k \in 1..Len(back') : \A x : Fetches(back', k, x) => k + 1 \in 1..Len(back) /\ Fetches(back, k + 1, x) /\ k + 1 # 1
      BY <1>1, <2>2, FetchesTail
    <3>. QED  BY <3>1, <3>2 DEF LivelyOnce
  <2>. QED  BY <2>1, <2>2 DEF OneMore
<1>4. \A i \in Ids : Lively(i) => NameOf[up[i].src] # NameOf[s]
  BY <1>3 DEF Sending, Lively
<1>5. \A i, j \in Ids : (Lively(i) /\ Lively(j) /\ Same(i, j))' => i = j
  BY <1>2, <1>4 DEF LivelyOnce, Same
<1>6. \A x : Sending(x)' => Sending(x) \/ x = NameOf[s]
  <2>. SUFFICES ASSUME NEW x, Sending(x)' PROVE Sending(x) \/ x = NameOf[s]
    OBVIOUS
  <2>1. PICK i : Lively(i)' /\ NameOf[up'[i].src] = x
    BY DEF Sending, Lively
  <2>2. i \in Ids
    <3>1. i \in DOMAIN up' /\ Uploads(up')
      BY <2>1 DEF Lively, With, Inv, Shape
    <3>. QED  BY <3>1 DEF Uploads
  <2>. QED  BY <1>2, <2>1, <2>2 DEF Sending, Lively
<1>7. /\ \A k \in 1..Len(back') : \A x : Fetches(back', k, x) => mode' = "download" /\ ~Sending(x)'
      /\ \A k, l \in 1..Len(back') : \A x : Fetches(back', k, x) /\ Fetches(back', l, x) => k = l
  <2>1. CASE back' = back
    BY <1>3, <1>6, <2>1 DEF LivelyOnce
  <2>2. CASE back # <<>> /\ back' = Tail(back)
    <3>1. \A k \in 1..Len(back') : \A x : Fetches(back', k, x) => k + 1 \in 1..Len(back) /\ Fetches(back, k + 1, x)
      BY <1>1, <2>2, FetchesTail
    <3>2. ASSUME NEW k \in 1..Len(back'), NEW l \in 1..Len(back'), NEW x, Fetches(back', k, x), Fetches(back', l, x)
          PROVE  k = l
      <4>1. k + 1 = l + 1
        BY <3>1, <3>2 DEF LivelyOnce
      <4>. QED  BY <4>1
    <3>3. \A k \in 1..Len(back') : \A x : Fetches(back', k, x) => mode' = "download" /\ ~Sending(x)'
      BY <1>3, <1>6, <3>1 DEF LivelyOnce
    <3>. QED  BY <3>2, <3>3
  <2>. QED  BY <2>1, <2>2 DEF OneMore
<1>. QED  BY <1>3, <1>5, <1>7 DEF LivelyOnce, Fetches

-----------------------------------------------------------------------------
(* Two transfers of one name *)

NamedAs(i) == NameOf[down[i].src]
\* The other transfer is still alive at the sender, or takes chunks as well.
After(i, j) == Lively(j) /\ NameOf[up[j].src] = NamedAs(i) => Spent(i) \/ Ahead(fwd, "cancel", i, "offer", j)
Beside(i, j) == TakesOf(down, j) /\ NamedAs(j) = NamedAs(i) =>
                    (Spent(i) \/ Spent(j)) /\ ~Ahead(fwd, "done", j, "chunk", i)
Pair(i, j) == TakesOf(down, i) /\ i # j => After(i, j) /\ Beside(i, j)
Pairs == \A i, j \in Ids : Pair(i, j)

LEMMA AfterStays ==
    ASSUME Inv', LivelyOnce, Agree', NEW i \in Ids, NEW j \in Ids, i # j, Pair(i, j), Steady(i), Steady(j),
           TakesOf(down', i)
    PROVE  After(i, j)'
<1>. SUFFICES ASSUME Lively(j)', NameOf[up'[j].src] = NameOf[down'[i].src], ~Spent(i)'
              PROVE  Ahead(fwd', "cancel", i, "offer", j)
  BY DEF After, NamedAs
<1>0. \A x : Lively(x)' => x \in DOMAIN up'
  BY DEF Lively, With
<1>1. Lively(j) /\ up'[j].src = up[j].src /\ ~Spent(i)
  BY <1>0 DEF Steady
<1>2. CASE TakesOf(down, i) /\ ~Fresh(i)
  <2>1. i \in DOMAIN down
    BY <1>2 DEF TakesOf
  <2>2. down'[i].src = down[i].src
    BY <2>1 DEF Steady
  <2>3. NameOf[up[j].src] = NamedAs(i)
    BY <1>1, <2>2 DEF NamedAs
  <2>4. Ahead(fwd, "cancel", i, "offer", j)
    BY <1>1, <1>2, <2>3 DEF Pair, After
  <2>. QED  BY <1>1, <1>2, <2>4 DEF Steady
<1>3. CASE Fresh(i) /\ Still(i)'
  <2>1. Lively(i)'
    BY <1>3 DEF Spent, Still, Idle
  <2>2. Lively(i) /\ up'[i].src = up[i].src
    BY <1>0, <2>1 DEF Steady
  <2>3. up'[i].src = down'[i].src
    <3>1. PICK f : Agreed(f)'
      BY DEF Agree
    <3>2. i \in DOMAIN up' /\ i \in DOMAIN down'
      BY <1>0, <2>1 DEF TakesOf
    <3>. QED  BY <3>1, <3>2 DEF Agreed
  <2>4. Same(i, j)
    BY <1>1, <2>2, <2>3 DEF Same
  <2>. QED  BY <1>1, <2>2, <2>4 DEF LivelyOnce
<1>. QED  BY <1>2, <1>3 DEF Steady

LEMMA PairStays ==
    ASSUME Inv', LivelyOnce, Agree', NEW i \in Ids, NEW j \in Ids, Pair(i, j), Pair(j, i), Steady(i), Steady(j)
    PROVE  Pair(i, j)'
<1>. SUFFICES ASSUME TakesOf(down', i), i # j PROVE After(i, j)' /\ Beside(i, j)'
  BY DEF Pair
<1>1. After(i, j)'
  BY AfterStays
<1>. SUFFICES ASSUME TakesOf(down', j), NameOf[down'[j].src] = NameOf[down'[i].src]
              PROVE  (Spent(i)' \/ Spent(j)') /\ ~Ahead(fwd', "done", j, "chunk", i)
  BY <1>1 DEF Beside, NamedAs
<1>2. ASSUME NEW x \in Ids, NEW y \in Ids, x # y, Pair(x, y), Steady(x), Steady(y), TakesOf(down', x), TakesOf(down', y),
             NameOf[down'[x].src] = NameOf[down'[y].src], Lively(y)'
      PROVE  Spent(x)'
  <2>1. After(x, y)'
    BY <1>2, AfterStays
  <2>2. ~Has(fwd', "offer", y)
    BY <1>2 DEF TakesOf, Inv, Numbers
  <2>3. ~Ahead(fwd', "cancel", x, "offer", y)
    BY <2>2, AheadHas
  <2>4. up'[y].src = down'[y].src
    <3>1. PICK f : Agreed(f)'
      BY DEF Agree
    <3>2. y \in DOMAIN up' /\ y \in DOMAIN down'
      BY <1>2 DEF TakesOf, Lively, With
    <3>. QED  BY <3>1, <3>2 DEF Agreed
  <2>. QED  BY <1>2, <2>1, <2>3, <2>4 DEF After, NamedAs
<1>3. \A x \in {i, j} : TakesOf(down, x) /\ ~Fresh(x) => down'[x].src = down[x].src
  BY DEF TakesOf, Steady
<1>4. (TakesOf(down, i) /\ ~Fresh(i)) /\ (TakesOf(down, j) /\ ~Fresh(j)) => Beside(i, j) /\ NamedAs(i) = NamedAs(j)
  BY <1>3 DEF Pair, NamedAs
<1>5. Spent(i)' \/ Spent(j)'
  <2>1. CASE Lively(i)'
    BY <1>2, <2>1
  <2>2. CASE Lively(j)'
    BY <1>2, <2>2
  <2>3. CASE ~Lively(i)' /\ ~Lively(j)'
    <3>1. CASE Still(i)' \/ Still(j)'
      BY <2>3, <3>1 DEF Spent, Still, Idle
    <3>2. CASE (TakesOf(down, i) /\ ~Fresh(i)) /\ (TakesOf(down, j) /\ ~Fresh(j))
      <4>1. Spent(i) \/ Spent(j)
        BY <1>4, <3>2 DEF Beside
      <4>. QED  BY <4>1 DEF Steady
    <3>. QED  BY <3>1, <3>2 DEF Steady
  <2>. QED  BY <2>1, <2>2, <2>3
<1>6. ASSUME Ahead(fwd', "done", j, "chunk", i) PROVE FALSE
  <2>1. Ahead(fwd, "done", j, "chunk", i) \/ (Has(fwd, "done", j) /\ stream[i].pc # "none")
    BY <1>6 DEF Steady
  <2>2. Ahead(fwd, "done", j, "chunk", i) => Has(fwd, "done", j) /\ Has(fwd, "chunk", i)
    BY AheadHas
  <2>3. ~Still(j) /\ ~Still(i)
    BY <2>1, <2>2 DEF Still, Idle
  <2>4. (TakesOf(down, i) /\ ~Fresh(i)) /\ (TakesOf(down, j) /\ ~Fresh(j))
    BY <2>3 DEF Steady
  <2>5. Beside(i, j) /\ NamedAs(i) = NamedAs(j) /\ TakesOf(down, j)
    BY <1>4, <2>4
  <2>6. (Spent(i) \/ Spent(j)) /\ ~Ahead(fwd, "done", j, "chunk", i)
    BY <2>5 DEF Beside
  <2>. QED  BY <2>1, <2>2, <2>6 DEF Spent
<1>. QED  BY <1>5, <1>6

\* The offer of a transfer comes after the cancellation of any other of its name.
LEMMA PairsOneMore ==
    ASSUME Careful, Inv, Inv', Orders, LivelyOnce, Agree', Pairs, NEW s \in Sources, NEW tbl, OneMore(s, tbl),
           ~Sending(NameOf[s])
    PROVE  Pairs'
<1>. PICK n : n = next
  OBVIOUS
<1>1. /\ \A i \in Ids \ {n} : Steady(i)
      /\ n \in Ids /\ up'[n].src = s
  BY OfferEven DEF OneMore
<1>2. ~TakesOf(down', n)
  <2>1. n \notin DOMAIN down
    <3>1. n \in Nat
      BY DEF Inv, Shape
    <3>2. ~(n < n)
      BY <3>1
    <3>. QED  BY <3>2 DEF Inv, Numbers
  <2>. QED  BY <2>1 DEF TakesOf, OneMore, Offer, receiver
<1>3. ASSUME NEW i \in Ids, i # n, TakesOf(down', i) PROVE After(i, n)'
  <2>. SUFFICES ASSUME NameOf[s] = NameOf[down'[i].src], ~Spent(i)'
                PROVE  Ahead(fwd', "cancel", i, "offer", n)
    BY <1>1 DEF After, NamedAs
  <2>1. UNCHANGED down /\ Steady(i) /\ TakesOf(down, i) /\ ~Spent(i)
    BY <1>1, <1>3 DEF Steady, OneMore, Offer, receiver
  <2>2. ~Lively(i)
    <3>1. ASSUME Lively(i) PROVE FALSE
      <4>1. i \in DOMAIN up /\ i \in DOMAIN down
        BY <2>1, <3>1 DEF Lively, With, TakesOf
      <4>2. (i \in DOMAIN up' /\ up'[i].src = up[i].src) \/ i \notin DOMAIN up'
        BY <2>1 DEF Steady
      <4>3. NameOf[up[i].src] = NameOf[s]
        <5>1. i \in DOMAIN tbl
          BY <3>1, <4>1 DEF OneMore
        <5>2. PICK w : up' = Put(tbl, n, w)
          BY DEF OneMore, Offer
        <5>3. i \in DOMAIN up'
          BY <5>1, <5>2 DEF Put
        <5>4. PICK f : Agreed(f)'
          BY DEF Agree
        <5>5. up'[i].src = down'[i].src
          BY <2>1, <4>1, <5>3, <5>4 DEF Agreed
        <5>. QED  BY <4>2, <5>3, <5>5
      <4>. QED  BY <3>1, <4>3 DEF Sending, Lively
    <3>. QED  BY <3>1
  <2>3. Has(fwd, "cancel", i)
    BY <2>1, <2>2 DEF Orders, Order, Taken1
  <2>. PICK m : m = [t |-> "offer", id |-> next, src |-> s]
    OBVIOUS
  <2>4. fwd' \in Overtaking(fwd, <<m>>) /\ m.t = "offer" /\ m.id = n /\ IsSeq(fwd)
    BY DEF OneMore, Offer, Tell, Inv, Shape, Sent
  <2>. QED  BY <2>3, <2>4, OvertakesBulk
<1>. SUFFICES ASSUME NEW i \in Ids, NEW j \in Ids PROVE Pair(i, j)'
  BY DEF Pairs
<1>4. CASE i = n
  BY <1>2, <1>4 DEF Pair
<1>5. CASE i # n /\ j = n
  BY <1>2, <1>3, <1>5 DEF Pair, Beside
<1>6. CASE i # n /\ j # n
  BY <1>1, <1>6, PairStays DEF Pairs
<1>. QED  BY <1>4, <1>5, <1>6

Alone == Careful => LivelyOnce /\ Pairs

LEMMA NewAlone == New => Alone
<1>. SUFFICES ASSUME New PROVE LivelyOnce /\ Pairs
  BY DEF Alone
<1>1. DOMAIN up = {} /\ DOMAIN down = {} /\ Len(back) = 0
  BY EmptyOf DEF New
<1>. QED  BY <1>1 DEF LivelyOnce, Pairs, Pair, TakesOf, Lively, With

LEMMA AloneNext ==
    ASSUME Inv, Inv', Orders, Agree', Alone, [Next]_vars
    PROVE  Alone'
<1>. SUFFICES ASSUME Careful PROVE LivelyOnce' /\ Pairs'
  BY DEF Alone
<1>1. LivelyOnce /\ Pairs /\ mode' = mode
  BY ModeStays DEF Alone
<1>2. CASE Ordinary
  <2>1. Even
    BY <1>2, OrdinaryEven
  <2>2. LivelyOnce'
    BY <1>1, <1>2, <2>1, LivelyOnceOrdinary
  <2>3. Pairs'
    BY <1>1, <2>1, PairStays DEF Pairs, Even
  <2>. QED  BY <2>2, <2>3
<1>3. CASE Reconnect
  <2>1. New'
    BY <1>3 DEF New, Reconnect
  <2>2. Alone'
    BY <2>1, NewAlone, PTL
  <2>. QED  BY <2>2 DEF Alone
<1>4. ASSUME NEW s \in Sources, NEW tbl, OneMore(s, tbl)
      PROVE  LivelyOnce' /\ Pairs'
  <2>1. LivelyOnce' /\ ~Sending(NameOf[s])
    BY <1>1, <1>4, LivelyOnceOneMore
  <2>2. Pairs'
    BY <1>1, <1>4, <2>1, PairsOneMore
  <2>. QED  BY <2>1, <2>2
<1>. QED  BY <1>2, <1>3, <1>4, EveryStep

-----------------------------------------------------------------------------
(* The download directory *)

\* A file is never a .part file as well, and no two names share what they hold.
Labelled ==
    /\ DOMAIN targets = Paths /\ \A p \in Paths : targets[p] \in Inodes \cup {0}
    /\ \A p, q \in Paths : /\ parts[p] # 0 /\ parts[p] = parts[q] => p = q
                           /\ targets[p] # 0 /\ targets[p] = targets[q] => p = q
                           /\ parts[p] # 0 => parts[p] # targets[q]
    /\ \A p \in Paths : parts[p] # 0 => targets[p] = 0

\* An open file was opened under its own name, and has no other.
OwnName(i) == Open(i) =>
    /\ down[i].file.node \in Inodes /\ down[i].file.path \in Paths
    /\ down[i].file.path[1] = NamedAs(i)
    /\ \A q \in Paths : parts[q] = down[i].file.node => q[1] = NamedAs(i)

\* When another transfer finished the file of this one, no chunk comes any more.
LeftAlone(i) == TakesOf(down, i) =>
    \A p \in Paths : targets[p] = down[i].file.node => Spent(i) /\ ~Has(fwd, "chunk", i)

WholeTargets == \A p \in Paths : targets[p] # 0 =>
    \E s \in Sources : NameOf[s] = p[1] /\ \E v \in 0..MaxTrouble : inodes[targets[p]] = Whole(s, v)

\* Of the started transfers of a session each took one name at most.
Begun == {i \in DOMAIN down : ~down[i].queued}
NamesTaken == {p \in Paths : parts[p] # 0 \/ targets[p] # 0}
Enough == IsFiniteSet(NamesTaken) /\ Cardinality(NamesTaken) <= used * MaxOffers + Cardinality(Begun)

Versions == /\ used \in 0..MaxTrouble /\ DOMAIN version = Sources
            /\ \A s \in Sources : version[s] \in 0..used

\* A hash is that of the source at one moment.
HashOf(m) == \E v \in 0..MaxTrouble : m.hash = Whole(down[m.id].src, v)
Hashed == \A k \in 1..Len(fwd) : fwd[k].t = "done" /\ fwd[k].id \in DOMAIN down => HashOf(fwd[k])

Present(s) == \E p \in Paths : /\ p[1] = NameOf[s] /\ targets[p] # 0
                               /\ Len(inodes[targets[p]]) = SizeOf[s]
Delivered ==
    /\ \A i \in DOMAIN up : up[i].status = "Completed" => Present(up[i].src)
    /\ \A k \in 1..Len(back) : back[k].t = "verified" /\ back[k].ok /\ back[k].id \in DOMAIN up =>
          Present(up[back[k].id].src)

LEMMA NotInode == 0 \notin Inodes
BY DEF Inodes

LEMMA NatLess == IsWellFoundedOn({ss \in Nat \X Nat : ss[1] < ss[2]}, Nat)
BY NatLessThanWellFounded DEF OpToRel

LEMMA MinOf ==
    ASSUME NEW S, S \subseteq Nat, S # {}
    PROVE  Min(S) \in S
<1>. PICK R : R = {ss \in Nat \X Nat : ss[1] < ss[2]}
  OBVIOUS
<1>1. PICK x \in S : \A y \in S : <<y, x>> \notin R
  BY NatLess, WFMin
<1>2. ASSUME NEW y \in S PROVE x <= y
  <2>1. y \in Nat /\ x \in Nat /\ <<y, x>> \notin R
    BY <1>1
  <2>2. ~(y < x)
    <3>1. \A a, b \in Nat : a < b => <<a, b>> \in R
      OBVIOUS
    <3>. QED  BY <2>1, <3>1
  <2>3. \A a, b \in Nat : a <= b \/ b < a
    OBVIOUS
  <2>. QED  BY <2>1, <2>2, <2>3
<1>. QED  BY <1>2 DEF Min

-----------------------------------------------------------------------------
(* What a step does to the rows of the receiver and to its directory *)

SameFile(i) == down'[i].file.node = down[i].file.node /\ down'[i].file.path = down[i].file.path
RowsRest ==
    /\ \A i \in DOMAIN down : /\ i \in DOMAIN down' /\ down'[i].src = down[i].src
                              /\ down'[i].queued = down[i].queued
                              /\ down'[i].file # None => down[i].file # None /\ SameFile(i)
    /\ \A i \in DOMAIN down' : i \in DOMAIN down \/ (Fresh(i) /\ down'[i].queued /\ down'[i].file = None)

Rests == UNCHANGED disk /\ RowsRest
\* A file is opened.
Begins == \E id \in Ids, s \in Sources :
    /\ StartIncoming(id, s) /\ Fresh(id)
    /\ id \in DOMAIN down => down[id].queued /\ down[id].src = s
\* A chunk is written.
Writes == LET m == Head(fwd)
          IN /\ fwd # <<>> /\ m.t = "chunk" /\ TakesOf(down, m.id)
             /\ UNCHANGED <<parts, targets>> /\ RowsRest
             /\ \A n \in Inodes \ {down[m.id].file.node} : inodes'[n] = inodes[n]
\* An open file comes to its end.
Finishes == Ends /\ Open(Head(fwd).id)

LEMMA RowsSame == down' = down => RowsRest
BY DEF RowsRest, SameFile

LEMMA RowsSet ==
    ASSUME Inv, NEW id, NEW st, down' = [down EXCEPT ![id].status = st]
    PROVE  RowsRest
<1>1. \A i \in DOMAIN down : RowOk(down[i])
  BY DEF Inv, Shape, Rows
<1>2. /\ DOMAIN down' = DOMAIN down
      /\ \A i \in DOMAIN down : /\ down'[i].src = down[i].src /\ down'[i].queued = down[i].queued
                                /\ down'[i].file = down[i].file
  BY <1>1 DEF RowOk
<1>. QED  BY <1>2 DEF RowsRest, SameFile

LEMMA RowsClose ==
    ASSUME Inv, NEW id, NEW st, EndsAs(id, st)
    PROVE  RowsRest
<1>1. \A i \in DOMAIN down : RowOk(down[i])
  BY DEF Inv, Shape, Rows
<1>2. /\ DOMAIN down' = DOMAIN down
      /\ \A i \in DOMAIN down : /\ down'[i].src = down[i].src /\ down'[i].queued = down[i].queued
                                /\ down'[i].file = down[i].file \/ down'[i].file = None
  BY <1>1 DEF RowOk, EndsAs
<1>. QED  BY <1>2 DEF RowsRest, SameFile

LEMMA RowsCancel ==
    ASSUME Inv, NEW ids, CancelDown(ids)
    PROVE  RowsRest
<1>1. \A i \in DOMAIN down : RowOk(down[i])
  BY DEF Inv, Shape, Rows
<1>2. /\ DOMAIN down' = DOMAIN down
      /\ \A i \in DOMAIN down : /\ down'[i].src = down[i].src /\ down'[i].queued = down[i].queued
                                /\ down'[i].file = down[i].file \/ down'[i].file = None
  BY <1>1 DEF RowOk, CancelDown
<1>. QED  BY <1>2 DEF RowsRest, SameFile

LEMMA RowsFail ==
    ASSUME Inv, NEW id, StartFails(id)
    PROVE  Rests
<1>1. RowsRest
  <2>1. CASE id \in DOMAIN down
    <3>1. EndsAs(id, "Failed")
      BY <2>1 DEF StartFails, EndsAs
    <3>. QED  BY <3>1, RowsClose
  <2>2. CASE id \notin DOMAIN down
    BY <2>2, RowsSame DEF StartFails
  <2>. QED  BY <2>1, <2>2
<1>. QED  BY <1>1 DEF StartFails, Rests

LEMMA RowsAccept ==
    ASSUME Inv, NEW id \in Ids, NEW s \in Sources, Fresh(id), id \notin DOMAIN down, AcceptIncoming(id, s)
    PROVE  Rests \/ Begins
<1>1. CASE StartIncoming(id, s)
  BY <1>1 DEF Begins
<1>2. CASE StartFails(id)
  BY <1>2, RowsFail
<1>3. CASE /\ down' = Put(down, id, [src |-> s, status |-> "Pending", queued |-> TRUE,
                                     cancelled |-> FALSE, file |-> None])
           /\ UNCHANGED <<back, disk, used>>
  <2>. PICK w : w = [src |-> s, status |-> "Pending", queued |-> TRUE, cancelled |-> FALSE, file |-> None]
    OBVIOUS
  <2>1. down' = Put(down, id, w) /\ w.queued /\ w.file = None
    BY <1>3
  <2>2. /\ DOMAIN down' = DOMAIN down \cup {id} /\ down'[id] = w
        /\ \A x \in DOMAIN down : down'[x] = down[x]
    BY <2>1 DEF Put
  <2>. QED  BY <1>3, <2>1, <2>2 DEF Rests, RowsRest, SameFile
<1>. QED  BY <1>1, <1>2, <1>3 DEF AcceptIncoming

LEMMA OnFwdDisk ==
    ASSUME Inv, OnFwd
    PROVE  Rests \/ Begins \/ Writes \/ Finishes
<1>. PICK m : m = Head(fwd)
  OBVIOUS
<1>1. /\ Shape /\ Numbers /\ fwd # <<>> /\ Stored
      /\ Sound(m) /\ Has(fwd, m.t, m.id)
  <2>1. Sent(fwd, "offer") /\ fwd # <<>> /\ fwd' = Tail(fwd)
    BY DEF Inv, Shape, OnFwd
  <2>. QED  BY <2>1, FwdTail DEF Inv
<1>2. CASE SetAllowedDown(m.on, <<>>) /\ UNCHANGED disk
  <2>1. PICK ids : CancelDown(ids)
    BY <1>2 DEF SetAllowedDown
  <2>. QED  BY <1>2, <2>1, RowsCancel DEF Rests
<1>3. CASE UNCHANGED <<down, disk>>
  BY <1>3, RowsSame DEF Rests
<1>4. CASE m.t = "offer" /\ OnOffer(m)
  <2>1. CASE UNCHANGED <<down, disk>>
    BY <2>1, RowsSame DEF Rests
  <2>2. CASE AcceptIncoming(m.id, m.src)
    <3>1. m.id \in Ids /\ m.src \in Sources /\ m.id \notin DOMAIN down /\ Fresh(m.id)
      BY <1>1, <1>4 DEF Sound, Numbers, Fresh
    <3>. QED  BY <2>2, <3>1, RowsAccept
  <2>. QED  BY <1>4, <2>1, <2>2 DEF OnOffer
<1>5. CASE m.t = "chunk" /\ OnChunk(m) /\ UNCHANGED <<parts, targets>>
  <2>1. CASE ~Takes(m.id)
    BY <1>3, <1>5, <2>1 DEF OnChunk, disk
  <2>2. CASE FailChunk(m.id)
    <3>1. EndsAs(m.id, "Failed")
      BY <2>2 DEF FailChunk, EndsAs
    <3>. QED  BY <1>5, <2>2, <3>1, RowsClose DEF Rests, disk, FailChunk
  <2>3. CASE /\ Takes(m.id) /\ inodes' = [inodes EXCEPT ![down[m.id].file.node] = Written(@, m.at, m.data)]
             /\ down' = [down EXCEPT ![m.id].file.received = @ + 1]
    <3>1. TakesOf(down, m.id)
      BY <2>3 DEF Takes, TakesOf
    <3>2. RowsRest
      <4>1. \A i \in DOMAIN down : RowOk(down[i])
        BY DEF Inv, Shape, Rows
      <4>2. /\ DOMAIN down' = DOMAIN down
            /\ \A i \in DOMAIN down : down'[i].src = down[i].src /\ down'[i].queued = down[i].queued
        BY <2>3, <4>1 DEF RowOk
      <4>3. ASSUME NEW i \in DOMAIN down, down'[i].file # None
            PROVE  down[i].file # None /\ SameFile(i)
        <5>1. CASE i = m.id
          <6>1. down[i].file # None /\ DOMAIN down[i].file = {"node", "path", "received"} /\ "file" \in DOMAIN down[i]
            BY <3>1, <4>1, <5>1 DEF TakesOf, RowOk
          <6>2. down'[i].file = [down[i].file EXCEPT !.received = @ + 1]
            BY <2>3, <5>1, <6>1
          <6>. QED  BY <6>1, <6>2 DEF SameFile
        <5>2. CASE i # m.id
          BY <2>3, <4>3, <5>2 DEF SameFile
        <5>. QED  BY <5>1, <5>2
      <4>. QED  BY <4>2, <4>3 DEF RowsRest
    <3>3. \A n \in Inodes \ {down[m.id].file.node} : inodes'[n] = inodes[n]
      BY <1>1, <2>3 DEF Stored
    <3>. QED  BY <1>1, <1>5, <3>1, <3>2, <3>3 DEF Writes
  <2>. QED  BY <1>5, <2>1, <2>2, <2>3 DEF OnChunk
<1>6. CASE m.t = "done" /\ mayDown /\ OnDone(m) /\ UNCHANGED inodes
  <2>1. CASE Open(m.id)
    BY <1>6, <2>1 DEF Finishes, Ends
  <2>2. CASE ~Open(m.id)
    BY <1>3, <1>6, <2>2 DEF OnDone, Open, disk
  <2>. QED  BY <2>1, <2>2
<1>7. CASE CancelDown({m.id}) /\ UNCHANGED disk
  BY <1>7, RowsCancel DEF Rests
<1>. QED  BY <1>2, <1>3, <1>4, <1>5, <1>6, <1>7 DEF OnFwd

LEMMA DiskSteps ==
    ASSUME Inv, [Next]_vars
    PROVE  Rests \/ Begins \/ Writes \/ Finishes \/ Reconnect
<1>1. CASE UNCHANGED <<down, disk>>
  BY <1>1, RowsSame DEF Rests
<1>2. ASSUME NEW s \in Sources, SendPaths(s) \/ Download(s) \/ EditSource(s)
      PROVE  UNCHANGED <<down, disk>>
  BY <1>2 DEF SendPaths, Offer, Download, EditSource, receiver
<1>3. ASSUME NEW id \in Ids, StreamRead(id) \/ StreamResume(id) \/ StreamFails(id) \/ StreamSend(id) \/ Retry(id)
      PROVE  UNCHANGED <<down, disk>>
  BY <1>3 DEF StreamRead, StreamResume, StreamFails, StreamSend, Retry, Offer, receiver
<1>4. CASE OnBack
  BY <1>1, <1>4 DEF OnBack, Offer, receiver
<1>5. CASE WindowCloses \/ UNCHANGED vars
  BY <1>1, <1>5 DEF WindowCloses, vars, disk
<1>6. ASSUME NEW id \in Ids, NEW accept, Respond(id, accept)
      PROVE  Rests \/ Begins
  <2>1. id \in DOMAIN approvals
    BY <1>6 DEF Respond
  <2>2. approvals[id] \in Sources /\ id \notin DOMAIN down /\ Fresh(id)
    BY <2>1 DEF Inv, Shape, Asked, Numbers, Fresh
  <2>3. CASE AcceptIncoming(id, approvals[id])
    BY <2>2, <2>3, RowsAccept
  <2>4. CASE UNCHANGED <<down, disk, used>>
    BY <2>4, RowsSame DEF Rests
  <2>. QED  BY <1>6, <2>3, <2>4 DEF Respond
<1>7. CASE StartQueued
  <2>1. ASSUME NEW id \in DOMAIN down, down[id].queued, StartIncoming(id, down[id].src)
        PROVE  Begins
    <3>1. id \in Ids /\ down[id].src \in Sources /\ Fresh(id)
      BY <2>1 DEF Inv, Shape, Rows, RowOk, Fresh
    <3>. QED  BY <2>1, <3>1 DEF Begins
  <2>2. ASSUME NEW id, StartFails(id) PROVE Rests
    BY <2>2, RowsFail
  <2>. QED  BY <1>1, <1>7, <2>1, <2>2 DEF StartQueued
<1>8. ASSUME NEW id \in Ids, Viewer(id) PROVE Rests
  <2>1. UNCHANGED disk
    BY <1>8 DEF Viewer
  <2>2. RowsRest
    <3>1. CASE ViewerPauses(id)
      BY <3>1, RowsSame, RowsSet DEF ViewerPauses
    <3>2. CASE ViewerResumes(id)
      BY <3>2, RowsSame, RowsSet DEF ViewerResumes
    <3>3. CASE ViewerCancels(id)
      BY <3>3, RowsSame, RowsCancel DEF ViewerCancels
    <3>. QED  BY <1>8, <3>1, <3>2, <3>3 DEF Viewer
  <2>. QED  BY <2>1, <2>2 DEF Rests
<1>9. ASSUME NEW on \in BOOLEAN, SetPermission(on) PROVE Rests
  <2>1. UNCHANGED disk
    BY <1>9 DEF SetPermission
  <2>2. RowsRest
    <3>1. CASE down' = down
      BY <3>1, RowsSame
    <3>2. CASE \E ids : CancelDown(ids)
      BY <3>2, RowsCancel
    <3>. QED  BY <1>9, <3>1, <3>2 DEF SetPermission, SetAllowedDown
  <2>. QED  BY <2>1, <2>2 DEF Rests
<1>. QED  BY <1>1, <1>2, <1>3, <1>4, <1>5, <1>6, <1>7, <1>8, <1>9, OnFwdDisk DEF Next

LEMMA RowSteady ==
    ASSUME Inv, Orders, [Next]_vars, ~Reconnect, NEW i \in Ids, i \in DOMAIN down
    PROVE  Steady(i)
<1>1. ASSUME NEW s \in Sources, NEW tbl, OneMore(s, tbl) PROVE Steady(i)
  <2>1. i # next
    <3>1. i < next /\ next \in Nat /\ i \in Nat
      BY DEF Inv, Shape, Numbers, Ids
    <3>. QED  BY <3>1
  <2>. QED  BY <1>1, <2>1, OfferEven DEF OneMore
<1>. QED  BY <1>1, EveryStep, OrdinaryEven DEF Even

-----------------------------------------------------------------------------
(* What is in the directory stays there *)

Disk == Labelled /\ WholeTargets /\ \A i \in Ids : OwnName(i) /\ LeftAlone(i)
\* No file is replaced or changed.
Spared == \A p \in Paths : targets[p] # 0 => targets'[p] = targets[p] /\ inodes'[targets[p]] = inodes[targets[p]]

LEMMA OpenStarted ==
    ASSUME Inv, Orders, NEW i \in Ids, Open(i)
    PROVE  ~Fresh(i) /\ i \in DOMAIN down /\ ~down[i].queued
<1>1. i \in DOMAIN down /\ ~down[i].queued
  BY DEF Orders, Order, Taken1, Open
<1>2. i < next /\ ~Has(fwd, "offer", i) /\ i \notin DOMAIN approvals /\ next \in Nat /\ i \in Nat
  BY <1>1 DEF Inv, Shape, Numbers, Ids
<1>. QED  BY <1>1, <1>2 DEF Fresh

\* A file that was open and still takes chunks.
LEMMA StillTakes ==
    ASSUME Inv, Orders, [Next]_vars, ~Reconnect, NEW i \in Ids, Open(i), TakesOf(down', i)
    PROVE  /\ TakesOf(down, i)
           /\ Spent(i) /\ ~Has(fwd, "chunk", i) => Spent(i)' /\ ~Has(fwd', "chunk", i)
<1>1. i \in DOMAIN down /\ ~Fresh(i)
  BY OpenStarted DEF Open
<1>. QED  BY <1>1, RowSteady DEF Steady

LEMMA NamedStays ==
    ASSUME RowsRest, NEW i \in Ids, Open(i)'
    PROVE  Open(i) /\ SameFile(i) /\ NamedAs(i)' = NamedAs(i)
<1>1. i \in DOMAIN down' /\ down'[i].file # None
  BY DEF Open
<1>2. i \in DOMAIN down
  BY <1>1 DEF RowsRest
<1>. QED  BY <1>1, <1>2 DEF RowsRest, Open, NamedAs

LEMMA OwnNamesStay ==
    ASSUME RowsRest, NEW i \in Ids, OwnName(i), \A p \in Paths : parts'[p] \in {0, parts[p]}
    PROVE  OwnName(i)'
<1>. SUFFICES ASSUME Open(i)' PROVE OwnName(i)'
  BY DEF OwnName
<1>1. OwnName(i) /\ Open(i) /\ SameFile(i) /\ NamedAs(i)' = NamedAs(i)
  BY NamedStays
<1>. QED  BY <1>1, NotInode DEF OwnName, SameFile

\* A step that gives no name.
LEMMA NamesStay ==
    ASSUME Inv, Orders, [Next]_vars, ~Reconnect, Disk, RowsRest, targets' = targets,
           \A p \in Paths : parts'[p] \in {0, parts[p]}, Spared
    PROVE  Disk'
<1>1. Labelled'
  BY DEF Disk, Labelled
<1>2. WholeTargets'
  BY DEF Disk, WholeTargets, Spared
<1>3. ASSUME NEW i \in Ids PROVE OwnName(i)' /\ LeftAlone(i)'
  <2>1. OwnName(i)'
    BY OwnNamesStay DEF Disk
  <2>2. LeftAlone(i)'
    <3>. SUFFICES ASSUME TakesOf(down', i) PROVE LeftAlone(i)'
      BY DEF LeftAlone
    <3>1. Open(i) /\ SameFile(i)
      BY NamedStays DEF Open, TakesOf
    <3>2. LeftAlone(i)
      BY DEF Disk
    <3>. QED  BY <3>1, <3>2, StillTakes DEF LeftAlone, SameFile
  <2>. QED  BY <2>1, <2>2
<1>. QED  BY <1>1, <1>2, <1>3 DEF Disk

LEMMA RestsDisk ==
    ASSUME Inv, Orders, [Next]_vars, ~Reconnect, Disk, Rests
    PROVE  Disk' /\ Spared
<1>1. Spared /\ UNCHANGED <<parts, targets>>
  BY DEF Rests, disk, Spared
<1>. QED  BY <1>1, NamesStay DEF Rests

LEMMA WritesDisk ==
    ASSUME Inv, Orders, [Next]_vars, ~Reconnect, Disk, Writes
    PROVE  Disk' /\ Spared
<1>. PICK m : m = Head(fwd)
  OBVIOUS
<1>1. /\ fwd # <<>> /\ m.t = "chunk" /\ TakesOf(down, m.id)
      /\ UNCHANGED <<parts, targets>> /\ RowsRest
      /\ \A n \in Inodes \ {down[m.id].file.node} : inodes'[n] = inodes[n]
  BY DEF Writes
<1>2. Has(fwd, "chunk", m.id) /\ m.id \in Ids
  BY <1>1, HeadHas, TailOf DEF Inv, Shape, Sent, TakesOf, Rows, Has
<1>3. \A p \in Paths : targets[p] # down[m.id].file.node
  BY <1>1, <1>2 DEF Disk, LeftAlone
<1>4. Spared
  BY <1>1, <1>3 DEF Disk, Labelled, Spared
<1>. QED  BY <1>1, <1>4, NamesStay

\* A file gets its name, and is complete when the sender is told so; or its .part file goes.
Published(j, p, n) ==
    /\ targets' = [targets EXCEPT ![p] = n] /\ parts' = [parts EXCEPT ![p] = 0]
    /\ p = down[j].file.path /\ n = parts[p] /\ n # 0 /\ inodes[n] = Head(fwd).hash

LEMMA HowItEnds ==
    ASSUME Inv, Finishes
    PROVE  \E ok \in BOOLEAN : /\ Reply(<<[t |-> "verified", id |-> Head(fwd).id, ok |-> ok]>>)
                               /\ IF ok THEN \E p, n : Published(Head(fwd).id, p, n)
                                  ELSE targets' = targets /\ \/ parts' = parts
                                                             \/ \E p : parts' = [parts EXCEPT ![p] = 0]
<1>. PICK m : m = Head(fwd)
  OBVIOUS
<1>. PICK f : f = down[m.id].file
  OBVIOUS
<1>. DEFINE ok == Finish(f, SizeOf[down[m.id].src], m.hash)
<1>1. /\ Reply(<<[t |-> "verified", id |-> m.id, ok |-> ok]>>)
      /\ targets' = IF ok THEN [targets EXCEPT ![f.path] = parts[f.path]] ELSE targets
      /\ parts' = IF ok \/ f.received = SizeOf[down[m.id].src]
                  THEN [parts EXCEPT ![f.path] = 0] ELSE parts
  BY DEF Finishes, Ends, OnDone, Open
<1>2. ok \in BOOLEAN
  BY DEF Finish
<1>3. CASE ok
  <2>1. parts[f.path] # 0 /\ inodes[parts[f.path]] = m.hash
    BY <1>3 DEF Finish
  <2>2. Published(m.id, f.path, parts[f.path])
    BY <1>1, <1>3, <2>1 DEF Published
  <2>. QED  BY <1>1, <1>2, <1>3, <2>2, Zenon
<1>4. CASE ~ok
  <2>. HIDE DEF ok
  <2>1. targets' = targets /\ (parts' = parts \/ \E p : parts' = [parts EXCEPT ![p] = 0])
    BY <1>1, <1>4
  <2>. QED  BY <1>1, <1>2, <1>4, <2>1, Zenon
<1>. QED  BY <1>3, <1>4

LEMMA FinishesRows ==
    ASSUME Inv, Finishes, NEW j, j = Head(fwd).id
    PROVE  RowsRest /\ ~Open(j)' /\ inodes' = inodes /\ Open(j) /\ j \in Ids
<1>. PICK m : m = Head(fwd)
  OBVIOUS
<1>1. /\ OnFwd /\ m.t = "done" /\ Open(j) /\ m.id = j
      /\ \E st : down' = [down EXCEPT ![j].file = None, ![j].status = st]
  BY DEF Finishes, Ends, OnDone, Open
<1>2. inodes' = inodes
  BY <1>1 DEF OnFwd, disk
<1>3. \A i \in DOMAIN down : RowOk(down[i])
  BY DEF Inv, Shape, Rows
<1>4. /\ DOMAIN down' = DOMAIN down /\ j \in DOMAIN down /\ down'[j].file = None
      /\ \A i \in DOMAIN down : /\ down'[i].src = down[i].src /\ down'[i].queued = down[i].queued
                                /\ down'[i].file = down[i].file \/ down'[i].file = None
  BY <1>1, <1>3 DEF RowOk, Open
<1>5. RowsRest
  BY <1>4 DEF RowsRest, SameFile
<1>6. ~Open(j)' /\ j \in Ids
  BY <1>4 DEF Open, Inv, Shape, Rows
<1>. QED  BY <1>1, <1>2, <1>5, <1>6

\* The transfers that share the file of one that ends are at their end as well.
LEMMA OthersDone ==
    ASSUME Careful, Inv, Orders, Alone, Disk, Finishes, NEW i \in Ids, TakesOf(down, i), i # Head(fwd).id,
           parts[down[Head(fwd).id].file.path] = down[i].file.node
    PROVE  Spent(i) /\ ~Has(fwd, "chunk", i)
<1>. PICK j : j = Head(fwd).id
  OBVIOUS
<1>1. j \in Ids /\ Open(j) /\ Has(fwd, "done", j) /\ fwd # <<>> /\ IsSeq(fwd) /\ Head(fwd).t = "done"
  BY HeadHas DEF Finishes, Ends, OnFwd, Open, Inv, Shape, Rows, Sent, Has
<1>2. TakesOf(down, j)
  <2>1. ~Halted(j)
    BY <1>1 DEF Orders, Order, Taken1, Still
  <2>. QED  BY <1>1, <2>1 DEF Halted, Open, TakesOf
<1>3. NamedAs(i) = NamedAs(j)
  <2>1. OwnName(i) /\ Open(i) /\ OwnName(j)
    BY <1>1 DEF Disk, TakesOf, Open
  <2>. QED  BY <1>1, <2>1 DEF OwnName
<1>4. (Spent(i) \/ Spent(j)) /\ ~Ahead(fwd, "done", j, "chunk", i)
  BY <1>1, <1>2, <1>3 DEF Alone, Pairs, Pair, Beside
<1>5. Spent(i)
  BY <1>1, <1>4 DEF Spent
<1>6. ~Has(fwd, "chunk", i)
  <2>. SUFFICES ASSUME NEW k \in 1..Len(fwd), fwd[k].t = "chunk", fwd[k].id = i PROVE FALSE
    BY DEF Has
  <2>1. fwd[1] = Head(fwd) /\ 1 \in 1..Len(fwd) /\ Len(fwd) \in Nat
    BY <1>1, TailOf
  <2>2. 1 < k
    <3>1. k # 1
      BY <1>1, <2>1
    <3>. QED  BY <2>1, <3>1
  <2>3. Ahead(fwd, "done", j, "chunk", i)
    BY <1>1, <2>1, <2>2 DEF Ahead
  <2>. QED  BY <1>4, <2>3
<1>. QED  BY <1>5, <1>6

LEMMA PublishedDisk ==
    ASSUME Careful, Inv, Orders, Alone, Hashed, [Next]_vars, ~Reconnect, Disk, Finishes,
           NEW j, j = Head(fwd).id, NEW p, NEW n, Published(j, p, n)
    PROVE  /\ Disk' /\ Spared
           /\ \E s \in Sources : s = down[j].src /\ Present(s)'
<1>1. RowsRest /\ ~Open(j)' /\ inodes' = inodes /\ Open(j) /\ j \in Ids
  BY FinishesRows
<1>2. /\ targets' = [targets EXCEPT ![p] = n] /\ parts' = [parts EXCEPT ![p] = 0]
      /\ p = down[j].file.path /\ n = parts[p] /\ n # 0 /\ inodes[n] = Head(fwd).hash
  BY DEF Published
<1>3. /\ p \in Paths /\ p[1] = NamedAs(j) /\ n \in Inodes /\ targets[p] = 0
      /\ DOMAIN parts = Paths /\ DOMAIN targets = Paths
  <2>1. OwnName(j) /\ Labelled
    BY <1>1 DEF Disk
  <2>. QED  BY <1>1, <1>2, <2>1, Zenon DEF OwnName, Labelled, Inv, Stored
<1>4. /\ targets'[p] = n /\ \A q \in Paths : q # p => targets'[q] = targets[q]
      /\ parts'[p] = 0 /\ \A q \in Paths : q # p => parts'[q] = parts[q]
      /\ DOMAIN targets' = Paths
  BY <1>2, <1>3, Zenon
<1>5. PICK s \in Sources : s = down[j].src
  BY <1>1 DEF Open, Inv, Shape, Rows, RowOk
<1>6. \E v \in 0..MaxTrouble : inodes[n] = Whole(s, v)
  <2>1. Head(fwd).t = "done" /\ fwd # <<>> /\ IsSeq(fwd)
    BY DEF Finishes, Ends, OnFwd, Inv, Shape, Sent
  <2>2. Head(fwd) = fwd[1] /\ 1 \in 1..Len(fwd)
    BY <2>1, TailOf
  <2>3. HashOf(fwd[1])
    BY <1>1, <2>1, <2>2 DEF Hashed, Open
  <2>. QED  BY <1>2, <1>5, <2>2, <2>3, Zenon DEF HashOf
<1>7. Spared
  BY <1>1, <1>3, <1>4 DEF Spared
<1>8. Labelled'
  <2>. USE <1>3, <1>4
  <2>1. Labelled
    BY DEF Disk
  <2>2. \A q \in Paths : targets'[q] \in Inodes \cup {0}
    BY <2>1 DEF Labelled
  <2>3. ASSUME NEW q \in Paths, NEW r \in Paths
        PROVE  /\ parts'[q] # 0 /\ parts'[q] = parts'[r] => q = r
               /\ targets'[q] # 0 /\ targets'[q] = targets'[r] => q = r
               /\ parts'[q] # 0 => parts'[q] # targets'[r]
               /\ parts'[q] # 0 => targets'[q] = 0
    <3>1. ASSUME NEW x \in Paths, x # p PROVE parts[x] # n /\ targets[x] # n
      <4>1. parts[p] # 0 /\ n = parts[p]
        BY <1>2, Zenon
      <4>2. parts[p] = parts[x] => p = x
        BY <2>1, <4>1 DEF Labelled
      <4>3. parts[p] # targets[x]
        BY <2>1, <4>1 DEF Labelled
      <4>. QED  BY <3>1, <4>1, <4>2, <4>3
    <3>2. parts'[q] # 0 /\ parts'[q] = parts'[r] => q = r
      BY <2>1 DEF Labelled
    <3>3. targets'[q] # 0 /\ targets'[q] = targets'[r] => q = r
      BY <2>1, <3>1 DEF Labelled
    <3>4. parts'[q] # 0 => parts'[q] # targets'[r]
      BY <2>1, <3>1 DEF Labelled
    <3>5. parts'[q] # 0 => targets'[q] = 0
      BY <2>1 DEF Labelled
    <3>. QED  BY <3>2, <3>3, <3>4, <3>5
  <2>. QED  BY <2>2, <2>3 DEF Labelled
<1>9. WholeTargets'
  <2>. SUFFICES ASSUME NEW q \in Paths, targets'[q] # 0
                PROVE  \E x \in Sources : NameOf[x] = q[1] /\ \E v \in 0..MaxTrouble : inodes'[targets'[q]] = Whole(x, v)
    BY DEF WholeTargets
  <2>1. CASE q = p
    BY <1>1, <1>3, <1>4, <1>5, <1>6, <2>1 DEF NamedAs
  <2>2. CASE q # p
    BY <1>1, <1>4, <2>2 DEF Disk, WholeTargets
  <2>. QED  BY <2>1, <2>2
<1>10. ASSUME NEW i \in Ids PROVE OwnName(i)' /\ LeftAlone(i)'
  <2>1. \A q \in Paths : parts'[q] \in {0, parts[q]}
    BY <1>4
  <2>2. OwnName(i)'
    BY <1>1, <2>1, OwnNamesStay DEF Disk
  <2>3. LeftAlone(i)'
    <3>. SUFFICES ASSUME TakesOf(down', i), NEW q \in Paths, targets'[q] = down'[i].file.node
                  PROVE  Spent(i)' /\ ~Has(fwd', "chunk", i)
      BY DEF LeftAlone
    <3>1. Open(i) /\ SameFile(i) /\ i # j
      BY <1>1, NamedStays DEF Open, TakesOf
    <3>2. TakesOf(down, i)
      BY <3>1, StillTakes
    <3>3. CASE q = p
      <4>1. parts[down[j].file.path] = down[i].file.node
        BY <1>2, <1>4, <3>1, <3>3, Zenon DEF SameFile
      <4>2. Spent(i) /\ ~Has(fwd, "chunk", i)
        BY <3>1, <3>2, <4>1, OthersDone
      <4>. QED  BY <3>1, <4>2, StillTakes
    <3>4. CASE q # p
      <4>1. targets[q] = down[i].file.node
        BY <1>4, <3>1, <3>4 DEF SameFile
      <4>2. Spent(i) /\ ~Has(fwd, "chunk", i)
        BY <3>2, <4>1 DEF Disk, LeftAlone
      <4>. QED  BY <3>1, <4>2, StillTakes
    <3>. QED  BY <3>3, <3>4
  <2>. QED  BY <2>2, <2>3
<1>11. Present(s)'
  <2>1. PICK v \in 0..MaxTrouble : inodes[n] = Whole(s, v)
    BY <1>6
  <2>2. PICK w : w = Whole(s, v)
    OBVIOUS
  <2>3. Len(w) = SizeOf[s]
    <3>1. SizeOf[s] \in Nat
      BY NamesAssumption
    <3>2. w = [k \in 1..SizeOf[s] |-> <<s, v>>]
      BY <2>2 DEF Whole
    <3>3. w \in Seq({<<s, v>>}) /\ DOMAIN w = 1..SizeOf[s]
      BY <3>1, <3>2, TableIsSeq
    <3>. QED  BY <3>1, <3>3, LenProperties
  <2>4. Len(inodes'[targets'[p]]) = SizeOf[s]
    BY <1>1, <1>4, <2>1, <2>2, <2>3
  <2>. QED  BY <1>2, <1>3, <1>4, <1>5, <2>4, Zenon DEF Present, NamedAs
<1>. QED  BY <1>5, <1>7, <1>8, <1>9, <1>10, <1>11 DEF Disk

LEMMA FinishesDisk ==
    ASSUME Careful, Inv, Orders, Alone, Hashed, [Next]_vars, ~Reconnect, Disk, Finishes, NEW j, j = Head(fwd).id
    PROVE  /\ Disk' /\ Spared
           /\ \E ok \in BOOLEAN : /\ Reply(<<[t |-> "verified", id |-> j, ok |-> ok]>>)
                                  /\ ok => \E s \in Sources : s = down[j].src /\ Present(s)'
<1>1. PICK ok \in BOOLEAN : /\ Reply(<<[t |-> "verified", id |-> j, ok |-> ok]>>)
                            /\ IF ok THEN \E p, n : Published(j, p, n)
                               ELSE targets' = targets /\ \/ parts' = parts
                                                          \/ \E p : parts' = [parts EXCEPT ![p] = 0]
  BY HowItEnds
<1>2. CASE ok
  BY <1>1, <1>2, PublishedDisk
<1>3. CASE ~ok
  <2>1. RowsRest /\ inodes' = inodes
    BY FinishesRows
  <2>2. targets' = targets /\ \A p \in Paths : parts'[p] \in {0, parts[p]}
    BY <1>1, <1>3 DEF Inv, Stored
  <2>3. Spared
    BY <2>1, <2>2 DEF Spared
  <2>. QED  BY <1>1, <1>3, <2>1, <2>2, <2>3, NamesStay
<1>. QED  BY <1>2, <1>3

\* A .part file is taken up again, or a free name is given to an inode nobody uses.
Opened(id, s, path, node) ==
    /\ path \in Paths /\ path[1] = NameOf[s] /\ node \in Inodes
    /\ targets[path] = 0
    /\ parts[path] = node \/ (parts[path] = 0 /\ node \in FreeInodes)
    /\ parts' = [parts EXCEPT ![path] = node] /\ targets' = targets
    /\ \A n \in Inodes \ {node} : inodes'[n] = inodes[n]
    /\ \E w : /\ down' = Put(down, id, w) /\ w.src = s /\ ~w.queued
              /\ w.file.node = node /\ w.file.path = path

LEMMA BegunBound ==
    ASSUME Inv, NEW id \in Ids, id \notin Begun
    PROVE  IsFiniteSet(Begun) /\ Cardinality(Begun) \in Nat /\ Cardinality(Begun) + 1 <= MaxOffers
<1>1. IsFiniteSet(Ids) /\ Cardinality(Ids) = MaxOffers
  <2>1. MaxOffers \in Nat
    BY BoundsAssumption
  <2>. QED  BY <2>1, FS_Interval DEF Ids
<1>2. Begun \cup {id} \subseteq Ids
  BY DEF Begun, Inv, Shape, Rows
<1>3. IsFiniteSet(Begun \cup {id}) /\ Cardinality(Begun \cup {id}) <= MaxOffers
  BY <1>1, <1>2, FS_Subset
<1>4. IsFiniteSet(Begun)
  BY <1>3, FS_Subset
<1>5. Cardinality(Begun \cup {id}) = Cardinality(Begun) + 1
  BY <1>4, FS_AddElement
<1>. QED  BY <1>3, <1>4, <1>5, FS_CardinalityType

\* There is a name left for every transfer that may still begin.
LEMMA NameIsFree ==
    ASSUME Inv, Enough, used \in 0..MaxTrouble, NEW id \in Ids, id \notin Begun, NEW s \in Sources
    PROVE  \E i \in 0..MaxCopies : /\ UniquePath(NameOf[s]) = <<NameOf[s], i>>
                                   /\ targets[<<NameOf[s], i>>] = 0 /\ parts[<<NameOf[s], i>>] = 0
<1>. PICK n : n = NameOf[s]
  OBVIOUS
<1>. DEFINE free == {i \in 0..MaxCopies : targets[<<n, i>>] = 0 /\ parts[<<n, i>>] = 0}
<1>. MaxCopies \in Nat /\ MaxOffers \in Nat /\ MaxTrouble \in Nat
  BY BoundsAssumption
<1>1. free # {}
  <2>. SUFFICES ASSUME free = {} PROVE FALSE
    OBVIOUS
  <2>1. PICK f : f = [i \in 0..MaxCopies |-> <<n, i>>]
    OBVIOUS
  <2>2. \A i \in 0..MaxCopies : f[i] \in NamesTaken
    BY <2>1 DEF NamesTaken, Paths
  <2>3. f \in Injection(0..MaxCopies, NamesTaken)
    BY <2>1, <2>2 DEF Injection, IsInjective
  <2>4. Cardinality(0..MaxCopies) <= Cardinality(NamesTaken)
    BY <2>3, FS_Injection DEF Enough
  <2>5. Cardinality(0..MaxCopies) = MaxCopies + 1
    BY FS_Interval
  <2>6. PICK u \in Nat : u = used * MaxOffers /\ u <= MaxTrouble * MaxOffers
    OBVIOUS
  <2>7. MaxOffers * (MaxTrouble + 1) = MaxTrouble * MaxOffers + MaxOffers
    OBVIOUS
  <2>8. Cardinality(NamesTaken) <= u + Cardinality(Begun) /\ Cardinality(NamesTaken) \in Nat
    BY <2>6, FS_CardinalityType DEF Enough
  <2>9. Cardinality(Begun) \in Nat /\ Cardinality(Begun) + 1 <= MaxOffers
    BY BegunBound
  <2>10. PICK t \in Nat : t = MaxTrouble * MaxOffers
    OBVIOUS
  <2>. QED  BY <2>4, <2>5, <2>6, <2>7, <2>8, <2>9, <2>10, NamesLeft
<1>2. Min(free) \in free
  <2>1. free \subseteq Nat
    OBVIOUS
  <2>. HIDE DEF free
  <2>. QED  BY <1>1, <2>1, MinOf
<1>3. UniquePath(n) = <<n, Min(free)>>
  BY <1>1 DEF UniquePath
<1>. QED  BY <1>2, <1>3

LEMMA HowItBegins ==
    ASSUME Inv, Disk, Enough, used \in 0..MaxTrouble, NEW id \in Ids, id \notin Begun, NEW s \in Sources,
           StartIncoming(id, s)
    PROVE  \E path, node : Opened(id, s, path, node)
<1>. DEFINE plain  == <<NameOf[s], 0>>
            resume == parts[plain] # 0 /\ targets[plain] = 0
            path   == IF resume THEN plain ELSE UniquePath(NameOf[s])
            node   == IF parts[path] # 0 THEN parts[path] ELSE CHOOSE n \in FreeInodes : TRUE
            length == IF resume THEN Len(inodes[node]) ELSE 0
            kept   == IF length <= SizeOf[s] THEN length ELSE 0
<1>1. /\ parts[path] # 0 \/ FreeInodes # {}
      /\ parts' = [parts EXCEPT ![path] = node] /\ targets' = targets
      /\ inodes' = [inodes EXCEPT ![node] = IF kept = 0 THEN <<>> ELSE @]
      /\ down' = Put(down, id,
                    [src |-> s, status |-> "Active", queued |-> FALSE,
                     cancelled |-> id \in DOMAIN down /\ down[id].cancelled,
                     file |-> [node |-> node, path |-> path, received |-> kept]])
  BY DEF StartIncoming
<1>2. plain \in Paths /\ plain[1] = NameOf[s]
  BY BoundsAssumption DEF Paths
<1>3. /\ path \in Paths /\ path[1] = NameOf[s] /\ targets[path] = 0
      /\ parts[path] = 0 => FreeInodes # {}
  <2>1. CASE resume
    BY <1>2, <2>1
  <2>2. CASE ~resume
    <3>1. PICK i \in 0..MaxCopies : /\ UniquePath(NameOf[s]) = <<NameOf[s], i>>
                                    /\ targets[<<NameOf[s], i>>] = 0 /\ parts[<<NameOf[s], i>>] = 0
      BY NameIsFree
    <3>2. path = <<NameOf[s], i>>
      BY <2>2, <3>1
    <3>. HIDE DEF path, resume, plain
    <3>. QED  BY <1>1, <3>1, <3>2 DEF Paths
  <2>. QED  BY <2>1, <2>2
<1>. HIDE DEF path, plain, resume
<1>4. node \in Inodes /\ (parts[path] = node \/ (parts[path] = 0 /\ node \in FreeInodes))
  <2>1. CASE parts[path] # 0
    BY <1>3, <2>1 DEF Inv, Stored
  <2>2. CASE parts[path] = 0
    BY <1>3, <2>2 DEF FreeInodes
  <2>. QED  BY <2>1, <2>2
<1>. HIDE DEF node, length, kept
<1>5. \A n \in Inodes \ {node} : inodes'[n] = inodes[n]
  BY <1>1 DEF Inv, Stored
<1>. PICK w : w = [src |-> s, status |-> "Active", queued |-> FALSE,
                   cancelled |-> id \in DOMAIN down /\ down[id].cancelled,
                   file |-> [node |-> node, path |-> path, received |-> kept]]
  OBVIOUS
<1>6. /\ down' = Put(down, id, w) /\ w.src = s /\ ~w.queued
      /\ w.file.node = node /\ w.file.path = path
  BY <1>1
<1>7. Opened(id, s, path, node)
  BY <1>1, <1>3, <1>4, <1>5, <1>6 DEF Opened
<1>. QED  BY <1>7

LEMMA OpenedDisk ==
    ASSUME Inv, Orders, [Next]_vars, ~Reconnect, Disk, NEW id \in Ids, NEW s \in Sources, Fresh(id),
           NEW path, NEW node, Opened(id, s, path, node)
    PROVE  /\ Disk' /\ Spared
           /\ NamesTaken' \subseteq NamesTaken \cup {path}
           /\ Begun' = Begun \cup {id}
<1>. PICK w : /\ down' = Put(down, id, w) /\ w.src = s /\ ~w.queued
              /\ w.file.node = node /\ w.file.path = path
  BY DEF Opened
<1>1. /\ path \in Paths /\ path[1] = NameOf[s] /\ node \in Inodes /\ targets[path] = 0
      /\ parts[path] = node \/ (parts[path] = 0 /\ node \in FreeInodes)
      /\ parts' = [parts EXCEPT ![path] = node] /\ targets' = targets
      /\ \A n \in Inodes \ {node} : inodes'[n] = inodes[n]
  BY DEF Opened
<1>2. /\ DOMAIN down' = DOMAIN down \cup {id} /\ down'[id] = w
      /\ \A i \in DOMAIN down : i # id => down'[i] = down[i]
  BY DEF Put
<1>3. /\ parts'[path] = node /\ \A q \in Paths : q # path => parts'[q] = parts[q]
      /\ \A q \in Paths : parts[q] \in Inodes \cup {0}
  BY <1>1 DEF Inv, Stored
<1>4. /\ \A q \in Paths : targets[q] # node /\ (q # path => parts[q] # node)
      /\ \A i \in Ids : Open(i) => OwnName(i) /\ (down[i].file.node = node => parts[path] = node)
  <2>1. Labelled /\ node # 0 /\ \A i \in Ids : OwnName(i)
    BY <1>1, NotInode DEF Disk
  <2>2. CASE parts[path] = node
    BY <1>1, <2>1, <2>2 DEF Labelled
  <2>3. CASE parts[path] = 0 /\ node \in FreeInodes
    <3>1. node \notin Named /\ node \notin {f.node : f \in OpenFiles}
      BY <2>3 DEF FreeInodes
    <3>2. ASSUME NEW i \in Ids, Open(i) PROVE down[i].file.node # node
      <4>1. down[i].file \in OpenFiles
        BY <3>2 DEF Open, OpenFiles
      <4>. QED  BY <3>1, <4>1
    <3>. QED  BY <2>1, <3>1, <3>2 DEF Named
  <2>. QED  BY <1>1, <2>2, <2>3
<1>5. Spared
  BY <1>1, <1>4 DEF Spared, Disk, Labelled
<1>6. Labelled'
  <2>1. Labelled
    BY DEF Disk
  <2>2. \A q \in Paths : targets'[q] \in Inodes \cup {0}
    BY <1>1, <2>1 DEF Labelled
  <2>3. ASSUME NEW q \in Paths, NEW r \in Paths
        PROVE  /\ parts'[q] # 0 /\ parts'[q] = parts'[r] => q = r
               /\ targets'[q] # 0 /\ targets'[q] = targets'[r] => q = r
               /\ parts'[q] # 0 => parts'[q] # targets'[r]
               /\ parts'[q] # 0 => targets'[q] = 0
    <3>1. parts'[q] # 0 /\ parts'[q] = parts'[r] => q = r
      BY <1>3, <1>4, <2>1 DEF Labelled
    <3>2. targets'[q] # 0 /\ targets'[q] = targets'[r] => q = r
      BY <1>1, <2>1 DEF Labelled
    <3>3. parts'[q] # 0 => parts'[q] # targets'[r]
      BY <1>1, <1>3, <1>4, <2>1 DEF Labelled
    <3>4. parts'[q] # 0 => targets'[q] = 0
      BY <1>1, <1>3, <2>1 DEF Labelled
    <3>. QED  BY <3>1, <3>2, <3>3, <3>4
  <2>. QED  BY <1>1, <2>1, <2>2, <2>3 DEF Labelled
<1>7. WholeTargets'
  BY <1>1, <1>5 DEF Disk, WholeTargets, Spared
<1>8. ASSUME NEW i \in Ids PROVE OwnName(i)' /\ LeftAlone(i)'
  <2>1. CASE i = id
    <3>1. NamedAs(i)' = NameOf[s] /\ down'[i] = w
      BY <1>2, <2>1 DEF NamedAs
    <3>2. OwnName(i)'
      BY <1>1, <1>3, <1>4, <3>1 DEF OwnName
    <3>3. LeftAlone(i)'
      BY <1>1, <1>4, <3>1 DEF LeftAlone
    <3>. QED  BY <3>2, <3>3
  <2>2. CASE i # id
    <3>1. Open(i)' => Open(i) /\ down'[i] = down[i]
      BY <1>2, <2>2 DEF Open
    <3>2. OwnName(i)'
      <4>. SUFFICES ASSUME Open(i)' PROVE OwnName(i)'
        BY DEF OwnName
      <4>1. OwnName(i) /\ (down[i].file.node = node => parts[path] = node) /\ Open(i) /\ down'[i] = down[i]
        BY <1>4, <3>1
      <4>2. \A q \in Paths : parts'[q] = down[i].file.node => parts[q] = down[i].file.node
        BY <1>3, <4>1
      <4>. QED  BY <4>1, <4>2 DEF OwnName, NamedAs
    <3>3. LeftAlone(i)'
      <4>. SUFFICES ASSUME TakesOf(down', i) PROVE LeftAlone(i)'
        BY DEF LeftAlone
      <4>1. Open(i) /\ down'[i] = down[i] /\ LeftAlone(i)
        BY <3>1 DEF Open, TakesOf, Disk
      <4>. QED  BY <1>1, <4>1, StillTakes DEF LeftAlone
    <3>. QED  BY <3>2, <3>3
  <2>. QED  BY <2>1, <2>2
<1>9. NamesTaken' \subseteq NamesTaken \cup {path}
  BY <1>1, <1>3 DEF NamesTaken
<1>10. Begun' = Begun \cup {id}
  <2>1. \A i \in DOMAIN down' : ~down'[i].queued <=> i = id \/ (i \in DOMAIN down /\ ~down[i].queued)
    BY <1>2
  <2>. QED  BY <1>2, <2>1 DEF Begun
<1>. QED  BY <1>5, <1>6, <1>7, <1>8, <1>9, <1>10 DEF Disk

-----------------------------------------------------------------------------
(* The hashes *)

LEMMA VersionsNext ==
    ASSUME Versions, [Next]_vars
    PROVE  Versions' /\ used \in Nat /\ used <= used'
<1>. MaxTrouble \in Nat /\ used \in Nat
  BY BoundsAssumption DEF Versions
<1>1. CASE UNCHANGED <<version, used>>
  BY <1>1 DEF Versions
<1>2. CASE Trouble /\ UNCHANGED version
  BY <1>2 DEF Versions, Trouble
<1>3. ASSUME NEW s \in Sources, EditSource(s)
      PROVE  Versions' /\ used <= used'
  <2>1. /\ used' = used + 1 /\ used < MaxTrouble /\ DOMAIN version' = Sources
        /\ \A x \in Sources : version'[x] = version[x] \/ version'[x] = version[x] + 1
    BY <1>3 DEF EditSource, Trouble, Versions
  <2>. QED  BY <2>1 DEF Versions
<1>4. ASSUME NEW id, NEW s, StartIncoming(id, s) \/ StartFails(id) \/ AcceptIncoming(id, s), UNCHANGED version
      PROVE  Versions' /\ used <= used'
  BY <1>1, <1>2, <1>4 DEF StartIncoming, StartFails, AcceptIncoming
<1>5. CASE OnFwd
  <2>1. UNCHANGED version
    BY <1>5 DEF OnFwd
  <2>2. ASSUME NEW m, OnChunk(m) \/ OnOffer(m) PROVE Versions' /\ used <= used'
    BY <1>1, <1>2, <1>4, <2>1, <2>2 DEF OnChunk, OnOffer
  <2>. QED  BY <1>1, <1>5, <2>1, <2>2 DEF OnFwd
<1>6. CASE OnBack
  BY <1>1, <1>6 DEF OnBack, Offer, world
<1>7. ASSUME NEW id, NEW accept, Respond(id, accept) PROVE Versions' /\ used <= used'
  BY <1>1, <1>4, <1>7 DEF Respond
<1>8. CASE StartQueued
  BY <1>1, <1>4, <1>8 DEF StartQueued
<1>. QED  BY <1>1, <1>2, <1>3, <1>5, <1>6, <1>7, <1>8
          DEF Next, SendPaths, Retry, Offer, Download, Viewer, StreamRead, StreamResume, StreamFails, StreamSend,
              WindowCloses, SetPermission, Reconnect, world, vars

LEMMA ToldOne ==
    ASSUME IsSeq(fwd), NEW m, Tell(<<m>>), NEW kinds, m.t \notin kinds
    PROVE  NoNew(fwd, fwd', kinds)
<1>. PICK ms : ms = <<m>>
  OBVIOUS
<1>1. IsSeq(ms) /\ \A k \in 1..Len(ms) : ms[k].t \notin kinds
  BY SingleOf
<1>. QED  BY <1>1, KeptTold

\* Only a stream sends the end of a file.
LEMMA DonesNext ==
    ASSUME Inv, [Next]_vars
    PROVE  NoNew(fwd, fwd', {"done"}) \/ \E id \in Ids : StreamSend(id)
<1>. DEFINE Old == NoNew(fwd, fwd', {"done"})
<1>1. ASSUME fwd' = fwd PROVE Old
  BY <1>1, KeptSame
<1>2. IsSeq(fwd) /\ Shape
  BY DEF Inv, Shape, Sent
<1>3. ASSUME NEW s, NEW tbl, Offer(s, tbl) PROVE Old
  <2>. PICK m : m = [t |-> "offer", id |-> next, src |-> s]
    OBVIOUS
  <2>1. Tell(<<m>>) /\ m.t # "done"
    BY <1>3 DEF Offer
  <2>. QED  BY <1>2, <2>1, ToldOne
<1>4. ASSUME NEW on, NEW told, \/ told = <<>>
                               \/ \E o : told = <<[t |-> "perm", on |-> o]>>, SetAllowedUp(on, told)
      PROVE  Old
  BY <1>4, AllowedUpSays
<1>5. ASSUME OnBack PROVE Old
  <2>1. CASE Tell(<<[t |-> "reject", id |-> 0]>>)
    <3>. PICK m : m = [t |-> "reject", id |-> 0]
      OBVIOUS
    <3>1. Tell(<<m>>) /\ m.t # "done"
      BY <2>1
    <3>. QED  BY <1>2, <3>1, ToldOne
  <2>. QED  BY <1>1, <1>3, <1>4, <1>5, <2>1 DEF OnBack, OnAccept
<1>6. ASSUME OnFwd PROVE Old
  BY <1>2, <1>6, KeptTail DEF OnFwd
<1>7. ASSUME NEW on, SetPermission(on) PROVE Old
  <2>1. CASE SetAllowedUp(on, <<[t |-> "perm", on |-> on]>>)
    BY <1>4, <2>1
  <2>. QED  BY <1>1, <1>7, <2>1 DEF SetPermission
<1>8. ASSUME NEW id, Viewer(id) PROVE Old
  <2>1. CASE Tell(Cancels({id}))
    <3>. PICK c : c = Cancels({id})
      OBVIOUS
    <3>1. IsSeq(c) /\ \A k \in 1..Len(c) : c[k].t = "cancel"
      BY FS_Singleton, CancelsOf
    <3>. QED  BY <1>2, <2>1, <3>1, KeptTold
  <2>. QED  BY <1>1, <1>8, <2>1 DEF Viewer, ViewerCancels
<1>9. ASSUME Reconnect PROVE Old
  <2>1. Len(fwd') = 0
    BY <1>9, EmptyOf DEF Reconnect
  <2>. QED  BY <2>1 DEF NoNew
<1>. HIDE DEF Old
<1>10. ASSUME NEW s \in Sources, SendPaths(s) PROVE Old
  BY <1>3, <1>10 DEF SendPaths
<1>11. ASSUME NEW id \in Ids, Retry(id) PROVE Old
  BY <1>3, <1>11 DEF Retry
<1>12. Old \/ \E id \in Ids : StreamSend(id)
  BY <1>1, <1>5, <1>6, <1>7, <1>8, <1>9, <1>10, <1>11
     DEF Next, Download, EditSource, Respond, StreamRead, StreamResume, StreamFails, WindowCloses, StartQueued, vars
<1>. QED  BY <1>12 DEF Old

\* A row is about the same source as long as it is there, and nobody heard of it before.
LEMMA RowsNext ==
    ASSUME Inv, [Next]_vars, NEW i, i \in DOMAIN down'
    PROVE  (i \in DOMAIN down /\ down'[i].src = down[i].src) \/ Fresh(i)
<1>1. CASE RowsRest
  BY <1>1 DEF RowsRest
<1>2. CASE Begins
  <2>1. PICK id \in Ids, s \in Sources :
            /\ StartIncoming(id, s) /\ Fresh(id)
            /\ id \in DOMAIN down => down[id].queued /\ down[id].src = s
    BY <1>2 DEF Begins
  <2>2. (i \in DOMAIN down /\ down'[i] = down[i]) \/ i = id
    <3>1. PICK w : down' = Put(down, id, w)
      BY <2>1, Zenon DEF StartIncoming
    <3>. QED  BY <3>1 DEF Put
  <2>. QED  BY <2>1, <2>2
<1>3. CASE Reconnect
  BY <1>3 DEF Reconnect
<1>. QED  BY <1>1, <1>2, <1>3, DiskSteps, FinishesRows DEF Rests, Writes

LEMMA HashedNext ==
    ASSUME Inv, Inv', Orders, Agree, Versions, Hashed, [Next]_vars
    PROVE  Hashed'
<1>. SUFFICES ASSUME NEW k \in 1..Len(fwd'), fwd'[k].t = "done", fwd'[k].id \in DOMAIN down'
              PROVE  HashOf(fwd[k])'
  BY DEF Hashed
<1>. PICK m : m = fwd'[k]
  OBVIOUS
<1>0. m.id \in Ids
  BY DEF Inv, Shape, Rows
<1>1. CASE NoNew(fwd, fwd', {"done"})
  <2>1. PICK l \in 1..Len(fwd) : fwd[l] = m
    BY <1>1 DEF NoNew
  <2>2. ~Fresh(m.id)
    BY <1>0, <2>1 DEF Orders, Order, Sending1, Has
  <2>3. m.id \in DOMAIN down /\ down'[m.id].src = down[m.id].src
    BY <2>2, RowsNext
  <2>. QED  BY <2>1, <2>3 DEF Hashed, HashOf
<1>2. ASSUME NEW id \in Ids, StreamSend(id) PROVE HashOf(fwd[k])'
  <2>1. UNCHANGED down /\ IsSeq(fwd)
    BY <1>2 DEF StreamSend, receiver, Inv, Shape, Sent
  <2>2. PICK x : fwd' = Append(fwd, x) /\ (x.t = "done" => x.id = id /\ x.hash = Whole(stream[id].src, version[stream[id].src]))
    BY <1>2 DEF StreamSend
  <2>3. (k \in 1..Len(fwd) /\ m = fwd[k]) \/ m = x
    BY <2>2, AppendOf DEF Inv, Shape, Sent
  <2>4. CASE k \in 1..Len(fwd) /\ m = fwd[k]
    BY <1>2, <2>4 DEF Hashed, HashOf, StreamSend, receiver
  <2>5. CASE m = x
    <3>1. stream[id].pc # "none" /\ UNCHANGED down
      BY <1>2 DEF StreamSend, receiver
    <3>2. stream[id].src = down[id].src
      BY <2>2, <2>5, <3>1 DEF Agree, Agreed
    <3>3. down[id].src \in Sources
      BY <2>2, <2>5, <3>1 DEF Inv, Shape, Rows, RowOk
    <3>4. version[down[id].src] \in 0..MaxTrouble
      BY <3>3, BoundsAssumption DEF Versions
    <3>. QED  BY <2>2, <2>5, <3>1, <3>2, <3>4 DEF HashOf
  <2>. QED  BY <2>3, <2>4, <2>5
<1>. QED  BY <1>1, <1>2, DonesNext

-----------------------------------------------------------------------------
(* What the sender calls completed *)

\* A transfer completes at the sender when the receiver said so.
Completes(i) == up'[i].status = "Completed" =>
    /\ i \in DOMAIN up /\ up'[i].src = up[i].src
    /\ \/ up[i].status = "Completed"
       \/ back # <<>> /\ Head(back).t = "verified" /\ Head(back).ok /\ Head(back).id = i
AllComplete == \A i \in DOMAIN up' : Completes(i)

LEMMA CompletesSame == up' = up => AllComplete
BY DEF AllComplete, Completes

LEMMA CompletesSet ==
    ASSUME Inv, NEW id, NEW st, up' = [up EXCEPT ![id].status = st] \/ SetStatus(id, st),
           st # "Completed" \/ (back # <<>> /\ Head(back).t = "verified" /\ Head(back).ok /\ Head(back).id = id)
    PROVE  AllComplete
<1>1. \A i \in DOMAIN up : DOMAIN up[i] = {"src", "status"}
  BY DEF Inv, Shape, Uploads
<1>2. /\ DOMAIN up' = DOMAIN up
      /\ \A i \in DOMAIN up : /\ up'[i].src = up[i].src
                              /\ up'[i].status = up[i].status \/ (i = id /\ up'[i].status = st)
  BY <1>1 DEF SetStatus
<1>. QED  BY <1>2 DEF AllComplete, Completes

LEMMA CompletesCancel ==
    ASSUME Inv, NEW ids, CancelUp(ids)
    PROVE  AllComplete
<1>1. \A i \in DOMAIN up : DOMAIN up[i] = {"src", "status"}
  BY DEF Inv, Shape, Uploads
<1>2. /\ DOMAIN up' = DOMAIN up
      /\ \A i \in DOMAIN up : /\ up'[i].src = up[i].src
                              /\ up'[i].status = up[i].status \/ up'[i].status = "Cancelled"
  BY <1>1 DEF CancelUp
<1>. QED  BY <1>2 DEF AllComplete, Completes

LEMMA CompletesNext ==
    ASSUME Inv, [Next]_vars, ~(\E s \in Sources : \E tbl : OneMore(s, tbl))
    PROVE  AllComplete
<1>. USE CompletesSame, CompletesSet, CompletesCancel
<1>1. CASE OnBack /\ ~(Head(back).t = "fetch" /\ mayUp)
  <2>. PICK m : m = Head(back)
    OBVIOUS
  <2>1. CASE m.t \in {"reject", "verified"} /\ SetStatus(m.id, IF m.t = "verified" /\ m.ok THEN "Completed" ELSE "Failed")
    <3>1. back # <<>>
      BY <1>1 DEF OnBack
    <3>. PICK st : st = (IF m.t = "verified" /\ m.ok THEN "Completed" ELSE "Failed")
      OBVIOUS
    <3>2. SetStatus(m.id, st)
      BY <2>1
    <3>. QED  BY <3>1, <3>2
  <2>2. CASE OnAccept(m)
    BY <2>2 DEF OnAccept
  <2>3. CASE SetAllowedUp(m.on, <<>>)
    BY <2>3 DEF SetAllowedUp
  <2>. QED  BY <1>1, <2>1, <2>2, <2>3 DEF OnBack, manager
<1>2. ASSUME NEW id \in Ids, StreamRead(id) \/ StreamResume(id) \/ StreamFails(id) \/ StreamSend(id)
      PROVE  AllComplete
  BY <1>2 DEF StreamRead, StreamResume, StreamFails, StreamSend
<1>3. ASSUME NEW id \in Ids, Viewer(id)
      PROVE  AllComplete
  <2>1. CASE ViewerPauses(id)
    BY <2>1 DEF ViewerPauses
  <2>2. CASE ViewerResumes(id)
    BY <2>2 DEF ViewerResumes
  <2>3. CASE ViewerCancels(id)
    BY <2>3 DEF ViewerCancels
  <2>. QED  BY <1>3, <2>1, <2>2, <2>3 DEF Viewer
<1>4. ASSUME NEW on, SetPermission(on)
      PROVE  AllComplete
  BY <1>4 DEF SetPermission, SetAllowedUp
<1>5. CASE Reconnect
  BY <1>5 DEF Reconnect, AllComplete
<1>6. CASE Ordinary
  BY <1>1, <1>2, <1>3, <1>4, <1>6
     DEF Ordinary, Download, EditSource, Respond, OnFwd, StartQueued, WindowCloses, manager, vars
<1>. QED  BY <1>5, <1>6, EveryStep

\* The transfer the sender offers is new, and the receiver said nothing about it.
LEMMA CompletesOneMore ==
    ASSUME Inv, Orders, NEW s \in Sources, NEW tbl, OneMore(s, tbl)
    PROVE  AllComplete /\ \A k \in 1..Len(back) : ~(back[k].t = "verified" /\ back[k].id = next)
<1>. PICK n : n = next
  OBVIOUS
<1>1. /\ n \in Ids /\ n \notin DOMAIN up
      /\ \A i \in Ids : i \in DOMAIN up' => i = n \/ i \in DOMAIN tbl
      /\ \A i \in Ids \ {n} : i \in DOMAIN up' => up'[i] = up[i]
      /\ DOMAIN tbl \subseteq DOMAIN up
  BY OfferEven DEF OneMore
<1>2. up'[n].status # "Completed" /\ DOMAIN up' \subseteq Ids
  <2>. PICK w : w = [src |-> s, status |-> "Pending"]
    OBVIOUS
  <2>1. up' = Put(tbl, n, w) /\ w.status # "Completed"
    BY DEF OneMore, Offer
  <2>2. DOMAIN up' = DOMAIN tbl \cup {n} /\ up'[n] = w
    BY <2>1 DEF Put
  <2>. QED  BY <1>1, <2>1, <2>2 DEF Inv, Shape, Uploads
<1>3. AllComplete
  BY <1>1, <1>2 DEF AllComplete, Completes
<1>4. ~Has(back, "verified", n)
  <2>1. n \notin DOMAIN down
    <3>1. n \in Nat /\ ~(n < n)
      BY DEF Inv, Shape
    <3>. QED  BY <3>1 DEF Inv, Numbers
  <2>. QED  BY <1>1, <2>1 DEF Orders, Order, Closed, Shut
<1>. QED  BY <1>3, <1>4 DEF Has

-----------------------------------------------------------------------------
(* What the receiver reports *)

\* Only the end of a file is reported.
LEMMA ReportsNext ==
    ASSUME Inv, [Next]_vars
    PROVE  NoNew(back, back', {"verified"}) \/ Finishes
<1>. DEFINE Old == NoNew(back, back', {"verified"})
<1>0. IsSeq(back)
  BY DEF Inv, Shape, Sent
<1>1. ASSUME back' = back PROVE Old
  BY <1>1, KeptSame
<1>2. ASSUME back # <<>>, back' = Tail(back) PROVE Old
  BY <1>0, <1>2, KeptTail
<1>3. ASSUME Says({"fetch", "verified"}) PROVE Old
  <2>1. PICK ms : IsSeq(ms) /\ back' = back \o ms /\ \A k \in 1..Len(ms) : ms[k].t \notin {"fetch", "verified"}
    BY <1>3 DEF Says
  <2>. QED  BY <1>0, <2>1, KeptConcat
<1>4. ASSUME NEW s \in Sources, Download(s) PROVE Old
  <2>. PICK m : m = [t |-> "fetch", id |-> 0, src |-> s]
    OBVIOUS
  <2>1. Reply(<<m>>) /\ m.t # "verified"
    BY <1>4 DEF Download
  <2>2. Says({"verified"})
    BY <2>1, SaysOne
  <2>3. PICK ms : IsSeq(ms) /\ back' = back \o ms /\ \A k \in 1..Len(ms) : ms[k].t \notin {"verified"}
    BY <2>2 DEF Says
  <2>. QED  BY <1>0, <2>3, KeptConcat
<1>5. ASSUME Ends PROVE Old \/ Finishes
  <2>1. CASE Open(Head(fwd).id)
    BY <1>5, <2>1 DEF Finishes
  <2>2. CASE ~Open(Head(fwd).id)
    BY <1>1, <1>5, <2>2 DEF Ends, OnDone, Open
  <2>. QED  BY <2>1, <2>2
<1>6. ASSUME Reconnect PROVE Old
  <2>1. Len(back') = 0
    BY <1>6, EmptyOf DEF Reconnect
  <2>. QED  BY <2>1 DEF NoNew
<1>7. ASSUME NEW s \in Sources, NEW tbl, OneMore(s, tbl) PROVE Old
  BY <1>1, <1>2, <1>7 DEF OneMore
<1>. HIDE DEF Old
<1>8. Old \/ Finishes
  BY <1>2, <1>3, <1>4, <1>5, <1>6, <1>7, EveryStep, OrdinarySays
<1>. QED  BY <1>8 DEF Old

\* A transfer the sender still has is the one it was.
LEMMA SameUpload ==
    ASSUME Inv, Inv', Orders, [Next]_vars, NEW i, i \in DOMAIN up'
    PROVE  (i \in DOMAIN up /\ up'[i].src = up[i].src) \/ (i = next /\ ~Has(back, "verified", i) /\ i \notin DOMAIN down)
<1>. PICK n : n = next
  OBVIOUS
<1>0. i \in Ids
  BY DEF Inv, Shape, Uploads
<1>1. CASE Ordinary
  BY <1>0, <1>1, OrdinaryEven DEF Even, Steady
<1>2. CASE Reconnect
  BY <1>2 DEF Reconnect
<1>3. ASSUME NEW s \in Sources, NEW tbl, OneMore(s, tbl)
      PROVE  (i \in DOMAIN up /\ up'[i].src = up[i].src) \/ (i = n /\ ~Has(back, "verified", i) /\ i \notin DOMAIN down)
  <2>1. /\ i = n \/ i \in DOMAIN tbl
        /\ i # n => up'[i] = up[i]
        /\ DOMAIN tbl \subseteq DOMAIN up
    BY <1>0, <1>3, OfferEven DEF OneMore
  <2>2. n \notin DOMAIN down
    <3>1. n \in Nat /\ ~(n < n)
      BY DEF Inv, Shape
    <3>. QED  BY <3>1 DEF Inv, Numbers
  <2>3. i = n => ~Has(back, "verified", i)
    BY <1>0, <2>2 DEF Orders, Order, Closed, Shut
  <2>. QED  BY <2>1, <2>2, <2>3
<1>. QED  BY <1>1, <1>2, <1>3, EveryStep

\* The report of an end is true.
Truly == Finishes => \E ok \in BOOLEAN :
    /\ Reply(<<[t |-> "verified", id |-> Head(fwd).id, ok |-> ok]>>)
    /\ ok => \E s \in Sources : s = down[Head(fwd).id].src /\ Present(s)'

LEMMA DeliveredNext ==
    ASSUME Inv, Inv', Orders, Agree, Delivered, Spared, Truly, [Next]_vars
    PROVE  Delivered'
<1>. DEFINE Told(m) == m.t = "verified" /\ m.ok /\ m.id \in DOMAIN up'
<1>1. ASSUME NEW s, Present(s) PROVE Present(s)'
  BY <1>1 DEF Present, Spared
<1>2. \A k \in 1..Len(back) : back[k].t = "verified" => Has(back, "verified", back[k].id)
  BY DEF Has
<1>3. ASSUME NEW k \in 1..Len(back), NEW m, m = back[k], Told(m) PROVE \E s : s = up'[m.id].src /\ Present(s)
  <2>1. m.id \in DOMAIN up /\ up'[m.id].src = up[m.id].src
    BY <1>2, <1>3, SameUpload
  <2>. QED  BY <1>3, <2>1 DEF Delivered
<1>4. ASSUME NEW i \in DOMAIN up', up'[i].status = "Completed" PROVE \E s : s = up'[i].src /\ Present(s)
  <2>1. AllComplete
    BY CompletesNext, CompletesOneMore
  <2>2. Completes(i)
    BY <2>1 DEF AllComplete
  <2>3. CASE up[i].status = "Completed"
    BY <1>4, <2>2, <2>3 DEF Completes, Delivered
  <2>4. CASE back # <<>> /\ Head(back).t = "verified" /\ Head(back).ok /\ Head(back).id = i
    <3>1. Head(back) = back[1] /\ 1 \in 1..Len(back)
      BY <2>4, TailOf DEF Inv, Shape, Sent
    <3>. QED  BY <1>3, <1>4, <2>4, <3>1
  <2>. QED  BY <1>4, <2>2, <2>3, <2>4 DEF Completes
<1>5. ASSUME NEW k \in 1..Len(back'), NEW m, m = back'[k], Told(m) PROVE \E s : s = up'[m.id].src /\ Present(s)'
  <2>1. CASE NoNew(back, back', {"verified"})
    <3>1. PICK l \in 1..Len(back) : back[l] = m
      BY <1>5, <2>1 DEF NoNew
    <3>2. PICK s : s = up'[m.id].src /\ Present(s)
      BY <1>3, <1>5, <3>1
    <3>. QED  BY <1>1, <3>2
  <2>2. CASE Finishes
    <3>. PICK j : j = Head(fwd).id
      OBVIOUS
    <3>1. PICK ok \in BOOLEAN : /\ Reply(<<[t |-> "verified", id |-> j, ok |-> ok]>>)
                                /\ ok => \E s \in Sources : s = down[j].src /\ Present(s)'
      BY <2>2 DEF Truly
    <3>. PICK x : x = [t |-> "verified", id |-> j, ok |-> ok]
      OBVIOUS
    <3>2. back' = back \o <<x>> /\ IsSeq(back)
      BY <3>1 DEF Reply, Inv, Shape, Sent
    <3>3. (k \in 1..Len(back) /\ back'[k] = back[k]) \/ back'[k] = x
      <4>1. back' = Append(back, x)
        BY <3>2
      <4>. QED  BY <3>2, <4>1, AppendOf
    <3>4. CASE k \in 1..Len(back) /\ back'[k] = back[k]
      <4>1. PICK s : s = up'[m.id].src /\ Present(s)
        BY <1>3, <1>5, <3>4
      <4>. QED  BY <1>1, <4>1
    <3>5. CASE back'[k] = x
      <4>1. m.id = j /\ ok /\ j \in DOMAIN up'
        BY <1>5, <3>5
      <4>2. Open(j)
        BY <2>2 DEF Finishes
      <4>3. j \in DOMAIN up /\ up'[j].src = up[j].src
        BY <4>1, <4>2, SameUpload DEF Open
      <4>4. up[j].src = down[j].src
        BY <4>2, <4>3 DEF Agree, Agreed, Open
      <4>. QED  BY <3>1, <4>1, <4>3, <4>4
    <3>. QED  BY <3>3, <3>4, <3>5
  <2>. QED  BY <2>1, <2>2, ReportsNext
<1>6. \A i \in DOMAIN up' : up'[i].status = "Completed" => Present(up[i].src)'
  <2>. SUFFICES ASSUME NEW i \in DOMAIN up', up'[i].status = "Completed" PROVE Present(up[i].src)'
    OBVIOUS
  <2>1. PICK s : s = up'[i].src /\ Present(s)
    BY <1>4
  <2>2. Present(s)'
    BY <1>1, <2>1
  <2>. QED  BY <2>1, <2>2 DEF Present
<1>7. \A k \in 1..Len(back') : Told(back'[k]) => Present(up[back[k].id].src)'
  <2>. SUFFICES ASSUME NEW k \in 1..Len(back'), Told(back'[k]) PROVE Present(up[back[k].id].src)'
    OBVIOUS
  <2>. PICK m : m = back'[k]
    OBVIOUS
  <2>1. PICK s : s = up'[m.id].src /\ Present(s)'
    BY <1>5
  <2>. QED  BY <2>1 DEF Present
<1>. QED  BY <1>6, <1>7 DEF Delivered

-----------------------------------------------------------------------------
(* There is a name for every transfer *)

LEMMA BegunStays ==
    ASSUME RowsRest
    PROVE  Begun' = Begun
<1>1. \A i \in DOMAIN down : i \in DOMAIN down' /\ down'[i].queued = down[i].queued
  BY DEF RowsRest
<1>2. \A i \in DOMAIN down' : i \in DOMAIN down \/ down'[i].queued
  BY DEF RowsRest
<1>. QED  BY <1>1, <1>2 DEF Begun

LEMMA BegunFinite ==
    ASSUME Inv
    PROVE  IsFiniteSet(Begun) /\ Cardinality(Begun) \in Nat /\ Cardinality(Begun) <= MaxOffers
<1>1. IsFiniteSet(Ids) /\ Cardinality(Ids) = MaxOffers
  <2>1. MaxOffers \in Nat
    BY BoundsAssumption
  <2>. QED  BY <2>1, FS_Interval DEF Ids
<1>2. Begun \subseteq Ids
  BY DEF Begun, Inv, Shape, Rows
<1>. QED  BY <1>1, <1>2, FS_Subset, FS_CardinalityType

LEMMA MoreOffers ==
    ASSUME NEW u \in Nat, NEW v \in Nat, u <= v, NEW o \in Nat
    PROVE  u * o <= v * o /\ u * o \in Nat /\ v * o \in Nat
<1>1. PICK d \in Nat : v = u + d
  <2>1. v - u \in Nat /\ v = u + (v - u)
    OBVIOUS
  <2>. QED  BY <2>1
<1>2. (u + d) * o = u * o + d * o
  OBVIOUS
<1>3. PICK x \in Nat : x = u * o
  OBVIOUS
<1>4. PICK y \in Nat : y = d * o
  OBVIOUS
<1>. QED  BY <1>1, <1>2, <1>3, <1>4

\* No name is taken.
LEMMA EnoughStays ==
    ASSUME Inv, Versions, Versions', used <= used', Enough, NamesTaken' \subseteq NamesTaken, Begun' = Begun
    PROVE  Enough'
<1>. PICK t : t = NamesTaken
  OBVIOUS
<1>. PICK t1 : t1 = NamesTaken'
  OBVIOUS
<1>. PICK b : b = Cardinality(Begun)
  OBVIOUS
<1>. MaxOffers \in Nat /\ used \in Nat /\ used' \in Nat /\ b \in Nat
  BY BoundsAssumption, BegunFinite DEF Versions
<1>1. IsFiniteSet(t1) /\ Cardinality(t1) <= Cardinality(t) /\ Cardinality(t1) \in Nat /\ Cardinality(t) \in Nat
  BY FS_Subset, FS_CardinalityType DEF Enough
<1>2. Cardinality(t) <= used * MaxOffers + b
  BY DEF Enough
<1>3. used * MaxOffers <= used' * MaxOffers /\ used * MaxOffers \in Nat /\ used' * MaxOffers \in Nat
  BY MoreOffers
<1>4. PICK x \in Nat : x = used * MaxOffers
  BY <1>3
<1>5. PICK y \in Nat : y = used' * MaxOffers
  BY <1>3
<1>6. Cardinality(t1) <= y + b
  BY <1>1, <1>2, <1>3, <1>4, <1>5
<1>7. IsFiniteSet(NamesTaken') /\ Cardinality(NamesTaken') <= used' * MaxOffers + Cardinality(Begun')
  BY <1>1, <1>5, <1>6
<1>. QED  BY <1>7 DEF Enough

\* A transfer takes one name.
LEMMA EnoughBegins ==
    ASSUME Inv, Versions, Versions', used <= used', Enough, NEW id, id \notin Begun, NEW path,
           NamesTaken' \subseteq NamesTaken \cup {path}, Begun' = Begun \cup {id}
    PROVE  Enough'
<1>. PICK t : t = NamesTaken
  OBVIOUS
<1>. PICK t1 : t1 = NamesTaken'
  OBVIOUS
<1>. PICK b : b = Cardinality(Begun)
  OBVIOUS
<1>. MaxOffers \in Nat /\ used \in Nat /\ used' \in Nat /\ b \in Nat /\ IsFiniteSet(Begun)
  BY BoundsAssumption, BegunFinite DEF Versions
<1>1. /\ IsFiniteSet(t \cup {path}) /\ Cardinality(t) \in Nat
      /\ Cardinality(t \cup {path}) <= Cardinality(t) + 1
  <2>1. IsFiniteSet(t)
    BY DEF Enough
  <2>2. Cardinality(t) \in Nat
    BY <2>1, FS_CardinalityType
  <2>3. IsFiniteSet(t \cup {path}) /\ Cardinality(t \cup {path}) = IF path \in t THEN Cardinality(t) ELSE Cardinality(t) + 1
    BY <2>1, FS_AddElement
  <2>. QED  BY <2>2, <2>3
<1>2. IsFiniteSet(t1) /\ Cardinality(t1) <= Cardinality(t) + 1 /\ Cardinality(t1) \in Nat
  <2>1. IsFiniteSet(t1) /\ Cardinality(t1) <= Cardinality(t \cup {path}) /\ Cardinality(t1) \in Nat
    BY <1>1, FS_Subset, FS_CardinalityType
  <2>2. Cardinality(t \cup {path}) \in Nat
    BY <1>1, FS_CardinalityType
  <2>. QED  BY <1>1, <2>1, <2>2
<1>3. Cardinality(t) <= used * MaxOffers + b
  BY DEF Enough
<1>4. used * MaxOffers <= used' * MaxOffers /\ used * MaxOffers \in Nat /\ used' * MaxOffers \in Nat
  BY MoreOffers
<1>5. PICK x \in Nat : x = used * MaxOffers
  BY <1>4
<1>6. PICK y \in Nat : y = used' * MaxOffers
  BY <1>4
<1>7. Cardinality(Begun') = b + 1
  BY FS_AddElement
<1>8. Cardinality(t1) <= y + (b + 1)
  BY <1>1, <1>2, <1>3, <1>4, <1>5, <1>6
<1>9. IsFiniteSet(NamesTaken') /\ Cardinality(NamesTaken') <= used' * MaxOffers + Cardinality(Begun')
  BY <1>2, <1>6, <1>7, <1>8
<1>. QED  BY <1>9 DEF Enough

\* A lost connection is one more trouble, and the transfers of a session are bounded.
LEMMA EnoughAgain ==
    ASSUME Inv, Versions, Enough, Reconnect
    PROVE  Enough'
<1>. PICK t : t = NamesTaken
  OBVIOUS
<1>. PICK b : b = Cardinality(Begun)
  OBVIOUS
<1>. MaxOffers \in Nat /\ used \in Nat /\ b \in Nat /\ b <= MaxOffers
  BY BoundsAssumption, BegunFinite DEF Versions
<1>1. used' = used + 1 /\ NamesTaken' = t
  BY DEF Reconnect, Trouble, disk, NamesTaken
<1>2. Cardinality(Begun') = 0
  <2>1. Begun' = {}
    BY DEF Reconnect, Begun
  <2>. QED  BY <2>1, FS_EmptySet
<1>3. IsFiniteSet(t) /\ Cardinality(t) <= used * MaxOffers + b /\ Cardinality(t) \in Nat
  BY FS_CardinalityType DEF Enough
<1>4. (used + 1) * MaxOffers = used * MaxOffers + MaxOffers
  OBVIOUS
<1>5. PICK x \in Nat : x = used * MaxOffers
  OBVIOUS
<1>6. PICK y : y = used' * MaxOffers
  OBVIOUS
<1>7. y = x + MaxOffers
  BY <1>1, <1>4, <1>5, <1>6
<1>8. Cardinality(t) <= y + 0
  BY <1>3, <1>5, <1>7
<1>9. IsFiniteSet(NamesTaken') /\ Cardinality(NamesTaken') <= used' * MaxOffers + Cardinality(Begun')
  BY <1>1, <1>2, <1>3, <1>6, <1>8
<1>. QED  BY <1>9 DEF Enough

LEMMA FinishesNames ==
    ASSUME Inv, Disk, Finishes
    PROVE  NamesTaken' \subseteq NamesTaken
<1>. PICK j : j = Head(fwd).id
  OBVIOUS
<1>0. DOMAIN parts = Paths /\ DOMAIN targets = Paths
  BY DEF Inv, Stored, Disk, Labelled
<1>1. ASSUME NEW p, NEW n, Published(j, p, n) PROVE NamesTaken' \subseteq NamesTaken
  <2>1. /\ targets' = [targets EXCEPT ![p] = n] /\ parts' = [parts EXCEPT ![p] = 0]
        /\ n = parts[p] /\ n # 0
    BY <1>1 DEF Published
  <2>2. \A q \in Paths : q # p => targets'[q] = targets[q] /\ parts'[q] = parts[q]
    BY <1>0, <2>1
  <2>. QED  BY <2>1, <2>2 DEF NamesTaken
<1>2. ASSUME targets' = targets, parts' = parts \/ \E p : parts' = [parts EXCEPT ![p] = 0]
      PROVE  NamesTaken' \subseteq NamesTaken
  <2>1. \A q \in Paths : parts'[q] \in {0, parts[q]}
    BY <1>0, <1>2
  <2>. QED  BY <1>2, <2>1 DEF NamesTaken
<1>. QED  BY <1>1, <1>2, HowItEnds

-----------------------------------------------------------------------------
(* The files of all sessions *)

Files == Versions /\ Enough /\ Hashed /\ Disk /\ Delivered

LEMMA FilesInit == Init => Files
<1>. SUFFICES ASSUME Init PROVE Files
  OBVIOUS
<1>1. /\ DOMAIN up = {} /\ DOMAIN down = {} /\ Len(fwd) = 0 /\ Len(back) = 0 /\ used = 0
      /\ \A p \in Paths : parts[p] = 0 /\ targets[p] = 0
      /\ DOMAIN targets = Paths /\ DOMAIN version = Sources /\ \A s \in Sources : version[s] = 0
  BY EmptyOf DEF Init
<1>2. Versions
  BY <1>1, BoundsAssumption DEF Versions
<1>3. Enough
  <2>1. NamesTaken = {} /\ Begun = {}
    BY <1>1 DEF NamesTaken, Begun
  <2>2. IsFiniteSet(NamesTaken) /\ Cardinality(NamesTaken) = 0 /\ Cardinality(Begun) = 0
    BY <2>1, FS_EmptySet
  <2>3. 0 * MaxOffers = 0
    BY BoundsAssumption
  <2>. QED  BY <1>1, <2>2, <2>3 DEF Enough
<1>4. Hashed /\ Delivered
  BY <1>1 DEF Hashed, Delivered
<1>5. Labelled /\ WholeTargets /\ \A i \in Ids : OwnName(i) /\ LeftAlone(i)
  BY <1>1 DEF Labelled, WholeTargets, OwnName, LeftAlone, Open, TakesOf
<1>. QED  BY <1>2, <1>3, <1>4, <1>5 DEF Files, Disk

LEMMA AgainDisk ==
    ASSUME Disk, Reconnect
    PROVE  Disk' /\ Spared
<1>1. UNCHANGED disk /\ down' = <<>>
  BY DEF Reconnect
<1>2. DOMAIN down' = {}
  BY <1>1
<1>3. Spared /\ Labelled' /\ WholeTargets'
  BY <1>1 DEF Disk, Spared, Labelled, WholeTargets, disk
<1>4. ASSUME NEW i \in Ids PROVE OwnName(i)' /\ LeftAlone(i)'
  BY <1>2 DEF OwnName, LeftAlone, Open, TakesOf
<1>. QED  BY <1>3, <1>4 DEF Disk

LEMMA FilesNext ==
    ASSUME Careful, Inv, Inv', Orders, Agree, Alone, Files, [Next]_vars
    PROVE  Files' /\ Spared
<1>1. Versions /\ Enough /\ Hashed /\ Disk /\ Delivered
  BY DEF Files
<1>2. Versions' /\ used \in Nat /\ used <= used'
  BY <1>1, VersionsNext
<1>3. Hashed'
  BY <1>1, HashedNext
<1>4. Disk' /\ Spared /\ Enough' /\ Truly
  <2>1. CASE Reconnect
    <3>1. ~Finishes
      <4>1. ASSUME Finishes PROVE FALSE
        <5>1. fwd' = <<>> /\ used' = used + 1 /\ next' = 1 /\ down' = <<>>
          BY <2>1 DEF Reconnect, Trouble
        <5>2. UNCHANGED used
          BY <4>1 DEF Finishes, Ends, OnFwd
        <5>. QED  BY <1>2, <5>1, <5>2
      <4>. QED  BY <4>1
    <3>. QED  BY <1>1, <2>1, <3>1, AgainDisk, EnoughAgain DEF Truly
  <2>2. CASE Finishes /\ ~Reconnect
    <3>. PICK j : j = Head(fwd).id
      OBVIOUS
    <3>1. /\ Disk' /\ Spared
          /\ \E ok \in BOOLEAN : /\ Reply(<<[t |-> "verified", id |-> j, ok |-> ok]>>)
                                 /\ ok => \E s \in Sources : s = down[j].src /\ Present(s)'
      BY <1>1, <2>2, FinishesDisk
    <3>2. Truly
      BY <3>1 DEF Truly
    <3>3. Enough'
      BY <1>1, <1>2, <2>2, FinishesNames, FinishesRows, BegunStays, EnoughStays
    <3>. QED  BY <3>1, <3>2, <3>3
  <2>3. CASE Rests /\ ~Finishes /\ ~Reconnect
    <3>1. NamesTaken' = NamesTaken
      BY <2>3 DEF Rests, disk, NamesTaken
    <3>2. Enough'
      BY <1>1, <1>2, <2>3, <3>1, BegunStays, EnoughStays DEF Rests
    <3>. QED  BY <1>1, <2>3, <3>2, RestsDisk DEF Truly
  <2>4. CASE Writes /\ ~Finishes /\ ~Reconnect
    <3>1. NamesTaken' = NamesTaken /\ RowsRest
      BY <2>4 DEF Writes, NamesTaken
    <3>2. Enough'
      BY <1>1, <1>2, <3>1, BegunStays, EnoughStays
    <3>. QED  BY <1>1, <2>4, <3>2, WritesDisk DEF Truly
  <2>5. CASE Begins /\ ~Finishes /\ ~Reconnect
    <3>1. PICK id \in Ids, s \in Sources :
              /\ StartIncoming(id, s) /\ Fresh(id)
              /\ id \in DOMAIN down => down[id].queued /\ down[id].src = s
      BY <2>5 DEF Begins
    <3>2. id \notin Begun /\ used \in 0..MaxTrouble
      BY <1>1, <3>1 DEF Begun, Versions
    <3>3. PICK path, node : Opened(id, s, path, node)
      BY <1>1, <3>1, <3>2, HowItBegins
    <3>4. /\ Disk' /\ Spared
          /\ NamesTaken' \subseteq NamesTaken \cup {path}
          /\ Begun' = Begun \cup {id}
      BY <1>1, <2>5, <3>1, <3>3, OpenedDisk
    <3>5. Enough'
      BY <1>1, <1>2, <3>2, <3>4, EnoughBegins
    <3>. QED  BY <2>5, <3>4, <3>5 DEF Truly
  <2>. QED  BY <2>1, <2>2, <2>3, <2>4, <2>5, DiskSteps
<1>5. Delivered'
  BY <1>1, <1>4, DeliveredNext
<1>. QED  BY <1>2, <1>3, <1>4, <1>5 DEF Files

-----------------------------------------------------------------------------
(* The theorems *)

\* Whatever is delayed, reordered, cut, cancelled or withdrawn, the two sides speak of the
\* same transfers: their steps come in order, agree on the source, and no two transfers
\* of one name are open at once when the viewer is careful.
THEOREM TransfersStayApart == Spec => [](Orders /\ Agree /\ Alone)
<1>1. Init => Orders /\ Agree /\ Alone
  <2>1. Init => New
    BY DEF Init, New
  <2>. QED  BY <2>1, NewOrders, NewAlone
<1>2. Inv /\ Inv' /\ Orders /\ Agree /\ Alone /\ [Next]_vars => (Orders /\ Agree /\ Alone)'
  BY OrdersNext, AloneNext
<1>. QED  BY <1>1, <1>2, TransfersStayInOrder, PTL DEF Spec

\* What the disk holds, and what the sender was told of it.
LEMMA FilesHold ==
    ASSUME Careful
    PROVE  Spec => []Files /\ [][Spared]_vars
<1>1. Inv /\ Inv' /\ Orders /\ Agree /\ Alone /\ Files /\ [Next]_vars => Files' /\ Spared
  BY FilesNext
<1>. QED  BY <1>1, FilesInit, TransfersStayInOrder, TransfersStayApart, PTL DEF Spec

\* Whatever a transfer went through (pauses, resumes, restarts of the session, a source
\* edited while it is sent, names taken in the directory), a file under its final name is
\* whole and of one version of its source, and what the sender calls completed is there.
THEOREM FilesStayWhole == Careful => (Spec => []FilesAreWhole)
<1>. SUFFICES ASSUME Careful PROVE Spec => []FilesAreWhole
  OBVIOUS
<1>1. Files => FilesAreWhole
  BY DEF Files, Disk, WholeTargets, Delivered, Present, FilesAreWhole, With
<1>. QED  BY <1>1, FilesHold, PTL

\* The final rename of a transfer never lands on a file that is there: unique_path chose
\* a free name, and nothing took it before the file was moved.
THEOREM NothingIsOverwritten == Careful => (Spec => NeverOverwrites)
<1>. SUFFICES ASSUME Careful PROVE Spec => NeverOverwrites
  OBVIOUS
<1>1. Spared => \A p \in Paths : targets[p] # 0 =>
           targets'[p] = targets[p] /\ inodes'[targets[p]] = inodes[targets[p]]
  BY DEF Spared
<1>. QED  BY <1>1, FilesHold, PTL DEF NeverOverwrites, Spared

-----------------------------------------------------------------------------
(* What runs at the sender hears of its end *)

Working(i) == i \in With({"Active", "Paused"}, up)
\* A message that ends the transfer at the sender, and a queue that has one.
Final(m, i) == (m.t = "perm" /\ ~m.on) \/ (m.t \in {"cancel", "verified", "reject"} /\ m.id = i)
Finals(q, i) == \E k \in 1..Len(q) : Final(q[k], i)
\* The end of a transfer follows its acceptance.
Overruled(q, i) == \A k \in 1..Len(q) : q[k].t = "accept" /\ q[k].id = i =>
                      \E l \in k..Len(q) : Final(q[l], i)

\* What the sender takes for running has a stream, or its hash or its end is on its way.
Awake(i) == Working(i) =>
    /\ mayUp /\ ~Fresh(i)
    /\ stream[i].pc # "none" \/ Has(fwd, "done", i) \/ Finals(back, i)
\* What the receiver has decided on and does not receive has ended here too, or will.
Told(i) == ~Fresh(i) /\ ~Open(i) =>
    /\ Working(i) => Finals(back, i)
    /\ Lively(i) => Overruled(back, i)
\* A streaming task is told to end by whoever ends its transfer.
Excused(i) == ctl[i].cancelled => ~Lively(i) /\ i < next
Ending(i) == Awake(i) /\ Told(i) /\ Excused(i)
Tasks == DOMAIN ctl = Ids /\ \A i \in Ids : "cancelled" \in DOMAIN ctl[i]
Endings == \A i \in Ids : Ending(i)

LEMMA FinalHas ==
    \A q, kind, i : kind \in {"cancel", "verified", "reject"} /\ Has(q, kind, i) => Finals(q, i)
BY DEF Has, Finals, Final

LEMMA NoneOverruled == \A q, i : ~Has(q, "accept", i) => Overruled(q, i)
BY DEF Has, Overruled

LEMMA FinalsTail ==
    ASSUME NEW q, IsSeq(q), q # <<>>, NEW i
    PROVE  /\ Finals(q, i) => Final(Head(q), i) \/ Finals(Tail(q), i)
           /\ Overruled(q, i) => Overruled(Tail(q), i)
           /\ Overruled(q, i) /\ Head(q).t = "accept" /\ Head(q).id = i => Finals(Tail(q), i)
<1>. PICK r : r = Tail(q)
  OBVIOUS
<1>1. /\ Head(q) = q[1] /\ 1 \in 1..Len(q) /\ Len(r) = Len(q) - 1 /\ Len(q) \in Nat
      /\ \A k \in 1..Len(r) : k + 1 \in 1..Len(q) /\ r[k] = q[k + 1]
  BY TailOf
<1>2. ASSUME NEW k \in 1..Len(q), k # 1 PROVE \E l \in 1..Len(r) : l = k - 1 /\ r[l] = q[k]
  <2>1. PICK l : l = k - 1
    OBVIOUS
  <2>2. l \in 1..Len(r) /\ l + 1 = k
    BY <1>1, <1>2, <2>1
  <2>. QED  BY <1>1, <2>1, <2>2
<1>3. ASSUME Finals(q, i), ~Final(Head(q), i) PROVE Finals(r, i)
  <2>1. PICK k \in 1..Len(q) : Final(q[k], i)
    BY <1>3 DEF Finals
  <2>2. k # 1
    BY <1>1, <1>3, <2>1
  <2>. QED  BY <1>2, <2>1, <2>2 DEF Finals
<1>4. ASSUME Overruled(q, i), NEW k \in 1..Len(r), r[k].t = "accept", r[k].id = i
      PROVE  \E l \in k..Len(r) : Final(r[l], i)
  <2>1. k + 1 \in 1..Len(q) /\ q[k + 1] = r[k]
    BY <1>1
  <2>2. PICK l \in (k + 1)..Len(q) : Final(q[l], i)
    BY <1>4, <2>1 DEF Overruled
  <2>3. l \in 1..Len(q) /\ l # 1
    BY <1>1, <2>1
  <2>4. PICK x \in 1..Len(r) : x = l - 1 /\ r[x] = q[l]
    BY <1>2, <2>3
  <2>5. x \in k..Len(r)
    BY <1>1, <2>4
  <2>. QED  BY <2>2, <2>4, <2>5
<1>5. ASSUME Overruled(q, i), Head(q).t = "accept", Head(q).id = i PROVE Finals(r, i)
  <2>1. PICK l \in 1..Len(q) : Final(q[l], i)
    BY <1>1, <1>5 DEF Overruled
  <2>2. ~Final(q[1], i)
    BY <1>1, <1>5 DEF Final
  <2>3. l # 1
    BY <2>1, <2>2
  <2>. QED  BY <1>2, <2>1, <2>3 DEF Finals
<1>6. Overruled(q, i) => Overruled(r, i)
  BY <1>4 DEF Overruled
<1>. QED  BY <1>3, <1>5, <1>6

LEMMA FinalsConcat ==
    ASSUME NEW q, IsSeq(q), NEW ms, IsSeq(ms), NEW r, r = q \o ms, NEW i
    PROVE  /\ Finals(q, i) \/ Finals(ms, i) => Finals(r, i)
           /\ ~Has(ms, "accept", i) /\ (Overruled(q, i) \/ Finals(ms, i)) => Overruled(r, i)
<1>1. /\ Len(r) = Len(q) + Len(ms) /\ Len(q) \in Nat /\ Len(ms) \in Nat
      /\ \A k \in 1..Len(q) : k \in 1..Len(r) /\ r[k] = q[k]
      /\ \A k \in 1..Len(ms) : r[Len(q) + k] = ms[k]
  <2>1. Concat(q, ms, r)
    BY ConcatOf
  <2>2. Len(q) \in Nat /\ Len(ms) \in Nat
    BY LenOf
  <2>. QED  BY <2>1, <2>2 DEF Concat
<1>2. ASSUME NEW k \in 1..Len(ms) PROVE \E l \in 1..Len(r) : l > Len(q) /\ r[l] = ms[k]
  <2>1. PICK l : l = Len(q) + k
    OBVIOUS
  <2>. QED  BY <1>1, <2>1
<1>3. ASSUME NEW k \in 1..Len(r), ~(k <= Len(q)) PROVE \E l \in 1..Len(ms) : r[k] = ms[l]
  <2>1. PICK l : l = k - Len(q)
    OBVIOUS
  <2>2. l \in 1..Len(ms) /\ Len(q) + l = k
    BY <1>1, <1>3, <2>1
  <2>. QED  BY <1>1, <2>2
<1>4. Finals(q, i) \/ Finals(ms, i) => Finals(r, i)
  BY <1>1, <1>2 DEF Finals
<1>5. ASSUME ~Has(ms, "accept", i), Overruled(q, i) \/ Finals(ms, i),
             NEW k \in 1..Len(r), r[k].t = "accept", r[k].id = i
      PROVE  \E l \in k..Len(r) : Final(r[l], i)
  <2>1. k \in 1..Len(q)
    <3>1. k <= Len(q)
      BY <1>3, <1>5 DEF Has
    <3>. QED  BY <1>1, <3>1
  <2>2. CASE Overruled(q, i)
    <3>1. PICK l \in k..Len(q) : Final(q[l], i)
      BY <1>1, <1>5, <2>1, <2>2 DEF Overruled
    <3>2. l \in 1..Len(q) /\ l \in k..Len(r)
      BY <1>1, <2>1
    <3>. QED  BY <1>1, <3>1, <3>2
  <2>3. CASE Finals(ms, i)
    <3>1. PICK j \in 1..Len(ms) : Final(ms[j], i)
      BY <2>3 DEF Finals
    <3>2. PICK l \in 1..Len(r) : l > Len(q) /\ r[l] = ms[j]
      BY <1>2
    <3>3. l \in k..Len(r)
      BY <1>1, <2>1, <3>2
    <3>. QED  BY <3>1, <3>2, <3>3
  <2>. QED  BY <1>5, <2>2, <2>3
<1>6. ~Has(ms, "accept", i) /\ (Overruled(q, i) \/ Finals(ms, i)) => Overruled(r, i)
  BY <1>5 DEF Overruled
<1>. QED  BY <1>4, <1>6

\* What the receiver says, for the sender to hear of an end.
Hears(ms, i) ==
    /\ Has(ms, "accept", i) => Fresh(i) /\ (Open(i)' \/ Fresh(i)')
    /\ ~Fresh(i) /\ Open(i) /\ ~Open(i)' => Finals(ms, i) \/ ~Lively(i)
    /\ fwd' # fwd /\ Head(fwd).t = "done" /\ Head(fwd).id = i => Finals(ms, i) \/ ~Open(i)

LEMMA HearsEnding ==
    ASSUME Inv, NEW i \in Ids, Ending(i), Fresh(i)' => Fresh(i), NEW ms, ReceiverStep(ms),
           UNCHANGED <<ctl, mayUp>>, Hears(ms, i)
    PROVE  Ending(i)'
<1>1. /\ UNCHANGED <<up, stream, next, ctl, mayUp>>
      /\ fwd' = fwd \/ (fwd # <<>> /\ fwd' = Tail(fwd))
      /\ IsSeq(ms) /\ IsSeq(back) /\ back' = back \o ms /\ IsSeq(fwd)
  BY DEF ReceiverStep, Inv, Shape, Sent
<1>2. (Working(i)' <=> Working(i)) /\ (Lively(i)' <=> Lively(i)) /\ (Working(i) => Lively(i))
  BY <1>1 DEF Working, Lively, With, Running
<1>3. /\ Finals(back, i) \/ Finals(ms, i) => Finals(back', i)
      /\ ~Has(ms, "accept", i) /\ (Overruled(back, i) \/ Finals(ms, i)) => Overruled(back', i)
  BY <1>1, FinalsConcat
<1>4. Awake(i)'
  <2>. SUFFICES ASSUME Working(i)
                PROVE  /\ mayUp' /\ ~Fresh(i)'
                       /\ stream'[i].pc # "none" \/ Has(fwd', "done", i) \/ Finals(back', i)
    BY <1>2 DEF Awake
  <2>1. mayUp' /\ ~Fresh(i) /\ ~Fresh(i)'
    BY <1>1 DEF Ending, Awake
  <2>2. CASE stream[i].pc # "none" \/ Finals(back, i)
    BY <1>1, <1>3, <2>1, <2>2
  <2>3. CASE Has(fwd, "done", i)
    <3>1. Has(fwd', "done", i) \/ (fwd' # fwd /\ Head(fwd).t = "done" /\ Head(fwd).id = i)
      <4>. PICK r : r = fwd'
        OBVIOUS
      <4>1. CASE r = fwd
        BY <2>3, <4>1
      <4>2. CASE r # fwd
        <5>1. Has(r, "done", i) \/ (Head(fwd).t = "done" /\ Head(fwd).id = i)
          BY <1>1, <2>3, <4>2, HasTail
        <5>. QED  BY <4>2, <5>1
      <4>. QED  BY <4>1, <4>2
    <3>2. ~Open(i) => Finals(back, i)
      BY <2>1 DEF Ending, Told
    <3>. QED  BY <1>3, <2>1, <3>1, <3>2 DEF Hears
  <2>. QED  BY <2>1, <2>2, <2>3 DEF Ending, Awake
<1>5. Told(i)'
  <2>. SUFFICES ASSUME ~Fresh(i)', ~Open(i)'
                PROVE  /\ Working(i) => Finals(back', i)
                       /\ Lively(i) => Overruled(back', i)
    BY <1>2 DEF Told
  <2>1. CASE Fresh(i)
    <3>1. ~Working(i) /\ ~Has(back, "accept", i) /\ ~Has(ms, "accept", i)
      BY <2>1 DEF Ending, Awake, Hears, Inv, Stages, Stage
    <3>. QED  BY <1>3, <3>1, NoneOverruled
  <2>2. CASE ~Fresh(i)
    <3>1. ~Has(ms, "accept", i)
      BY <2>2 DEF Hears
    <3>2. CASE ~Open(i)
      BY <1>3, <2>2, <3>1, <3>2 DEF Ending, Told
    <3>3. CASE Open(i)
      BY <1>2, <1>3, <2>2, <3>1, <3>3 DEF Hears
    <3>. QED  BY <3>2, <3>3
  <2>. QED  BY <2>1, <2>2
<1>6. Excused(i)'
  BY <1>1, <1>2 DEF Ending, Excused
<1>. QED  BY <1>4, <1>5, <1>6 DEF Ending

LEMMA AllHear ==
    ASSUME Inv, Endings, Even, NEW ms, ReceiverStep(ms), UNCHANGED <<ctl, mayUp>>,
           \A i \in Ids : Hears(ms, i)
    PROVE  Endings'
<1>1. ASSUME NEW i \in Ids PROVE Ending(i)'
  <2>1. Ending(i) /\ Hears(ms, i) /\ (Fresh(i)' => Fresh(i))
    BY DEF Endings, Even, Steady
  <2>. QED  BY <2>1, HearsEnding
<1>. QED  BY <1>1 DEF Endings

\* What the sender does itself about a transfer.
Notes(i) ==
    /\ Working(i)' => Working(i) /\ mayUp'
    /\ Working(i)' /\ stream[i].pc # "none" => stream'[i].pc # "none" \/ Has(fwd', "done", i)
    /\ Working(i)' /\ Has(fwd, "done", i) => Has(fwd', "done", i)
    /\ Working(i)' /\ back' # back => ~Final(Head(back), i)
    /\ ctl'[i].cancelled => ~Lively(i)' /\ i < next'

LEMMA NotesEnding ==
    ASSUME Inv, NEW i \in Ids, Ending(i), Steady(i), UNCHANGED down,
           back' = back \/ (back # <<>> /\ back' = Tail(back)), Notes(i)
    PROVE  Ending(i)'
<1>1. /\ IsSeq(back) /\ (Open(i)' <=> Open(i)) /\ (Fresh(i)' => Fresh(i)) /\ (Lively(i)' => Lively(i))
  BY DEF Inv, Shape, Sent, Open, Steady
<1>2. /\ Working(i)' /\ Finals(back, i) => Finals(back', i)
      /\ Overruled(back, i) => Overruled(back', i)
      /\ Has(back', "accept", i) => Has(back, "accept", i)
  <2>1. CASE back' = back
    BY <2>1
  <2>2. CASE back' # back
    <3>. PICK r : r = back'
      OBVIOUS
    <3>1. /\ Finals(back, i) => Final(Head(back), i) \/ Finals(r, i)
          /\ Overruled(back, i) => Overruled(r, i)
          /\ Has(r, "accept", i) => Has(back, "accept", i)
      BY <1>1, <2>2, FinalsTail, TailKeeps
    <3>. QED  BY <2>2, <3>1 DEF Notes
  <2>. QED  BY <2>1, <2>2
<1>3. Awake(i)'
  BY <1>1, <1>2 DEF Ending, Awake, Notes
<1>4. Told(i)'
  <2>1. CASE Fresh(i)
    <3>1. ~Working(i)' /\ ~Has(back', "accept", i)
      BY <1>2, <2>1 DEF Ending, Awake, Notes, Inv, Stages, Stage
    <3>. QED  BY <3>1, NoneOverruled DEF Told
  <2>2. CASE ~Fresh(i)
    BY <1>1, <1>2, <2>2 DEF Ending, Told, Notes
  <2>. QED  BY <2>1, <2>2
<1>5. Excused(i)'
  BY DEF Notes, Excused
<1>. QED  BY <1>3, <1>4, <1>5 DEF Ending

LEMMA AllNote ==
    ASSUME Inv, Endings, Even, UNCHANGED down, back' = back \/ (back # <<>> /\ back' = Tail(back)),
           \A i \in Ids : Notes(i)
    PROVE  Endings'
<1>1. ASSUME NEW i \in Ids PROVE Ending(i)'
  BY NotesEnding DEF Endings, Even
<1>. QED  BY <1>1 DEF Endings

LEMMA WorkingLively == \A i : Working(i) => Lively(i)
BY DEF Working, Lively, With, Running

LEMMA WorkingSet ==
    ASSUME Uploads(up), NEW id, NEW st, SetStatus(id, st)
    PROVE  /\ \A i : i # id => (Working(i)' <=> Working(i))
           /\ Working(id)' => st \in {"Active", "Paused"}
           /\ st \in {"Active", "Paused"} /\ id \in DOMAIN up => Working(id)'
           /\ id \notin DOMAIN up => up' = up
<1>1. DOMAIN up' = DOMAIN up
  BY DEF SetStatus
<1>2. \A i \in DOMAIN up : i # id => up'[i] = up[i]
  BY DEF SetStatus
<1>3. id \in DOMAIN up => up'[id].status = st
  BY DEF SetStatus, Uploads
<1>. QED  BY <1>1, <1>2, <1>3 DEF Working, With, SetStatus

LEMMA WorkingCancelled ==
    ASSUME Inv, Endings, NEW S, CancelUp(S), NEW n, n = next', next <= n, n \in Nat,
           \A i \in S \cap Ids : i < n,
           Tasks
    PROVE  /\ \A i : Working(i)' <=> Working(i) /\ i \notin S
           /\ \A i \in Ids : ctl'[i].cancelled => ~Lively(i)' /\ i < n
           /\ Tasks'
<1>1. /\ DOMAIN up' = DOMAIN up
      /\ \A i \in DOMAIN up : up'[i] = IF i \in S THEN [up[i] EXCEPT !.status = "Cancelled"] ELSE up[i]
      /\ Uploads(up) /\ next \in Nat /\ Ids \subseteq Nat
  BY BoundsAssumption DEF CancelUp, Inv, Shape, Ids
<1>2. \A i \in DOMAIN up : i \in S => up'[i].status = "Cancelled"
  BY <1>1 DEF Uploads
<1>3. \A i : Working(i)' <=> Working(i) /\ i \notin S
  BY <1>1, <1>2 DEF Working, With
<1>4. \A i : Lively(i)' <=> Lively(i) /\ i \notin S
  BY <1>1, LivelyCancelled
<1>5. ctl' = [i \in Ids |-> IF i \in S THEN [ctl[i] EXCEPT !.cancelled = TRUE] ELSE ctl[i]]
  BY DEF CancelUp, Cancelled
<1>6. Tasks'
  BY <1>5 DEF Tasks
<1>7. ASSUME NEW i \in Ids, ctl'[i].cancelled PROVE ~Lively(i)' /\ i < n
  <2>1. CASE i \in S
    BY <1>4, <2>1
  <2>2. CASE i \notin S
    <3>1. ctl[i].cancelled
      BY <1>5, <1>7, <2>2
    <3>. QED  BY <1>1, <1>4, <3>1 DEF Endings, Ending, Excused
  <2>. QED  BY <2>1, <2>2
<1>. QED  BY <1>3, <1>6, <1>7

LEMMA FailedIsNot == "Failed" \notin {"Active", "Paused"} /\ "Completed" \notin {"Active", "Paused"}
OBVIOUS

LEMMA StreamsEnding ==
    ASSUME Inv, Endings, Even, NEW id \in Ids, StreamRead(id) \/ StreamResume(id) \/ StreamFails(id)
    PROVE  Endings'
<1>1. /\ UNCHANGED <<next, mode, down, mayUp, back, fwd, ctl>>
      /\ Uploads(up) /\ Streams(stream)
      /\ \A i \in Ids : i # id => stream'[i] = stream[i]
  BY DEF StreamRead, StreamResume, StreamFails, ReadChunk, receiver, perms, disk, world, Inv, Shape, Streams
<1>2. up' = up \/ (SetStatus(id, "Failed") /\ StreamFails(id))
  BY DEF StreamRead, StreamResume, StreamFails
<1>3. (\A i : Working(i)' => Working(i)) /\ (StreamFails(id) => ~Working(id)')
  <2>1. CASE StreamFails(id)
    <3>1. SetStatus(id, "Failed")
      BY <2>1 DEF StreamFails
    <3>2. /\ \A i : i # id => (Working(i)' <=> Working(i))
          /\ Working(id)' => "Failed" \in {"Active", "Paused"}
      BY <1>1, <3>1, WorkingSet
    <3>. QED  BY <3>2
  <2>2. CASE ~StreamFails(id)
    BY <1>2, <2>2 DEF Working, With
  <2>. QED  BY <2>1, <2>2
<1>4. Working(id)' => stream'[id].pc # "none"
  <2>1. CASE StreamFails(id)
    BY <1>3, <2>1
  <2>2. CASE ~StreamFails(id) /\ ctl[id].cancelled /\ StreamRead(id)
    BY <1>3, <2>2, WorkingLively DEF Endings, Ending, Excused
  <2>3. CASE ~StreamFails(id) /\ ~(ctl[id].cancelled /\ StreamRead(id))
    BY <1>1, <2>3 DEF StreamRead, StreamResume, ReadChunk, Streams
  <2>. QED  BY <2>1, <2>2, <2>3
<1>5. ASSUME NEW i \in Ids PROVE Notes(i)
  <2>1. Working(i) => mayUp
    BY DEF Endings, Ending, Awake
  <2>2. ctl'[i].cancelled => ~Lively(i)' /\ i < next'
    BY <1>1 DEF Endings, Ending, Excused, Even, Steady
  <2>. QED  BY <1>1, <1>3, <1>4, <2>1, <2>2 DEF Notes
<1>. QED  BY <1>1, <1>5, AllNote

LEMMA StreamSendEnding ==
    ASSUME Inv, Endings, Even, NEW id \in Ids, StreamSend(id)
    PROVE  Endings'
<1>1. /\ UNCHANGED <<up, next, mode, down, mayUp, back, ctl>>
      /\ Streams(stream) /\ IsSeq(fwd) /\ \A i \in Ids : i # id => stream'[i] = stream[i]
  BY DEF StreamSend, receiver, perms, disk, world, Inv, Shape, Sent, Streams
<1>2. PICK m : fwd' = Append(fwd, m) /\ (stream'[id].pc = "none" => m.t = "done" /\ m.id = id)
  <2>1. PICK a : a = [t |-> "chunk", id |-> id, at |-> stream[id].pos, data |-> stream[id].data]
    OBVIOUS
  <2>2. PICK b : b = [t |-> "done", id |-> id, hash |-> Whole(stream[id].src, version[stream[id].src])]
    OBVIOUS
  <2>3. CASE stream[id].pc = "send"
    <3>1. /\ fwd' = Append(fwd, a)
          /\ stream' = [stream EXCEPT ![id] = [pc |-> "read", src |-> stream[id].src, pos |-> stream[id].pos + 1]]
      BY <2>1, <2>3 DEF StreamSend
    <3>2. stream'[id].pc = "read"
      BY <1>1, <3>1 DEF Streams
    <3>. QED  BY <3>1, <3>2
  <2>4. CASE stream[id].pc # "send"
    <3>1. fwd' = Append(fwd, b)
      BY <2>2, <2>4 DEF StreamSend
    <3>. QED  BY <2>2, <3>1
  <2>. QED  BY <2>3, <2>4
<1>3. \A kind, i : Has(fwd', kind, i) <=> Has(fwd, kind, i) \/ (m.t = kind /\ m.id = i)
  <2>. PICK ms : ms = <<m>>
    OBVIOUS
  <2>1. IsSeq(ms) /\ \A kind, i : Has(ms, kind, i) <=> m.t = kind /\ m.id = i
    BY OneIn
  <2>2. Inserted(fwd, ms, fwd')
    BY <1>1, <1>2, AppendInserts
  <2>. QED  BY <1>1, <2>1, <2>2, InsertedHas
<1>4. ASSUME NEW i \in Ids PROVE Notes(i)
  <2>1. (Working(i)' <=> Working(i)) /\ (Working(i) => mayUp)
    BY <1>1 DEF Endings, Ending, Awake, Working, With
  <2>2. ctl'[i].cancelled => ~Lively(i)' /\ i < next'
    BY <1>1 DEF Endings, Ending, Excused, Even, Steady
  <2>. QED  BY <1>1, <1>2, <1>3, <2>1, <2>2 DEF Notes
<1>. QED  BY <1>1, <1>4, AllNote

\* The permission of the sender changes, or it hears that it did.
LEMMA AllowedUpEnding ==
    ASSUME Inv, Orders, Endings, Tasks, Even, NEW on \in BOOLEAN, NEW told, IsSeq(told), SetAllowedUp(on, told),
           back' = back \/ (back # <<>> /\ back' = Tail(back) /\ Head(back).t = "perm" /\ Head(back).on = on),
           UNCHANGED <<stream, down, next>>
    PROVE  Endings' /\ Tasks'
<1>1. Shape /\ Uploads(up) /\ IsSeq(fwd) /\ next \in Nat
  BY DEF Inv, Shape, Sent
<1>2. PICK ids : /\ ids = (IF on THEN {} ELSE With(Running, up))
                 /\ CancelUp(ids) /\ Tell(Cancels(ids) \o told) /\ mayUp' = on
  BY DEF SetAllowedUp
<1>3. IsFiniteSet(ids)
  BY <1>1, <1>2, RunningFinite, FS_EmptySet
<1>4. PICK c : c = Cancels(ids) \o told
  OBVIOUS
<1>5. IsSeq(c)
  BY <1>3, <1>4, CancelsAndHas
<1>6. Inserted(fwd, c, fwd')
  BY <1>1, <1>2, <1>4, <1>5, OvertakingInserts DEF Tell
<1>7. \A kind, i : Has(fwd, kind, i) => Has(fwd', kind, i)
  BY <1>1, <1>5, <1>6, InsertedHas
<1>8. ~on => \A i : Working(i) => i \in ids
  BY <1>2, WorkingLively DEF Lively
<1>9. \A i \in ids \cap Ids : i < next
  BY <1>2 DEF With, Orders, Order, Sending1
<1>10. /\ \A i : Working(i)' <=> Working(i) /\ i \notin ids
       /\ \A i \in Ids : ctl'[i].cancelled => ~Lively(i)' /\ i < next'
       /\ Tasks'
  <2>1. PICK n : n = next'
    OBVIOUS
  <2>2. next <= n /\ n \in Nat /\ n = next
    BY <1>1, <2>1
  <2>3. /\ \A i : Working(i)' <=> Working(i) /\ i \notin ids
        /\ \A i \in Ids : ctl'[i].cancelled => ~Lively(i)' /\ i < n
        /\ Tasks'
    BY <1>2, <1>9, <2>1, <2>2, WorkingCancelled
  <2>. QED  BY <2>1, <2>3
<1>11. ASSUME NEW i \in Ids PROVE Notes(i)
  <2>1. Working(i)' => Working(i) /\ mayUp'
    BY <1>2, <1>8, <1>10
  <2>2. Working(i)' /\ back' # back => ~Final(Head(back), i)
    BY <1>8, <1>10 DEF Final
  <2>. QED  BY <1>7, <1>10, <2>1, <2>2 DEF Notes
<1>. QED  BY <1>10, <1>11, AllNote

\* What the sender hears about a transfer, except a change of its permission.
LEMMA HeardEnding ==
    ASSUME Inv, Endings, Tasks, Even, back # <<>>, back' = Tail(back),
           UNCHANGED <<down, next, mayUp>>,
           \A kind, i : Has(fwd, kind, i) => Has(fwd', kind, i),
           \A i \in Ids : stream[i].pc # "none" => stream'[i].pc # "none",
           \A i : Working(i)' => Working(i) /\ (i \in Ids => ~Final(Head(back), i)),
           \A i \in Ids : ctl'[i].cancelled => ~Lively(i)' /\ i < next
    PROVE  Endings'
<1>1. ASSUME NEW i \in Ids PROVE Notes(i)
  <2>1. Working(i) => mayUp
    BY DEF Endings, Ending, Awake
  <2>. QED  BY <2>1 DEF Notes
<1>. QED  BY <1>1, AllNote

LEMMA AcceptEnding ==
    ASSUME Inv, Endings, Tasks, Even, back # <<>>, back' = Tail(back), mayUp,
           NEW id \in Ids, Head(back).t = "accept", Head(back).id = id, id \in With({"Pending"}, up),
           up' = [up EXCEPT ![id].status = "Active"],
           NEW w, w.pc = "read", stream' = [stream EXCEPT ![id] = w],
           UNCHANGED <<next, ctl, down, mayUp, fwd>>
    PROVE  Endings'
<1>1. Uploads(up) /\ Streams(stream) /\ IsSeq(back) /\ Stage(id) /\ Ending(id) /\ Steady(id) /\ id \in DOMAIN up
  BY DEF Inv, Shape, Sent, Stages, Endings, Even, With
<1>2. (\A i \in Ids : i # id => stream'[i] = stream[i]) /\ stream'[id].pc = "read"
  BY <1>1 DEF Streams
<1>3. SetStatus(id, "Active")
  BY <1>1 DEF SetStatus
<1>4. \A i : i # id => (Working(i)' <=> Working(i))
  BY <1>1, <1>3, WorkingSet
<1>5. Has(back, "accept", id) /\ Lively(id) /\ ~Fresh(id)
  <2>1. Has(back, "accept", id) /\ Lively(id)
    BY <1>1, HeadHas DEF Lively, With, Running
  <2>. QED  BY <1>1, <2>1 DEF Stage
<1>6. ASSUME NEW i \in Ids, i # id PROVE Ending(i)'
  <2>1. Ending(i) /\ Steady(i)
    BY DEF Endings, Even
  <2>2. Working(i) => mayUp
    BY <2>1 DEF Ending, Awake
  <2>3. ctl'[i].cancelled => ~Lively(i)' /\ i < next'
    BY <2>1 DEF Ending, Excused, Steady
  <2>4. ~Final(Head(back), i)
    BY DEF Final
  <2>5. Notes(i)
    BY <1>2, <1>4, <1>6, <2>2, <2>3, <2>4 DEF Notes
  <2>. QED  BY <2>1, <2>5, NotesEnding
<1>7. Awake(id)'
  <2>1. ~Fresh(id)'
    BY <1>1, <1>5 DEF Steady
  <2>. QED  BY <1>2, <2>1 DEF Awake
<1>8. Told(id)'
  <2>1. ~Open(id)' <=> ~Open(id)
    BY DEF Open
  <2>2. ~Open(id) => Overruled(back, id)
    BY <1>1, <1>5 DEF Ending, Told
  <2>3. Overruled(back, id) => Finals(back', id) /\ Overruled(back', id)
    <3>. PICK r : r = back'
      OBVIOUS
    <3>1. Overruled(back, id) => Finals(r, id) /\ Overruled(r, id)
      BY <1>1, FinalsTail
    <3>. QED  BY <3>1
  <2>. QED  BY <2>1, <2>2, <2>3 DEF Told
<1>9. Excused(id)'
  BY <1>1 DEF Ending, Excused, Steady
<1>10. Ending(id)'
  BY <1>7, <1>8, <1>9 DEF Ending
<1>. QED  BY <1>6, <1>10 DEF Endings

LEMMA OnBackEnding ==
    ASSUME Inv, Orders, Endings, Tasks, Even, OnBack, ~(Head(back).t = "fetch" /\ mayUp)
    PROVE  Endings' /\ Tasks'
<1>. PICK m : m = Head(back)
  OBVIOUS
<1>1. /\ Shape /\ back # <<>> /\ back' = Tail(back) /\ Sent(back, "accept")
      /\ Uploads(up) /\ IsSeq(fwd) /\ IsSeq(back) /\ next \in Nat
  BY DEF Inv, OnBack, Shape, Sent
<1>2. Sound(m) /\ Has(back, m.t, m.id)
  <2>1. Sound(Head(back)) /\ Has(back, Head(back).t, Head(back).id)
    BY <1>1, BackTail, HeadHas
  <2>. QED  BY <2>1
<1>3. /\ ctl' = ctl => Tasks'
      /\ ctl' = ctl /\ next' = next => \A i \in Ids : ctl'[i].cancelled => ~Lively(i)' /\ i < next
  BY DEF Tasks, Endings, Ending, Excused, Even, Steady
<1>4. CASE /\ m.t = "perm" /\ SetAllowedUp(m.on, <<>>)
           /\ UNCHANGED <<stream, mayDown, next, receiver, disk, world>>
  <2>1. UNCHANGED <<stream, down, next>> /\ m.on \in BOOLEAN /\ IsSeq(<<>>)
    BY <1>2, <1>4, EmptyOf DEF receiver, Sound
  <2>. QED  BY <1>1, <1>4, <2>1, AllowedUpEnding
<1>5. CASE /\ m.t = "fetch" /\ ~mayUp /\ Tell(<<[t |-> "reject", id |-> 0]>>)
           /\ UNCHANGED <<manager, next, receiver, perms, disk, world>>
  <2>1. UNCHANGED <<up, stream, ctl, next, down, mayUp>>
    BY <1>5 DEF manager, receiver, perms
  <2>. PICK ms : ms = <<[t |-> "reject", id |-> 0]>>
    OBVIOUS
  <2>2. \A kind, i : Has(fwd, kind, i) => Has(fwd', kind, i)
    <3>1. IsSeq(ms)
      BY SingleOf
    <3>2. Inserted(fwd, ms, fwd')
      BY <1>1, <1>5, <3>1, OvertakingInserts DEF Tell
    <3>. QED  BY <1>1, <3>1, <3>2, InsertedHas
  <2>3. \A i : Working(i)' => Working(i) /\ ~Final(Head(back), i)
    BY <1>5, <2>1 DEF Working, With, Final
  <2>. QED  BY <1>1, <1>3, <2>1, <2>2, <2>3, HeardEnding
<1>6. CASE /\ m.t \notin {"perm", "fetch"} /\ ~mayUp
           /\ UNCHANGED <<fwd, manager, next, receiver, perms, disk, world>>
  <2>1. UNCHANGED <<up, stream, ctl, fwd, next, down, mayUp>>
    BY <1>6 DEF manager, receiver, perms
  <2>2. ASSUME NEW i \in Ids PROVE Notes(i)
    <3>1. ~Working(i) /\ ~Working(i)'
      BY <1>6, <2>1 DEF Endings, Ending, Awake, Working, With
    <3>. QED  BY <1>3, <2>1, <3>1 DEF Notes
  <2>3. Endings'
    BY <1>1, <2>1, <2>2, AllNote
  <2>. QED  BY <1>3, <2>1, <2>3
<1>7. CASE m.t = "accept" /\ mayUp /\ OnAccept(m) /\ UNCHANGED <<receiver, disk, world>>
  <2>1. UNCHANGED <<fwd, next, down, mayUp, ctl>> /\ m.id \in Ids
    BY <1>2, <1>7 DEF OnAccept, receiver, perms, Sound
  <2>2. \A i : ~Final(Head(back), i)
    BY <1>7 DEF Final
  <2>3. CASE UNCHANGED <<up, stream>>
    <3>1. \A i : Working(i)' => Working(i)
      BY <2>3 DEF Working, With
    <3>. QED  BY <1>1, <1>3, <2>1, <2>2, <2>3, <3>1, HeardEnding
  <2>4. CASE up' = [up EXCEPT ![m.id].status = "Failed"] /\ UNCHANGED stream
    <3>1. \A i : Working(i)' => Working(i)
      <4>1. CASE m.id \in DOMAIN up
        <5>1. SetStatus(m.id, "Failed")
          BY <2>4, <4>1 DEF SetStatus
        <5>2. /\ \A i : i # m.id => (Working(i)' <=> Working(i))
              /\ Working(m.id)' => "Failed" \in {"Active", "Paused"}
          BY <1>1, <5>1, WorkingSet
        <5>. QED  BY <5>2
      <4>2. CASE m.id \notin DOMAIN up
        BY <2>4, <4>2 DEF Working, With
      <4>. QED  BY <4>1, <4>2
    <3>. QED  BY <1>1, <1>3, <2>1, <2>2, <2>4, <3>1, HeardEnding
  <2>5. CASE /\ m.id \in With({"Pending"}, up)
             /\ up' = [up EXCEPT ![m.id].status = "Active"]
             /\ stream' = [stream EXCEPT ![m.id] = [pc |-> "read", src |-> up[m.id].src, pos |-> m.from]]
    <3>. PICK id : id = m.id
      OBVIOUS
    <3>. PICK w : w = [pc |-> "read", src |-> up[m.id].src, pos |-> m.from]
      OBVIOUS
    <3>1. w.pc = "read"
      OBVIOUS
    <3>. QED  BY <1>1, <1>3, <1>7, <2>1, <2>5, <3>1, AcceptEnding
  <2>. QED  BY <1>7, <2>3, <2>4, <2>5 DEF OnAccept
<1>8. CASE /\ m.t \in {"reject", "verified"} /\ mayUp
           /\ SetStatus(m.id, IF m.t = "verified" /\ m.ok THEN "Completed" ELSE "Failed")
           /\ UNCHANGED <<fwd, ctl, stream, next, receiver, perms, disk, world>>
  <2>1. UNCHANGED <<fwd, ctl, stream, next, down, mayUp>>
    BY <1>8 DEF receiver, perms
  <2>2. PICK st : st \notin {"Active", "Paused"} /\ SetStatus(m.id, st)
    BY <1>8, FailedIsNot
  <2>3. \A i : Working(i)' => Working(i) /\ i # m.id
    <3>1. /\ \A i : i # m.id => (Working(i)' <=> Working(i))
          /\ Working(m.id)' => st \in {"Active", "Paused"}
      BY <1>1, <2>2, WorkingSet
    <3>. QED  BY <2>2, <3>1
  <2>4. \A i : Working(i)' => Working(i) /\ ~Final(Head(back), i)
    BY <1>8, <2>3 DEF Final
  <2>. QED  BY <1>1, <1>3, <2>1, <2>4, HeardEnding
<1>9. CASE /\ m.t = "cancel" /\ mayUp /\ CancelUp({m.id} \cap DOMAIN up)
           /\ UNCHANGED <<fwd, stream, next, receiver, perms, disk, world>>
  <2>1. UNCHANGED <<fwd, stream, next, down, mayUp>>
    BY <1>9 DEF receiver, perms
  <2>2. PICK S : S = {m.id} \cap DOMAIN up
    OBVIOUS
  <2>3. PICK n : n = next'
    OBVIOUS
  <2>4. next <= n /\ n \in Nat /\ n = next
    BY <1>1, <2>1, <2>3
  <2>5. \A i \in S \cap Ids : i < n
    BY <2>2, <2>4 DEF Orders, Order, Sending1
  <2>6. /\ \A i : Working(i)' <=> Working(i) /\ i \notin S
        /\ \A i \in Ids : ctl'[i].cancelled => ~Lively(i)' /\ i < n
        /\ Tasks'
    <3>1. CancelUp(S)
      BY <1>9, <2>2
    <3>. QED  BY <2>3, <2>4, <2>5, <3>1, WorkingCancelled
  <2>7. \A i : Working(i)' => Working(i) /\ ~Final(Head(back), i)
    BY <1>9, <2>2, <2>6 DEF Final, Working, With
  <2>. QED  BY <1>1, <2>1, <2>4, <2>6, <2>7, HeardEnding
<1>. QED  BY <1>4, <1>5, <1>6, <1>7, <1>8, <1>9 DEF OnBack

-----------------------------------------------------------------------------
(* The receiver's steps *)

\* What is new is answered: accepted with a file, queued, refused, or put before the owner.
LEMMA AnswersEnding ==
    ASSUME Inv, Endings, Even, NEW id \in Ids, Fresh(id), OfferFirst, NEW ms, ReceiverStep(ms),
           UNCHANGED <<ctl, mayUp>>,
           \A i : Has(ms, "accept", i) => i = id /\ Open(id)',
           \A i : i # id /\ Open(i) => Open(i)'
    PROVE  Endings'
<1>1. ASSUME NEW i \in Ids PROVE Hears(ms, i)
  BY DEF Hears, OfferFirst
<1>. QED  BY <1>1, AllHear

\* What a transfer gets when it is accepted has an open file.
LEMMA FileBegins ==
    ASSUME Inv, NEW id \in Ids, NEW s \in Sources, StartIncoming(id, s)
    PROVE  \E w, from : /\ down' = Put(down, id, w) /\ w.file # None
                        /\ w.file.node \in Inodes /\ w.file.path \in Paths
                        /\ Reply(<<[t |-> "accept", id |-> id, from |-> from]>>)
<1>. DEFINE plain  == <<NameOf[s], 0>>
            resume == parts[plain] # 0 /\ targets[plain] = 0
            path   == IF resume THEN plain ELSE UniquePath(NameOf[s])
            node   == IF parts[path] # 0 THEN parts[path] ELSE CHOOSE n \in FreeInodes : TRUE
            length == IF resume THEN Len(inodes[node]) ELSE 0
            kept   == IF length <= SizeOf[s] THEN length ELSE 0
<1>1. PICK f : f = [node |-> node, path |-> path, received |-> kept]
  <2>. HIDE DEF plain, resume, path, node, length, kept
  <2>. QED  OBVIOUS
<1>2. PICK w : w = [src |-> s, status |-> "Active", queued |-> FALSE,
                    cancelled |-> id \in DOMAIN down /\ down[id].cancelled, file |-> f]
  OBVIOUS
<1>3. /\ down' = Put(down, id, w) /\ Reply(<<[t |-> "accept", id |-> id, from |-> kept]>>)
      /\ parts[path] # 0 \/ FreeInodes # {}
  BY <1>1, <1>2, Zenon DEF StartIncoming
<1>4. path \in Paths
  <2>1. plain \in Paths
    BY BoundsAssumption DEF Paths
  <2>2. UniquePath(NameOf[s]) \in Paths
    <3>. PICK n : n = NameOf[s]
      OBVIOUS
    <3>. DEFINE free == {i \in 0..MaxCopies : targets[<<n, i>>] = 0 /\ parts[<<n, i>>] = 0}
    <3>1. free = {} \/ Min(free) \in free
      <4>1. free \subseteq Nat
        OBVIOUS
      <4>. HIDE DEF free
      <4>. QED  BY <4>1, MinOf
    <3>2. PICK i : UniquePath(n) = <<n, i>> /\ i = IF free = {} THEN 0 ELSE Min(free)
      BY DEF UniquePath
    <3>3. i \in 0..MaxCopies
      BY <3>1, <3>2, BoundsAssumption
    <3>. HIDE DEF free
    <3>. QED  BY <3>2, <3>3 DEF Paths
  <2>. HIDE DEF plain
  <2>. QED  BY <2>1, <2>2
<1>. HIDE DEF path
<1>5. node \in Inodes
  <2>1. CASE parts[path] # 0
    BY <1>4, <2>1 DEF Inv, Stored
  <2>2. CASE parts[path] = 0
    <3>1. node \in FreeInodes
      BY <1>3, <2>2
    <3>. QED  BY <3>1 DEF FreeInodes
  <2>. QED  BY <2>1, <2>2
<1>6. kept \in Nat
  <2>1. Len(inodes[node]) \in Nat
    BY <1>5, LenOf DEF Inv, Stored
  <2>. HIDE DEF node, resume
  <2>. QED  BY <2>1
<1>. HIDE DEF node, kept
<1>7. f # None
  <2>1. f \in [node : Inodes, path : Paths, received : Nat]
    BY <1>1, <1>4, <1>5, <1>6
  <2>. QED  BY <2>1, NoFileAssumption
<1>8. w.file = f
  BY <1>2
<1>9. w.file.node \in Inodes /\ w.file.path \in Paths
  BY <1>1, <1>4, <1>5, <1>8
<1>. QED  BY <1>3, <1>7, <1>8, <1>9

\* An open file is one of the directory.
Filed == \A i : Open(i) => down[i].file.node \in Inodes /\ down[i].file.path \in Paths

LEMMA FiledNext ==
    ASSUME Inv, Filed, [Next]_vars
    PROVE  Filed'
<1>1. CASE RowsRest
  <2>1. ASSUME NEW i, Open(i)' PROVE Open(i) /\ SameFile(i)
    BY <1>1, <2>1 DEF RowsRest, Open
  <2>. QED  BY <2>1 DEF Filed, SameFile
<1>2. CASE Begins
  <2>1. PICK id \in Ids, s \in Sources : StartIncoming(id, s)
    BY <1>2 DEF Begins
  <2>2. PICK w : down' = Put(down, id, w) /\ w.file.node \in Inodes /\ w.file.path \in Paths
    BY <2>1, FileBegins
  <2>3. /\ DOMAIN down' = DOMAIN down \cup {id} /\ down'[id] = w
        /\ \A x \in DOMAIN down : x # id => down'[x] = down[x]
    BY <2>2 DEF Put
  <2>. QED  BY <2>2, <2>3 DEF Filed, Open
<1>3. CASE Reconnect
  BY <1>3 DEF Reconnect, Filed, Open
<1>. QED  BY <1>1, <1>2, <1>3, DiskSteps, FinishesRows DEF Rests, Writes

LEMMA StartsEnding ==
    ASSUME Inv, Endings, Even, NEW id \in Ids, Fresh(id), OfferFirst,
           UNCHANGED <<up, stream, mode, next, ctl, mayUp>>, NEW s \in Sources, StartIncoming(id, s)
    PROVE  Endings'
<1>1. PICK w, from : /\ down' = Put(down, id, w) /\ w.file # None
                     /\ Reply(<<[t |-> "accept", id |-> id, from |-> from]>>)
  BY FileBegins
<1>. PICK m : m = [t |-> "accept", id |-> id, from |-> from]
  OBVIOUS
<1>. PICK ms : ms = <<m>>
  OBVIOUS
<1>2. ReceiverStep(ms) /\ \A kind, i : Has(ms, kind, i) <=> kind = "accept" /\ i = id
  <2>1. /\ ReceiverStep(<<m>>)
        /\ \A kind, i : Has(<<m>>, kind, i) <=> m.t = kind /\ m.id = i
    BY <1>1, RepliedStep DEF OfferFirst, Inv
  <2>. QED  BY <2>1
<1>3. /\ DOMAIN down' = DOMAIN down \cup {id} /\ down'[id] = w
      /\ \A x \in DOMAIN down : x # id => down'[x] = down[x]
  BY <1>1 DEF Put
<1>4. Open(id)' /\ \A i : i # id /\ Open(i) => Open(i)'
  BY <1>1, <1>3 DEF Open
<1>. QED  BY <1>2, <1>4, AnswersEnding

LEMMA RefusesEnding ==
    ASSUME Inv, Endings, Even, NEW id \in Ids, Fresh(id), OfferFirst,
           UNCHANGED <<up, stream, mode, next, ctl, mayUp>>, Reply(<<[t |-> "reject", id |-> id]>>),
           \A i : i # id /\ Open(i) => Open(i)'
    PROVE  Endings'
<1>1. PICK m : m = [t |-> "reject", id |-> id]
  OBVIOUS
<1>. PICK ms : ms = <<m>>
  OBVIOUS
<1>2. ReceiverStep(ms) /\ \A kind, i : Has(ms, kind, i) <=> kind = "reject" /\ i = id
  <2>1. /\ ReceiverStep(<<m>>)
        /\ \A kind, i : Has(<<m>>, kind, i) <=> m.t = kind /\ m.id = i
    BY <1>1, RepliedStep DEF OfferFirst, Inv
  <2>. QED  BY <1>1, <2>1
<1>3. \A i : ~Has(ms, "accept", i)
  BY <1>2
<1>. QED  BY <1>2, <1>3, AnswersEnding

LEMMA SilentEnding ==
    ASSUME Inv, Endings, Even, NEW id \in Ids, Fresh(id), OfferFirst,
           UNCHANGED <<up, stream, mode, next, ctl, mayUp, back>>,
           \A i : i # id /\ Open(i) => Open(i)'
    PROVE  Endings'
<1>1. ReceiverStep(<<>>)
  BY SilentStep DEF Inv, OfferFirst
<1>2. \A i : ~Has(<<>>, "accept", i)
  BY NothingIn
<1>. QED  BY <1>1, <1>2, AnswersEnding

LEMMA AnsweredEnding ==
    ASSUME Inv, Endings, Even, NEW id \in Ids, Fresh(id), OfferFirst,
           UNCHANGED <<up, stream, mode, next, ctl, mayUp>>, NEW s \in Sources, AcceptIncoming(id, s)
    PROVE  Endings'
<1>1. CASE StartIncoming(id, s)
  BY <1>1, StartsEnding
<1>2. CASE StartFails(id)
  <2>1. \A i : i # id /\ Open(i) => Open(i)'
    BY <1>2 DEF StartFails, Open
  <2>2. Reply(<<[t |-> "reject", id |-> id]>>)
    BY <1>2 DEF StartFails
  <2>. QED  BY <2>1, <2>2, RefusesEnding
<1>3. CASE /\ down' = Put(down, id, [src |-> s, status |-> "Pending", queued |-> TRUE,
                                     cancelled |-> FALSE, file |-> None])
           /\ UNCHANGED <<back, disk, used>>
  <2>1. \A i : i # id /\ Open(i) => Open(i)'
    BY <1>3 DEF Put, Open
  <2>. QED  BY <1>3, <2>1, SilentEnding
<1>. QED  BY <1>1, <1>2, <1>3 DEF AcceptIncoming

\* A transfer with an open file ends here, and the sender is told.
LEMMA ClosesEnding ==
    ASSUME Inv, Endings, Even, NEW id \in Ids, NEW st, EndsAs(id, st),
           NEW m, m.t \in {"cancel", "verified"}, m.id = id, Reply(<<m>>),
           fwd # <<>>, fwd' = Tail(fwd), Head(fwd).t = "done" => Head(fwd).id = id,
           UNCHANGED <<up, stream, mode, next, mayUp, ctl>>
    PROVE  Endings'
<1>. PICK ms : ms = <<m>>
  OBVIOUS
<1>1. ReceiverStep(ms) /\ \A kind, i : Has(ms, kind, i) <=> m.t = kind /\ i = id
  <2>1. /\ ReceiverStep(<<m>>)
        /\ \A kind, i : Has(<<m>>, kind, i) <=> m.t = kind /\ m.id = i
    BY RepliedStep DEF Inv
  <2>. QED  BY <2>1
<1>2. Finals(ms, id) /\ \A i : ~Has(ms, "accept", i)
  <2>1. Has(ms, m.t, id) /\ m.t # "accept"
    BY <1>1
  <2>2. Finals(ms, id)
    BY <2>1, FinalHas
  <2>. QED  BY <1>1, <2>1, <2>2
<1>3. \A i : i # id /\ Open(i) => Open(i)'
  BY DEF EndsAs, Open
<1>4. ASSUME NEW i \in Ids PROVE Hears(ms, i)
  BY <1>2, <1>3 DEF Hears
<1>. QED  BY <1>1, <1>4, AllHear

\* The receiver says nothing of an end, and no transfer that can go on ends here.
LEMMA PassedEnding ==
    ASSUME Inv, Endings, Even, NEW ms, ReceiverStep(ms), UNCHANGED <<ctl, mayUp>>,
           \A i : ~Has(ms, "accept", i),
           \A i \in Ids : Open(i) => Open(i)' \/ ~Lively(i),
           fwd' # fwd /\ Head(fwd).t = "done" => ~Open(Head(fwd).id)
    PROVE  Endings'
<1>1. ASSUME NEW i \in Ids PROVE Hears(ms, i)
  BY DEF Hears
<1>. QED  BY <1>1, AllHear

\* The permission of the receiver changes, or it hears that it did.
LEMMA AllowedDownEnding ==
    ASSUME Inv, Endings, Even, NEW on \in BOOLEAN, NEW told, IsSeq(told),
           \A i : ~Has(told, "accept", i), SetAllowedDown(on, told),
           fwd' = fwd \/ (fwd # <<>> /\ fwd' = Tail(fwd) /\ Head(fwd).t = "perm"),
           UNCHANGED <<up, stream, mode, next, mayUp, ctl>>
    PROVE  Endings'
<1>1. Shape /\ Rows(down)
  BY DEF Inv, Shape
<1>2. PICK ids : /\ ids = (IF on THEN {} ELSE With(Running, down))
                 /\ CancelDown(ids) /\ Reply(Cancels(ids) \o told)
  BY DEF SetAllowedDown
<1>3. IsFiniteSet(ids)
  BY <1>1, <1>2, RunningFinite, FS_EmptySet
<1>4. PICK ms : ms = Cancels(ids) \o told
  OBVIOUS
<1>5. IsSeq(ms) /\ \A kind, i : Has(ms, kind, i) <=> (kind = "cancel" /\ i \in ids) \/ Has(told, kind, i)
  BY <1>3, <1>4, CancelsAndHas
<1>6. ReceiverStep(ms)
  BY <1>2, <1>4, <1>5 DEF ReceiverStep, Reply
<1>7. DOMAIN down' = DOMAIN down /\ \A i \in DOMAIN down : i \notin ids => down'[i] = down[i]
  BY <1>1, <1>2, CancelledRows
<1>8. ASSUME NEW i \in Ids PROVE Hears(ms, i)
  <2>1. ~Has(ms, "accept", i)
    BY <1>5
  <2>2. i \in ids => Finals(ms, i)
    BY <1>5, FinalHas
  <2>3. i \notin ids /\ Open(i) => Open(i)'
    BY <1>7 DEF Open
  <2>. QED  BY <2>1, <2>2, <2>3 DEF Hears
<1>. QED  BY <1>6, <1>8, AllHear

\* What reaches the receiver is dropped.
LEMMA DroppedEnding ==
    ASSUME Inv, Orders, Endings, Even, fwd # <<>>, fwd' = Tail(fwd),
           UNCHANGED <<up, stream, mode, next, mayUp, ctl, down, back>>,
           Head(fwd).t = "done" => ~mayDown \/ ~Open(Head(fwd).id)
    PROVE  Endings'
<1>1. ReceiverStep(<<>>)
  BY SilentStep DEF Inv
<1>2. \A i : Open(i)' <=> Open(i)
  BY DEF Open
<1>3. Head(fwd).t = "done" => ~Open(Head(fwd).id)
  <2>. SUFFICES ASSUME NEW i, Head(fwd).t = "done", Head(fwd).id = i, Open(i), ~mayDown PROVE FALSE
    OBVIOUS
  <2>1. i \in Ids /\ Order(i) /\ i \in DOMAIN down
    BY DEF Open, Orders, Inv, Shape, Rows
  <2>2. Has(fwd, "done", i)
    BY HeadHas DEF Inv, Shape, Sent
  <2>3. ~TakesOf(down, i)
    BY <2>1, <2>2 DEF Order, Taken1
  <2>4. Halted(i)
    BY <2>3 DEF Open, TakesOf, Halted
  <2>. QED  BY <2>1, <2>2, <2>4 DEF Order, Taken1, Still
<1>. QED  BY <1>1, <1>2, <1>3, NothingIn, PassedEnding

LEMMA OnFwdEnding ==
    ASSUME Inv, Orders, Endings, Filed, Even, OnFwd
    PROVE  Endings'
<1>. PICK m : m = Head(fwd)
  OBVIOUS
<1>1. /\ Shape /\ Numbers /\ fwd # <<>> /\ fwd' = Tail(fwd) /\ Rows(down)
      /\ Sent(fwd, "offer") /\ IsSeq(fwd)
      /\ UNCHANGED <<up, stream, mode, next, ctl>>
  BY DEF Inv, OnFwd, Shape, manager, Sent
<1>2. Sound(m) /\ Has(fwd, m.t, m.id) /\ (mode # "download" => m.t # "perm")
  <2>1. Perms
    BY DEF Inv
  <2>. QED  BY <1>1, <2>1, FwdTail, HeadHas DEF Perms
<1>3. CASE /\ m.t = "perm" /\ SetAllowedDown(m.on, <<>>)
           /\ UNCHANGED <<approvals, starting, mayUp, disk, used>>
  <2>1. m.on \in BOOLEAN /\ IsSeq(<<>>) /\ \A i : ~Has(<<>>, "accept", i)
    BY <1>2, <1>3, EmptyOf, NothingIn DEF Sound
  <2>. QED  BY <1>1, <1>3, <2>1, AllowedDownEnding
<1>4. CASE /\ m.t # "perm" /\ m.t # "offer" /\ ~mayDown
           /\ UNCHANGED <<down, approvals, starting, perms, back, disk, used>>
  BY <1>1, <1>4, DroppedEnding DEF perms
<1>5. CASE m.t = "offer" /\ OnOffer(m) /\ UNCHANGED <<starting, perms>>
  <2>1. mayUp' = mayUp /\ m.id \in Ids /\ m.src \in Sources /\ Fresh(m.id) /\ OfferFirst
    BY <1>1, <1>2, <1>5 DEF perms, Sound, Fresh, OfferFirst
  <2>2. CASE Reply(<<[t |-> "reject", id |-> m.id]>>) /\ UNCHANGED <<down, approvals, disk, used>>
    <3>1. \A i : i # m.id /\ Open(i) => Open(i)'
      BY <2>2 DEF Open
    <3>. QED  BY <1>1, <2>1, <2>2, <3>1, RefusesEnding
  <2>3. CASE UNCHANGED <<down, back, disk, used>>
    <3>1. \A i : i # m.id /\ Open(i) => Open(i)'
      BY <2>3 DEF Open
    <3>. QED  BY <1>1, <2>1, <2>3, <3>1, SilentEnding
  <2>4. CASE AcceptIncoming(m.id, m.src)
    BY <1>1, <2>1, <2>4, AnsweredEnding
  <2>. QED  BY <1>5, <2>2, <2>3, <2>4 DEF OnOffer
<1>6. CASE /\ m.t = "chunk" /\ mayDown /\ OnChunk(m)
           /\ UNCHANGED <<approvals, starting, perms, parts, targets>>
  <2>1. UNCHANGED mayUp
    BY <1>6 DEF perms
  <2>2. CASE ~Takes(m.id)
    <3>1. UNCHANGED <<down, back>>
      BY <1>6, <2>2 DEF OnChunk
    <3>. QED  BY <1>1, <1>6, <2>1, <3>1, DroppedEnding
  <2>3. CASE Takes(m.id) /\ FailChunk(m.id)
    <3>. PICK id, c : id = m.id /\ c = [t |-> "cancel", id |-> id]
      OBVIOUS
    <3>1. id \in Ids
      BY <1>1, <2>3 DEF Takes, Rows
    <3>2. EndsAs(id, "Failed") /\ Reply(<<c>>)
      BY <2>3 DEF FailChunk, EndsAs
    <3>3. c.t \in {"cancel", "verified"} /\ c.id = id
      OBVIOUS
    <3>4. /\ fwd # <<>> /\ fwd' = Tail(fwd) /\ Head(fwd).t # "done"
          /\ UNCHANGED <<up, stream, mode, next, mayUp, ctl>>
      BY <1>1, <1>6, <2>1
    <3>. QED  BY <3>1, <3>2, <3>3, <3>4, ClosesEnding
  <2>4. CASE /\ Takes(m.id)
             /\ down' = [down EXCEPT ![m.id].file.received = @ + 1]
             /\ UNCHANGED back
    <3>. PICK id : id = m.id
      OBVIOUS
    <3>1. /\ id \in DOMAIN down /\ RowOk(down[id]) /\ id \in Ids
      BY <1>1, <2>4 DEF Rows, Takes
    <3>2. ASSUME NEW i \in Ids, Open(i) PROVE Open(i)' \/ ~Lively(i)
      <4>1. CASE i # id
        BY <2>4, <3>2, <4>1 DEF Open
      <4>2. CASE i = id
        <5>1. PICK f : f = down[id].file
          OBVIOUS
        <5>2. PICK g : g = [f EXCEPT !.received = f.received + 1]
          OBVIOUS
        <5>3. DOMAIN f = {"node", "path", "received"} /\ f.received \in Nat /\ f.node \in Inodes /\ f.path \in Paths
          BY <2>4, <3>1, <5>1 DEF RowOk, Takes, Filed, Open
        <5>4. g # None
          <6>1. g \in [node : Inodes, path : Paths, received : Nat]
            BY <5>2, <5>3
          <6>. QED  BY <6>1, NoFileAssumption
        <5>5. down' = [down EXCEPT ![id].file = g]
          BY <2>4, <3>1, <5>1, <5>2 DEF RowOk
        <5>6. down'[id].file = g /\ DOMAIN down' = DOMAIN down
          BY <3>1, <5>5 DEF RowOk
        <5>7. Open(id)'
          BY <3>1, <5>4, <5>6 DEF Open
        <5>. QED  BY <4>2, <5>7
      <4>. QED  BY <4>1, <4>2
    <3>3. ReceiverStep(<<>>)
      BY <1>1, <2>4, SilentStep
    <3>. QED  BY <1>6, <2>1, <1>1, <3>2, <3>3, NothingIn, PassedEnding
  <2>. QED  BY <1>6, <2>2, <2>3, <2>4 DEF OnChunk
<1>7. CASE m.t = "done" /\ mayDown /\ OnDone(m) /\ UNCHANGED <<approvals, perms, inodes, used>>
  <2>1. UNCHANGED mayUp
    BY <1>7 DEF perms
  <2>2. CASE ~Open(m.id)
    <3>1. UNCHANGED <<down, back>>
      BY <1>7, <2>2 DEF OnDone, Open
    <3>. QED  BY <1>1, <1>7, <2>1, <2>2, <3>1, DroppedEnding
  <2>3. CASE Open(m.id)
    <3>1. PICK id, ok : id = m.id /\ ok = Finish(down[m.id].file, SizeOf[down[m.id].src], m.hash)
      OBVIOUS
    <3>2. PICK st, c : st = (IF ok THEN "Completed" ELSE "Failed") /\ c = [t |-> "verified", id |-> id, ok |-> ok]
      OBVIOUS
    <3>3. id \in Ids /\ id \in DOMAIN down /\ RowOk(down[id])
      BY <1>1, <2>3, <3>1 DEF Open, Rows
    <3>4. down' = [down EXCEPT ![id].file = None, ![id].status = st] /\ Reply(<<c>>)
      BY <1>7, <2>3, <3>1, <3>2 DEF OnDone, Open
    <3>5. EndsAs(id, st)
      <4>1. [[down[id] EXCEPT !.file = None] EXCEPT !.status = st]
              = [[down[id] EXCEPT !.status = st] EXCEPT !.file = None]
        BY <3>3 DEF RowOk
      <4>. QED  BY <3>3, <3>4, <4>1 DEF EndsAs
    <3>6. c.t \in {"cancel", "verified"} /\ c.id = id /\ Reply(<<c>>)
      BY <3>2, <3>4
    <3>7. /\ fwd # <<>> /\ fwd' = Tail(fwd) /\ Head(fwd).id = id
          /\ UNCHANGED <<up, stream, mode, next, mayUp, ctl>>
      BY <1>1, <1>7, <2>1, <3>1
    <3>. QED  BY <3>3, <3>5, <3>6, <3>7, ClosesEnding
  <2>. QED  BY <2>2, <2>3
<1>8. CASE /\ m.t = "cancel" /\ mayDown /\ CancelDown({m.id})
           /\ UNCHANGED <<approvals, starting, perms, back, disk, used>>
  <2>1. UNCHANGED <<mayUp, back>>
    BY <1>8 DEF perms
  <2>2. ReceiverStep(<<>>)
    BY <1>1, <2>1, SilentStep
  <2>3. ASSUME NEW i \in Ids, Open(i) PROVE Open(i)' \/ ~Lively(i)
    <3>1. CASE i = m.id
      BY <1>2, <1>8, <3>1 DEF Orders, Order, Sending1
    <3>2. CASE i # m.id
      <4>1. down'[i] = down[i] /\ DOMAIN down' = DOMAIN down
        BY <1>8, <2>3, <3>2 DEF CancelDown, Open
      <4>. QED  BY <2>3, <4>1 DEF Open
    <3>. QED  BY <3>1, <3>2
  <2>. QED  BY <1>1, <1>8, <2>1, <2>2, <2>3, NothingIn, PassedEnding
<1>9. CASE /\ m.t = "reject" /\ mayDown
           /\ UNCHANGED <<down, approvals, starting, perms, back, disk, used>>
  BY <1>1, <1>9, DroppedEnding DEF perms
<1>. QED  BY <1>3, <1>4, <1>5, <1>6, <1>7, <1>8, <1>9 DEF OnFwd

LEMMA RespondEnding ==
    ASSUME Inv, Endings, Even, NEW id \in Ids, NEW accept, Respond(id, accept)
    PROVE  Endings'
<1>1. /\ id \in DOMAIN approvals
      /\ UNCHANGED <<up, stream, ctl, mayUp, fwd, mode, next>>
  BY DEF Respond, manager, perms
<1>2. approvals[id] \in Sources /\ OfferFirst /\ Fresh(id)
  BY <1>1 DEF Inv, Shape, Asked, OfferFirst, Fresh
<1>3. CASE AcceptIncoming(id, approvals[id])
  BY <1>1, <1>2, <1>3, AnsweredEnding
<1>4. CASE Reply(<<[t |-> "reject", id |-> id]>>) /\ UNCHANGED <<down, disk, used>>
  <2>1. \A i : i # id /\ Open(i) => Open(i)'
    BY <1>4 DEF Open
  <2>. QED  BY <1>1, <1>2, <1>4, <2>1, RefusesEnding
<1>. QED  BY <1>3, <1>4 DEF Respond

LEMMA StartQueuedEnding ==
    ASSUME Inv, Endings, Even, StartQueued
    PROVE  Endings'
<1>1. OfferFirst /\ UNCHANGED <<up, stream, ctl, mayUp, fwd, mode, next>>
  BY DEF StartQueued, manager, perms, OfferFirst
<1>2. ASSUME NEW id \in DOMAIN down, down[id].queued,
             StartIncoming(id, down[id].src) \/ StartFails(id)
      PROVE  Endings'
  <2>1. id \in Ids /\ down[id].src \in Sources /\ Fresh(id)
    BY <1>2 DEF Inv, Shape, Rows, RowOk, Fresh
  <2>2. CASE StartIncoming(id, down[id].src)
    BY <1>1, <2>1, <2>2, StartsEnding
  <2>3. CASE StartFails(id)
    <3>1. \A i : i # id /\ Open(i) => Open(i)'
      BY <2>3 DEF StartFails, Open
    <3>2. Reply(<<[t |-> "reject", id |-> id]>>)
      BY <2>3 DEF StartFails
    <3>. QED  BY <1>1, <2>1, <3>1, <3>2, RefusesEnding
  <2>. QED  BY <1>2, <2>2, <2>3
<1>3. CASE UNCHANGED <<down, back, disk, used>>
  <2>1. ReceiverStep(<<>>)
    BY <1>1, <1>3, SilentStep DEF Inv
  <2>2. \A i : Open(i)' <=> Open(i)
    BY <1>3 DEF Open
  <2>. QED  BY <1>1, <2>1, <2>2, NothingIn, PassedEnding
<1>. QED  BY <1>2, <1>3 DEF StartQueued

LEMMA DownloadEnding ==
    ASSUME Inv, Endings, Even, NEW s \in Sources, Download(s)
    PROVE  Endings'
<1>. PICK m : m = [t |-> "fetch", id |-> 0, src |-> s]
  OBVIOUS
<1>1. UNCHANGED <<up, stream, ctl, down, mayUp, fwd, mode, next>> /\ Reply(<<m>>) /\ m.t = "fetch"
  BY DEF Download, manager, perms, disk, world
<1>2. PICK ms : ms = <<m>>
  OBVIOUS
<1>3. ReceiverStep(ms) /\ \A kind, i : Has(ms, kind, i) <=> m.t = kind /\ m.id = i
  BY <1>1, <1>2, RepliedStep DEF Inv
<1>4. \A i : (Open(i)' <=> Open(i)) /\ ~Has(ms, "accept", i)
  BY <1>1, <1>3 DEF Open
<1>. QED  BY <1>1, <1>3, <1>4, PassedEnding

-----------------------------------------------------------------------------
(* The people at both ends, and new sessions *)

LEMMA TogglesEnding ==
    ASSUME Inv, Orders, Endings, Tasks, Even, NEW id \in Ids, ViewerPauses(id) \/ ViewerResumes(id),
           UNCHANGED <<fwd, back, stream, mayUp, mode, next>>
    PROVE  Endings' /\ Tasks'
<1>1. Rows(down) /\ Uploads(up)
  BY DEF Inv, Shape
<1>2. CASE mode = "download"
  <2>1. PICK st : id \in DOMAIN down /\ down' = [down EXCEPT ![id].status = st] /\ UNCHANGED <<up, ctl>>
    BY <1>2 DEF ViewerPauses, ViewerResumes, With
  <2>2. /\ DOMAIN down' = DOMAIN down /\ \A x \in DOMAIN down : down'[x].file = down[x].file
    BY <1>1, <2>1 DEF Rows, RowOk
  <2>3. \A i : Open(i)' <=> Open(i)
    BY <2>2 DEF Open
  <2>4. ReceiverStep(<<>>)
    BY <2>1, SilentStep DEF Inv
  <2>5. Endings'
    BY <2>1, <2>3, <2>4, NothingIn, PassedEnding
  <2>. QED  BY <2>1, <2>5 DEF Tasks
<1>3. CASE mode # "download"
  <2>1. PICK st, b : /\ id \in With({"Active", "Paused"}, up) /\ up' = [up EXCEPT ![id].status = st]
                     /\ ctl' = [ctl EXCEPT ![id].paused = b] /\ down' = down
    BY <1>3 DEF ViewerPauses, ViewerResumes, With
  <2>2. \A i : Working(i)' => Working(i)
    <3>1. SetStatus(id, st)
      BY <2>1 DEF SetStatus, With
    <3>2. \A i : i # id => (Working(i)' <=> Working(i))
      BY <1>1, <3>1, WorkingSet
    <3>. QED  BY <2>1, <3>2 DEF Working
  <2>3. /\ DOMAIN ctl' = Ids
        /\ \A i \in Ids : "cancelled" \in DOMAIN ctl'[i] /\ ctl'[i].cancelled = ctl[i].cancelled
    BY <2>1 DEF Tasks
  <2>4. ASSUME NEW i \in Ids PROVE Notes(i)
    <3>1. Working(i) => mayUp
      BY DEF Endings, Ending, Awake
    <3>2. ctl'[i].cancelled => ~Lively(i)' /\ i < next'
      BY <2>3 DEF Endings, Ending, Excused, Even, Steady
    <3>. QED  BY <2>2, <3>1, <3>2 DEF Notes
  <2>5. Endings'
    BY <2>1, <2>4, AllNote
  <2>. QED  BY <2>3, <2>5 DEF Tasks
<1>. QED  BY <1>2, <1>3

LEMMA ViewerCancelsEnding ==
    ASSUME Inv, Orders, Endings, Tasks, Even, NEW id \in Ids, ViewerCancels(id),
           UNCHANGED <<stream, mayUp, mode, next>>
    PROVE  Endings' /\ Tasks'
<1>1. Rows(down) /\ IsSeq(fwd) /\ IsSeq(back) /\ next \in Nat
  BY DEF Inv, Shape, Sent
<1>. PICK S : S = {id}
  OBVIOUS
<1>. PICK c : c = Cancels(S)
  OBVIOUS
<1>2. IsFiniteSet(S) /\ IsSeq(c)
  BY FS_Singleton, CancelsOf
<1>3. \A kind, i : Has(c, kind, i) <=> kind = "cancel" /\ i = id
  BY <1>2, CancelsHas
<1>4. CASE mode = "download"
  <2>1. CancelDown(S) /\ back' = back \o c /\ UNCHANGED <<up, ctl, fwd>>
    BY <1>4 DEF ViewerCancels, Reply
  <2>2. ReceiverStep(c)
    BY <1>2, <2>1 DEF ReceiverStep
  <2>3. DOMAIN down' = DOMAIN down /\ \A i \in DOMAIN down : i \notin S => down'[i] = down[i]
    BY <1>1, <2>1, CancelledRows
  <2>4. ASSUME NEW i \in Ids PROVE Hears(c, i)
    <3>1. i = id => Finals(c, i)
      BY <1>3, FinalHas
    <3>2. i # id /\ Open(i) => Open(i)'
      BY <2>3 DEF Open
    <3>3. ~Has(c, "accept", i)
      BY <1>3
    <3>4. fwd' = fwd
      BY <2>1
    <3>. HIDE <1>3
    <3>. QED  BY <3>1, <3>2, <3>3, <3>4 DEF Hears
  <2>5. Endings'
    BY <2>1, <2>2, <2>4, AllHear
  <2>. QED  BY <2>1, <2>5 DEF Tasks
<1>5. CASE mode # "download"
  <2>1. CancelUp(S) /\ Tell(c) /\ UNCHANGED <<down, back>> /\ id \in DOMAIN up
    BY <1>5 DEF ViewerCancels, With
  <2>2. \A kind, i : Has(fwd, kind, i) => Has(fwd', kind, i)
    <3>1. Inserted(fwd, c, fwd')
      BY <1>1, <1>2, <2>1, OvertakingInserts DEF Tell
    <3>. QED  BY <1>1, <1>2, <3>1, InsertedHas
  <2>3. PICK n : n = next'
    OBVIOUS
  <2>4. next <= n /\ n \in Nat /\ n = next
    BY <1>1, <2>3
  <2>5. \A i \in S \cap Ids : i < n
    BY <2>1, <2>4 DEF Orders, Order, Sending1
  <2>6. /\ \A i : Working(i)' <=> Working(i) /\ i \notin S
        /\ \A i \in Ids : ctl'[i].cancelled => ~Lively(i)' /\ i < n
        /\ Tasks'
    BY <2>1, <2>3, <2>4, <2>5, WorkingCancelled
  <2>7. ASSUME NEW i \in Ids PROVE Notes(i)
    <3>1. Working(i) => mayUp
      BY DEF Endings, Ending, Awake
    <3>. QED  BY <2>1, <2>2, <2>3, <2>6, <3>1 DEF Notes
  <2>8. Endings'
    BY <2>1, <2>7, AllNote
  <2>. QED  BY <2>6, <2>8
<1>. QED  BY <1>4, <1>5

LEMMA SetPermissionEnding ==
    ASSUME Inv, Orders, Endings, Tasks, Even, NEW on \in BOOLEAN, SetPermission(on)
    PROVE  Endings' /\ Tasks'
<1>. PICK m : m = [t |-> "perm", on |-> on]
  OBVIOUS
<1>. PICK told : told = <<m>>
  OBVIOUS
<1>1. UNCHANGED <<stream, mode, next>>
  BY DEF SetPermission
<1>2. IsSeq(told) /\ \A kind, i : Has(told, kind, i) => kind = "perm"
  <2>1. IsSeq(told) /\ \A kind, i : Has(told, kind, i) <=> m.t = kind /\ m.id = i
    BY OneIn
  <2>. QED  BY <2>1
<1>3. CASE mode = "download"
  <2>1. SetAllowedUp(on, told) /\ UNCHANGED <<down, mayDown, back>>
    BY <1>3 DEF SetPermission
  <2>. QED  BY <1>1, <1>2, <2>1, AllowedUpEnding
<1>4. CASE mode # "download"
  <2>1. SetAllowedDown(on, told) /\ UNCHANGED <<up, mayUp, fwd, ctl>>
    BY <1>4 DEF SetPermission
  <2>2. Endings'
    BY <1>1, <1>2, <2>1, AllowedDownEnding
  <2>. QED  BY <2>1, <2>2 DEF Tasks
<1>. QED  BY <1>3, <1>4

\* A new transfer is offered; the others go on as they are.
LEMMA OneMoreEnding ==
    ASSUME Inv, Orders, Endings, Tasks, NEW s \in Sources, NEW tbl, OneMore(s, tbl)
    PROVE  Endings' /\ Tasks'
<1>. PICK n : n = next
  OBVIOUS
<1>. PICK m : m = [t |-> "offer", id |-> n, src |-> s]
  OBVIOUS
<1>. PICK ms : ms = <<m>>
  OBVIOUS
<1>1. /\ next' = n + 1 /\ fwd' \in Overtaking(fwd, ms) /\ UNCHANGED <<stream, down, mayUp, ctl>>
      /\ up' = Put(tbl, n, [src |-> s, status |-> "Pending"])
      /\ back' = back \/ (back # <<>> /\ back' = Tail(back) /\ Head(back).t = "fetch")
  BY DEF OneMore, Offer, Tell, receiver, perms
<1>2. /\ \A i \in Ids \ {n} : Steady(i)
      /\ \A i \in Ids \ {n} : i \in DOMAIN up' => up'[i] = up[i] /\ i \in DOMAIN up
      /\ n \in Ids
  <2>1. /\ \A i \in Ids \ {next} : Steady(i)
        /\ \A i \in Ids : i \in DOMAIN up' => i = next \/ i \in DOMAIN tbl
        /\ \A i \in Ids \ {next} : i \in DOMAIN up' => up'[i] = up[i]
        /\ next \in Ids
    BY OfferEven DEF OneMore
  <2>2. DOMAIN tbl \subseteq DOMAIN up
    BY DEF OneMore
  <2>. QED  BY <2>1, <2>2
<1>3. n \in Nat /\ IsSeq(fwd)
  BY DEF Inv, Shape, Sent
<1>4. \A kind, i : Has(fwd', kind, i) <=> Has(fwd, kind, i) \/ (m.t = kind /\ m.id = i)
  <2>1. IsSeq(ms) /\ \A kind, i : Has(ms, kind, i) <=> m.t = kind /\ m.id = i
    BY OneIn
  <2>2. Inserted(fwd, ms, fwd')
    BY <1>1, <1>3, <2>1, OvertakingInserts
  <2>. QED  BY <1>3, <2>1, <2>2, InsertedHas
<1>5. ASSUME NEW i \in Ids, i # n PROVE Ending(i)'
  <2>1. Working(i)' => Working(i)
    BY <1>2, <1>5 DEF Working, With
  <2>2. Ending(i) /\ Steady(i)
    BY <1>2, <1>5 DEF Endings
  <2>3. Working(i) => mayUp
    BY <2>2 DEF Ending, Awake
  <2>4. ctl'[i].cancelled => ~Lively(i)' /\ i < next'
    BY <1>1, <1>3, <2>2, BoundsAssumption DEF Ending, Excused, Steady, Ids
  <2>5. back' # back => ~Final(Head(back), i)
    BY <1>1 DEF Final
  <2>6. Notes(i)
    BY <1>1, <1>4, <2>1, <2>3, <2>4, <2>5 DEF Notes
  <2>. QED  BY <1>1, <2>2, <2>6, NotesEnding
<1>6. Ending(n)'
  <2>1. Fresh(n)'
    <3>1. Has(fwd', "offer", n)
      BY <1>4
    <3>. QED  BY <3>1 DEF Fresh
  <2>2. ~Working(n)'
    <3>1. PICK w : w = [src |-> s, status |-> "Pending"]
      OBVIOUS
    <3>2. up'[n] = w
      BY <1>1, <3>1 DEF Put
    <3>. QED  BY <3>1, <3>2 DEF Working, With
  <2>3. ~ctl'[n].cancelled
    BY <1>1, <1>2, <1>3 DEF Endings, Ending, Excused
  <2>. QED  BY <2>1, <2>2, <2>3 DEF Ending, Awake, Told, Excused
<1>. QED  BY <1>1, <1>5, <1>6 DEF Endings, Tasks

LEMMA NewEndings == New /\ ctl = FreshCtl => Endings /\ Tasks /\ Filed
<1>. SUFFICES ASSUME New, ctl = FreshCtl PROVE Endings /\ Tasks /\ Filed
  OBVIOUS
<1>1. /\ DOMAIN up = {} /\ DOMAIN down = {} /\ next = 1
      /\ \A i \in Ids : ctl[i] = [paused |-> FALSE, cancelled |-> FALSE]
      /\ DOMAIN ctl = Ids
  BY DEF New, FreshCtl
<1>2. Tasks /\ Filed
  BY <1>1 DEF Tasks, Filed, Open
<1>3. ASSUME NEW i \in Ids PROVE Ending(i)
  <2>1. ~Working(i) /\ ~Lively(i)
    BY <1>1 DEF Working, Lively, With
  <2>2. Fresh(i)
    BY <1>1, BoundsAssumption DEF Ids, Fresh
  <2>3. ~ctl[i].cancelled
    BY <1>1
  <2>. QED  BY <2>1, <2>2, <2>3 DEF Ending, Awake, Told, Excused
<1>. QED  BY <1>2, <1>3 DEF Endings

LEMMA OrdinaryEnding ==
    ASSUME Inv, Orders, Endings, Tasks, Filed, Ordinary
    PROVE  Endings' /\ Tasks'
<1>1. Even
  BY OrdinaryEven
<1>2. CASE UNCHANGED <<up, stream, down, ctl, mayUp, fwd, back, mode, next>>
  <2>1. ReceiverStep(<<>>)
    BY <1>2, SilentStep DEF Inv
  <2>2. \A i : Open(i)' <=> Open(i)
    BY <1>2 DEF Open
  <2>3. Endings'
    BY <1>1, <1>2, <2>1, <2>2, NothingIn, PassedEnding
  <2>. QED  BY <1>2, <2>3 DEF Tasks
<1>3. ASSUME NEW s \in Sources, EditSource(s) PROVE UNCHANGED <<up, stream, down, ctl, mayUp, fwd, back, mode, next>>
  BY <1>3 DEF EditSource, manager, receiver, perms
<1>4. ASSUME WindowCloses PROVE UNCHANGED <<up, stream, down, ctl, mayUp, fwd, back, mode, next>>
  BY <1>4 DEF WindowCloses, manager, perms, world
<1>5. ASSUME UNCHANGED vars PROVE UNCHANGED <<up, stream, down, ctl, mayUp, fwd, back, mode, next>>
  BY <1>5 DEF vars
<1>6. ASSUME NEW id \in Ids, Viewer(id) PROVE Endings' /\ Tasks'
  <2>1. UNCHANGED <<stream, mayUp, mode, next>>
    BY <1>6 DEF Viewer, perms, world
  <2>. QED  BY <1>1, <1>6, <2>1, TogglesEnding, ViewerCancelsEnding DEF Viewer
<1>7. ASSUME ctl' = ctl PROVE Tasks'
  BY <1>7 DEF Tasks
<1>8. ASSUME NEW s \in Sources, Download(s) PROVE Endings' /\ Tasks'
  BY <1>1, <1>7, <1>8, DownloadEnding DEF Download, manager
<1>9. ASSUME NEW id \in Ids, NEW accept, Respond(id, accept) PROVE Endings' /\ Tasks'
  BY <1>1, <1>7, <1>9, RespondEnding DEF Respond, manager
<1>10. ASSUME NEW id \in Ids, StreamRead(id) \/ StreamResume(id) \/ StreamFails(id) \/ StreamSend(id)
       PROVE  Endings' /\ Tasks'
  <2>1. ctl' = ctl
    BY <1>10 DEF StreamRead, StreamResume, StreamFails, StreamSend
  <2>. QED  BY <1>1, <1>7, <1>10, <2>1, StreamsEnding, StreamSendEnding
<1>11. ASSUME OnFwd PROVE Endings' /\ Tasks'
  BY <1>1, <1>7, <1>11, OnFwdEnding DEF OnFwd, manager
<1>12. ASSUME StartQueued PROVE Endings' /\ Tasks'
  BY <1>1, <1>7, <1>12, StartQueuedEnding DEF StartQueued, manager
<1>13. ASSUME OnBack, ~(Head(back).t = "fetch" /\ mayUp) PROVE Endings' /\ Tasks'
  BY <1>1, <1>13, OnBackEnding
<1>14. ASSUME NEW on \in BOOLEAN, SetPermission(on) PROVE Endings' /\ Tasks'
  BY <1>1, <1>14, SetPermissionEnding
<1>. QED  BY <1>2, <1>3, <1>4, <1>5, <1>6, <1>8, <1>9, <1>10, <1>11, <1>12, <1>13, <1>14 DEF Ordinary

LEMMA EndingsNext ==
    ASSUME Inv, Orders, Endings, Tasks, Filed, [Next]_vars
    PROVE  Endings' /\ Tasks' /\ Filed'
<1>1. CASE Ordinary
  BY <1>1, OrdinaryEnding, FiledNext
<1>2. CASE Reconnect
  <2>1. (New /\ ctl = FreshCtl)'
    BY <1>2 DEF New, Reconnect
  <2>. QED  BY <2>1, NewEndings, PTL
<1>3. ASSUME NEW s \in Sources, NEW tbl, OneMore(s, tbl) PROVE Endings' /\ Tasks' /\ Filed'
  BY <1>3, OneMoreEnding, FiledNext
<1>. QED  BY <1>1, <1>2, <1>3, EveryStep

\* Once nothing is on its way and no task runs, no transfer of the sender is left
\* running: whoever ended it at the other end (a failed chunk, a withdrawn permission, a
\* refused or a verified file) has told the sender, for every number of transfers.
THEOREM QuietIsSettled == Spec => []QuietMeansSettled
<1>1. Init => Endings /\ Tasks /\ Filed
  <2>1. Init => New /\ ctl = FreshCtl
    BY DEF Init, New
  <2>. QED  BY <2>1, NewEndings
<1>2. Inv /\ Orders /\ Endings /\ Tasks /\ Filed /\ [Next]_vars => (Endings /\ Tasks /\ Filed)'
  BY EndingsNext
<1>3. Inv /\ Endings => QuietMeansSettled
  <2>. SUFFICES ASSUME Inv, Endings, Quiet, NEW i, i \in With({"Active", "Paused"}, up) PROVE FALSE
    BY DEF QuietMeansSettled
  <2>1. i \in Ids /\ Working(i)
    BY DEF With, Working, Inv, Shape, Uploads
  <2>2. ~Has(fwd, "done", i) /\ ~Finals(back, i)
    BY EmptyOf DEF Quiet, Has, Finals
  <2>3. stream[i].pc = "none"
    BY <2>1 DEF Quiet
  <2>. QED  BY <2>1, <2>2, <2>3 DEF Endings, Ending, Awake
<1>. QED  BY <1>1, <1>2, <1>3, TransfersStayInOrder, TransfersStayApart, PTL DEF Spec
=============================================================================
