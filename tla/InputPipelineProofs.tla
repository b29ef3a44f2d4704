------------------------ MODULE InputPipelineProofs ------------------------
(***************************************************************************)
(* Proofs about InputPipeline, for every number of keys, buttons, displays *)
(* and events: type correctness, the order in which clicks and keys reach  *)
(* the host, the release of what is held when a permission is taken away   *)
(* or the session ends, and the bound on the backlog of movement.          *)
(***************************************************************************)
EXTENDS InputPipeline, FiniteSetTheorems, SequenceTheorems, TLAPS

-----------------------------------------------------------------------------
(* Type correctness *)

LEMMA ItemsMade ==
    /\ HostRelease \in Items
    /\ Other \in Items
    /\ \A n \in Nat : [seq |-> n, ev |-> [kind |-> "move"]] \in Items
    /\ \A n \in Nat, e \in Events : [seq |-> n, ev |-> e] \in Items
    /\ [kind |-> "move"] \in Events
BY DEF Items, HostRelease, Other, Events

LEMMA StampType ==
    /\ \A it \in Items : it.seq \in Nat
    /\ \A s \in Seq(Items) : \A i \in DOMAIN s : s[i] \in Items /\ s[i].seq \in Nat
<1>1. ASSUME NEW it \in Items PROVE it.seq \in Nat
  <2>1. CASE it \in [seq : Nat, ev : Events]
    BY <2>1
  <2>2. CASE it = Other
    BY <2>2 DEF Other
  <2>. QED  BY <2>1, <2>2 DEF Items
<1>2. \A s \in Seq(Items) : \A i \in DOMAIN s : s[i] \in Items
  OBVIOUS
<1>. QED  BY <1>1, <1>2

LEMMA HoldType ==
    ASSUME NEW it \in Items, it.ev.kind \in {"down", "up"}
    PROVE  it.ev.hold \in Holds
<1>1. it # Other
  BY DEF Other
<1>2. it.ev \in Events
  BY <1>1 DEF Items
<1>. QED  BY <1>2 DEF Events

LEMMA PushCtlType ==
    ASSUME NEW q \in Seq(Items), NEW it \in Items
    PROVE  PushCtl(q, it) \in Seq(Items) /\ PushCtl(q, it) # <<>>
<1>1. CASE IsMove(it) /\ q # <<>> /\ IsMove(q[Len(q)])
  <2>1. PushCtl(q, it) = [q EXCEPT ![Len(q)] = it]
    BY <1>1 DEF PushCtl
  <2>2. Len(q) \in 1..Len(q)
    BY <1>1
  <2>. QED  BY <2>1, <2>2
<1>2. CASE ~(IsMove(it) /\ q # <<>> /\ IsMove(q[Len(q)]))
  BY <1>2 DEF PushCtl
<1>. QED  BY <1>1, <1>2

LEMMA HeadTailType ==
    ASSUME NEW s \in Seq(Items), s # <<>>
    PROVE  Head(s) \in Items /\ Tail(s) \in Seq(Items)
OBVIOUS

\* The state of every queue, task and thread keeps its type.
THEOREM TypeCorrect == Spec => []TypeOK
<1>1. Init => TypeOK
  <2>. SUFFICES ASSUME Init PROVE TypeOK
    OBVIOUS
  <2>1. notifying \in BOOLEAN
    BY DEF Init
  <2>. QED  BY <2>1, NoItemAssumption, DisplaysAssumption DEF Init, TypeOK, Perms
<1>2. TypeOK /\ [Next]_vars => TypeOK'
  <2>. SUFFICES ASSUME TypeOK, [Next]_vars PROVE TypeOK'
    OBVIOUS
  <2>. USE ItemsMade, NoItemAssumption
  <2>1. CASE SendMove
    BY <2>1 DEF TypeOK, SendMove, writerVars, threadVars, sessionVars
  <2>2. ASSUME NEW e \in Events, SendEvent(e) PROVE TypeOK'
    BY <2>2 DEF TypeOK, SendEvent, writerVars, threadVars, sessionVars
  <2>3. CASE SendEventItem
    BY <2>3 DEF TypeOK, SendEventItem, writerVars, threadVars, sessionVars
  <2>4. CASE SendOther
    BY <2>4 DEF TypeOK, SendOther, writerVars, threadVars, sessionVars
  <2>5. CASE Drain
    <3>1. Head(ctl) \in Items /\ Tail(ctl) \in Seq(Items)
      BY <2>5, HeadTailType DEF TypeOK, Drain
    <3>2. PushCtl(queue, Head(ctl)) \in Seq(Items) /\ PushCtl(queue, Head(ctl)) # <<>>
      BY <3>1, PushCtlType DEF TypeOK
    <3>. QED  BY <2>5, <3>1, <3>2 DEF TypeOK, Drain, viewerVars, threadVars, sessionVars
  <2>6. CASE DrainDone
    BY <2>6 DEF TypeOK, DrainDone, viewerVars, threadVars, sessionVars
  <2>7. CASE TakeSlot
    <3>1. queue' \in Seq(Items) /\ (queue' = <<>> => queue = <<>> /\ wpc' # "reserve")
      BY <2>7, PushCtlType DEF TypeOK, TakeSlot
    <3>2. wpc' \in {"send", "select", "reserve"} /\ (wpc' = "send" => queue' # <<>>)
      BY <2>7, <3>1 DEF TypeOK, TakeSlot
    <3>3. slot' = NoItem
          /\ UNCHANGED <<log, sending, notifying, others, ctl, wake, link, conn, route,
                         threadVars, sessionVars>>
      BY <2>7 DEF TakeSlot
    <3>. QED  BY <3>1, <3>2, <3>3 DEF TypeOK, threadVars, sessionVars
  <2>8. CASE WaitCtl
    <3>1. Head(ctl) \in Items /\ Tail(ctl) \in Seq(Items)
      BY <2>8, HeadTailType DEF TypeOK, WaitCtl
    <3>2. PushCtl(queue, Head(ctl)) \in Seq(Items) /\ PushCtl(queue, Head(ctl)) # <<>>
      BY <3>1, PushCtlType DEF TypeOK
    <3>. QED  BY <2>8, <3>1, <3>2 DEF TypeOK, WaitCtl, viewerVars, threadVars, sessionVars
  <2>9. CASE WaitWake
    BY <2>9 DEF TypeOK, WaitWake, viewerVars, threadVars, sessionVars
  <2>10. CASE Reserve
    BY <2>10 DEF TypeOK, Reserve, viewerVars, threadVars, sessionVars
  <2>11. CASE Transmit
    BY <2>11, HeadTailType DEF TypeOK, Transmit, viewerVars, threadVars, sessionVars
  <2>12. CASE LinkLost
    BY <2>12 DEF TypeOK, LinkLost, viewerVars, writerVars, threadVars, sessionVars
  <2>13. CASE Deliver
    <3>1. Head(link) \in Items /\ Tail(link) \in Seq(Items)
      BY <2>13, HeadTailType DEF TypeOK, Deliver
    <3>2. Append(route, Head(link)) \in Seq(Items)
      BY <3>1 DEF TypeOK
    <3>3. route' \in Seq(Items) /\ conn' \in {"up", "down"} /\ link' \in Seq(Items)
      BY <2>13, <3>1, <3>2 DEF TypeOK, Deliver
    <3>. QED  BY <2>13, <3>3 DEF TypeOK, Deliver, viewerVars, writerVars, threadVars, sessionVars
  <2>14. CASE Recv
    BY <2>14 DEF TypeOK, Recv, viewerVars, writerVars, sessionVars
  <2>15. CASE Timeout
    BY <2>15 DEF TypeOK, Timeout, viewerVars, writerVars, sessionVars
  <2>16. CASE CheckStop
    BY <2>16 DEF TypeOK, CheckStop, viewerVars, writerVars, sessionVars
  <2>17. CASE NextItem
    <3>1. Head(batch) \in Items /\ Tail(batch) \in Seq(Items)
      BY <2>17, HeadTailType DEF TypeOK, NextItem
    <3>2. Head(batch).seq \in Nat /\ Append(handled, Head(batch).seq) \in Seq(Nat)
      BY <3>1, StampType DEF TypeOK
    <3>3. lastMove' \in Nat /\ handled' \in Seq(Nat)
      BY <2>17, <3>1, <3>2 DEF TypeOK, NextItem
    <3>4. (hpc' = "loop" /\ cur' = NoItem) \/ (hpc' = "apply" /\ cur' = Head(batch))
      BY <2>17 DEF TypeOK, NextItem
    <3>5. batch' = Tail(batch)
          /\ UNCHANGED <<viewerVars, ctl, wake, writerVars, link, conn, route, held, sessionVars>>
      BY <2>17 DEF NextItem
    <3>. QED
      BY <3>1, <3>3, <3>4, <3>5 DEF TypeOK, viewerVars, writerVars, sessionVars
  <2>18. CASE Apply
    <3>1. cur \in Items
      BY <2>18 DEF TypeOK, Apply
    <3>2. HeldAfter(cur.ev, held) \subseteq Holds
      BY <3>1, HoldType DEF TypeOK, HeldAfter
    <3>. QED  BY <2>18, <3>2 DEF TypeOK, Apply, viewerVars, writerVars, sessionVars
  <2>19. CASE BatchDone
    BY <2>19 DEF TypeOK, BatchDone, viewerVars, writerVars, sessionVars
  <2>20. ASSUME NEW new \in Perms, SetPermissions(new) PROVE TypeOK'
    <3>1. perms' \in Perms
      BY <2>20 DEF TypeOK, SetPermissions, Perms
    <3>2. change' \in [keyboard : BOOLEAN, active : Nat]
      BY <2>20 DEF TypeOK, SetPermissions, Perms
    <3>3. spc' \in {"grant", "revoke"} /\ changes' \in Nat
      BY <2>20 DEF TypeOK, SetPermissions
    <3>4. UNCHANGED <<viewerVars, ctl, wake, writerVars, link, conn, route, threadVars,
                      displays, active>>
      BY <2>20 DEF SetPermissions
    <3>. QED
      BY <3>1, <3>2, <3>3, <3>4 DEF TypeOK, viewerVars, writerVars, threadVars
  <2>21. CASE StoreKeyboard
    <3>1. perms' \in Perms /\ spc' \in {"release", "run"}
      BY <2>21 DEF TypeOK, StoreKeyboard, Perms
    <3>2. UNCHANGED <<viewerVars, ctl, wake, writerVars, link, conn, route, threadVars,
                      change, displays, active, changes>>
      BY <2>21 DEF StoreKeyboard
    <3>. QED  BY <3>1, <3>2 DEF TypeOK, viewerVars, writerVars, threadVars
  <2>22. CASE RouteRelease
    BY <2>22 DEF TypeOK, RouteRelease, viewerVars, writerVars, threadVars
  <2>23. ASSUME NEW n \in 1..MaxDisplays, NEW a \in 0..(MaxDisplays - 1), SetDisplays(n, a)
         PROVE TypeOK'
    <3>1. n \in Nat /\ a \in Nat
      BY DisplaysAssumption
    <3>2. change' \in [keyboard : BOOLEAN, active : Nat]
      BY <2>23, <3>1 DEF TypeOK, SetDisplays
    <3>. QED
      BY <2>23, <3>1, <3>2 DEF TypeOK, SetDisplays, viewerVars, writerVars, threadVars
  <2>24. CASE StoreActive
    BY <2>24 DEF TypeOK, StoreActive, viewerVars, writerVars, threadVars
  <2>25. ASSUME NEW i \in 0..(MaxDisplays - 1), SelectDisplay(i) PROVE TypeOK'
    BY <2>25, DisplaysAssumption DEF TypeOK, SelectDisplay, viewerVars, writerVars, threadVars
  <2>26. CASE EndSession
    BY <2>26 DEF TypeOK, EndSession, viewerVars, writerVars, threadVars
  <2>27. CASE Joined
    BY <2>27 DEF TypeOK, Joined, viewerVars, writerVars, threadVars
  <2>28. CASE UNCHANGED vars
    BY <2>28 DEF TypeOK, vars, viewerVars, writerVars, threadVars, sessionVars
  <2>29. CASE Notify
    <3>1. wake' = 1 /\ notifying' = FALSE
          /\ UNCHANGED <<log, slot, sending, others, ctl, writerVars, link, conn, route, threadVars,
                         sessionVars>>
      BY <2>29 DEF Notify
    <3>2. notifying' \in BOOLEAN /\ wake' \in {0, 1}
      BY <3>1
    <3>3. UNCHANGED <<log, slot, sending, others, ctl, wpc, queue, link, conn, route, hpc, batch,
                      cur, lastMove, handled, held, spc, change, perms, displays, active, changes>>
      BY <3>1 DEF writerVars, threadVars, sessionVars
    <3>. QED  BY <3>2, <3>3 DEF TypeOK
  <2>30. CASE Poll
    BY <2>30 DEF TypeOK, Poll, viewerVars, threadVars, sessionVars
  <2>. QED
    BY <2>1, <2>2, <2>3, <2>4, <2>5, <2>6, <2>7, <2>8, <2>9, <2>10, <2>11, <2>12, <2>13,
       <2>14, <2>15, <2>16, <2>17, <2>18, <2>19, <2>20, <2>21, <2>22, <2>23, <2>24,
       <2>25, <2>26, <2>27, <2>28, <2>29, <2>30
       DEF Next, Writer, InputThread, SessionLoop
<1>. QED  BY <1>1, <1>2, PTL DEF Spec

-----------------------------------------------------------------------------
(* Intervals of stamps *)

\* An item takes the interval b + 1 to m with it: it is its only kept stamp.
Covers(lg, it, b, m) ==
    /\ b <= m
    /\ IsKept(it) => b < it.seq /\ it.seq = m /\ KeptIn(lg, m)
    /\ \A n \in (b + 1)..m : KeptIn(lg, n) => IsKept(it) /\ n = it.seq

LEMMA CarriesNothing ==
    ASSUME NEW lg, NEW a \in Nat
    PROVE  Carries(lg, <<>>, a, a)
BY DEF Carries

\* Making an event leaves the stamps made before as they were.
LEMMA CarriesLog ==
    ASSUME NEW lg \in Seq(Events), NEW e \in Events, NEW s \in Seq(Items),
           NEW a \in Nat, NEW b \in Nat, b <= Len(lg), Carries(lg, s, a, b)
    PROVE  Carries(Append(lg, e), s, a, b)
<1>1. \A n \in Nat : n <= Len(lg) => (KeptIn(Append(lg, e), n) <=> KeptIn(lg, n))
  BY DEF KeptIn
<1>2. \A i \in DOMAIN s : s[i].seq \in Nat
  BY StampType
<1>3. ASSUME NEW i \in DOMAIN s, IsKept(s[i])
      PROVE  a < s[i].seq /\ s[i].seq <= b /\ KeptIn(Append(lg, e), s[i].seq)
  <2>1. a < s[i].seq /\ s[i].seq <= b /\ KeptIn(lg, s[i].seq)
    BY <1>3 DEF Carries
  <2>. QED  BY <2>1, <1>1, <1>2
<1>4. ASSUME NEW n \in (a + 1)..b, KeptIn(Append(lg, e), n)
      PROVE  \E i \in DOMAIN s : IsKept(s[i]) /\ s[i].seq = n
  <2>1. n \in Nat /\ n <= Len(lg)
    OBVIOUS
  <2>2. KeptIn(lg, n)
    BY <2>1, <1>1, <1>4
  <2>. QED  BY <2>2 DEF Carries
<1>. QED  BY <1>3, <1>4 DEF Carries

\* The interval may grow over stamps that are not kept, at either end.
LEMMA CarriesWider ==
    ASSUME NEW lg \in Seq(Events), NEW s \in Seq(Items),
           NEW a \in Nat, NEW b \in Nat, NEW c \in Nat, NEW d \in Nat,
           a <= b, b <= c, c <= d, Carries(lg, s, b, c),
           \A n \in (a + 1)..b : ~KeptIn(lg, n), \A n \in (c + 1)..d : ~KeptIn(lg, n)
    PROVE  Carries(lg, s, a, d)
<1>1. \A i \in DOMAIN s : s[i].seq \in Nat
  BY StampType
<1>2. ASSUME NEW n \in (a + 1)..d, KeptIn(lg, n)
      PROVE  n \in (b + 1)..c
  <2>1. n \in (a + 1)..b \/ n \in (b + 1)..c \/ n \in (c + 1)..d
    OBVIOUS
  <2>. QED  BY <2>1, <1>2
<1>3. ASSUME NEW i \in DOMAIN s, IsKept(s[i])
      PROVE  a < s[i].seq /\ s[i].seq <= d /\ KeptIn(lg, s[i].seq)
  <2>1. b < s[i].seq /\ s[i].seq <= c /\ KeptIn(lg, s[i].seq)
    BY <1>3 DEF Carries
  <2>. QED  BY <2>1, <1>1
<1>. QED  BY <1>2, <1>3 DEF Carries

LEMMA CarriesAfter ==
    ASSUME NEW lg \in Seq(Events), NEW s \in Seq(Items),
           NEW a \in Nat, NEW b \in Nat, NEW m \in Nat, a <= b, b <= m,
           Carries(lg, s, a, b), \A n \in (b + 1)..m : ~KeptIn(lg, n)
    PROVE  Carries(lg, s, a, m)
<1>1. \A n \in (a + 1)..a : ~KeptIn(lg, n)
  OBVIOUS
<1>. QED  BY <1>1, CarriesWider

LEMMA CarriesAppend ==
    ASSUME NEW lg \in Seq(Events), NEW s \in Seq(Items), NEW it \in Items,
           NEW a \in Nat, NEW b \in Nat, NEW m \in Nat, a <= b,
           Carries(lg, s, a, b), Covers(lg, it, b, m)
    PROVE  Carries(lg, Append(s, it), a, m)
<1>. DEFINE t == Append(s, it)
<1>1. /\ DOMAIN t = 1..(Len(s) + 1) /\ DOMAIN s = 1..Len(s) /\ Len(s) \in Nat
      /\ t[Len(s) + 1] = it /\ \A i \in DOMAIN s : t[i] = s[i]
  OBVIOUS
<1>2. it.seq \in Nat /\ \A i \in DOMAIN s : s[i].seq \in Nat
  BY StampType
<1>3. \A i \in DOMAIN t : IsKept(t[i]) => a < t[i].seq /\ t[i].seq <= m /\ KeptIn(lg, t[i].seq)
  BY <1>1, <1>2 DEF Carries, Covers
<1>4. \A i, j \in DOMAIN t : i < j /\ IsKept(t[i]) /\ IsKept(t[j]) => t[i].seq < t[j].seq
  BY <1>1, <1>2 DEF Carries, Covers
<1>5. ASSUME NEW n \in (a + 1)..m, KeptIn(lg, n)
      PROVE  \E i \in DOMAIN t : IsKept(t[i]) /\ t[i].seq = n
  <2>1. CASE n \in (a + 1)..b
    BY <2>1, <1>1, <1>5 DEF Carries
  <2>2. CASE n \in (b + 1)..m
    <3>1. IsKept(it) /\ n = it.seq
      BY <2>2, <1>5 DEF Covers
    <3>. QED  BY <3>1, <1>1
  <2>. QED  BY <2>1, <2>2
<1>. HIDE DEF t
<1>6. Carries(lg, t, a, m)
  BY <1>3, <1>4, <1>5 DEF Carries
<1>. QED  BY <1>6 DEF t

\* A movement that replaces a movement changes nothing of what is kept.
LEMMA CarriesPush ==
    ASSUME NEW lg \in Seq(Events), NEW s \in Seq(Items), NEW it \in Items,
           NEW a \in Nat, NEW b \in Nat, NEW m \in Nat, a <= b,
           Carries(lg, s, a, b), Covers(lg, it, b, m)
    PROVE  Carries(lg, PushCtl(s, it), a, m)
<1>1. CASE IsMove(it) /\ s # <<>> /\ IsMove(s[Len(s)])
  <2>. DEFINE t == [s EXCEPT ![Len(s)] = it]
  <2>0. Len(s) \in 1..Len(s) /\ DOMAIN s = 1..Len(s)
    BY <1>1
  <2>1. t \in Seq(Items) /\ DOMAIN t = DOMAIN s
    BY <2>0
  <2>2. \A i \in DOMAIN s : t[i] = IF i = Len(s) THEN it ELSE s[i]
    BY <2>0
  <2>3. ~IsKept(it) /\ ~IsKept(s[Len(s)])
    BY <1>1 DEF IsKept
  <2>. HIDE DEF t
  <2>4. ASSUME NEW i \in DOMAIN s
        PROVE  (IsKept(t[i]) => IsKept(s[i])) /\ (IsKept(s[i]) => t[i] = s[i])
    BY <2>2, <2>3
  <2>5. Carries(lg, t, a, b)
    <3>1. \A i \in DOMAIN t : IsKept(t[i]) => a < t[i].seq /\ t[i].seq <= b /\ KeptIn(lg, t[i].seq)
      BY <2>1, <2>4 DEF Carries
    <3>2. \A i, j \in DOMAIN t : i < j /\ IsKept(t[i]) /\ IsKept(t[j]) => t[i].seq < t[j].seq
      BY <2>1, <2>4 DEF Carries
    <3>3. \A n \in (a + 1)..b : KeptIn(lg, n) => \E i \in DOMAIN t : IsKept(t[i]) /\ t[i].seq = n
      BY <2>1, <2>4 DEF Carries
    <3>. QED  BY <3>1, <3>2, <3>3 DEF Carries
  <2>6. \A n \in (b + 1)..m : ~KeptIn(lg, n)
    BY <2>3 DEF Covers
  <2>7. Carries(lg, t, a, m)
    BY <2>1, <2>5, <2>6, CarriesWider DEF Covers
  <2>. QED  BY <2>7, <1>1 DEF PushCtl, t
<1>2. CASE ~(IsMove(it) /\ s # <<>> /\ IsMove(s[Len(s)]))
  BY <1>2, CarriesAppend DEF PushCtl
<1>. QED  BY <1>1, <1>2

\* The head of a stage takes the first part of its interval with it.
LEMMA CarriesHead ==
    ASSUME NEW lg \in Seq(Events), NEW s \in Seq(Items), s # <<>>,
           NEW b \in Nat, NEW c \in Nat, b <= c, Carries(lg, s, b, c)
    PROVE  \E m \in Nat : /\ Covers(lg, Head(s), b, m) /\ m <= c
                          /\ Carries(lg, Tail(s), m, c)
<1>. DEFINE it == Head(s)
            t == Tail(s)
            m == IF IsKept(it) THEN it.seq ELSE b
<1>1. /\ it = s[1] /\ 1 \in DOMAIN s /\ it \in Items /\ t \in Seq(Items)
      /\ \A i \in DOMAIN t : i + 1 \in DOMAIN s /\ t[i] = s[i + 1] /\ i \in Nat /\ 1 < i + 1
      /\ \A i \in DOMAIN s : i = 1 \/ (i - 1 \in DOMAIN t /\ t[i - 1] = s[i] /\ 1 < i)
  OBVIOUS
<1>2. \A i \in DOMAIN s : s[i].seq \in Nat
  BY StampType
<1>3. m \in Nat /\ m <= c /\ b <= m
  BY <1>1, <1>2 DEF Carries
<1>4. ASSUME NEW n \in (b + 1)..m, KeptIn(lg, n)
      PROVE  IsKept(it) /\ n = it.seq
  <2>1. IsKept(it) /\ m = it.seq /\ n <= it.seq
    BY <1>3, <1>4
  <2>2. PICK i \in DOMAIN s : IsKept(s[i]) /\ s[i].seq = n
    BY <1>3, <1>4 DEF Carries
  <2>3. i = 1 \/ s[1].seq < s[i].seq
    BY <2>1, <2>2, <1>1 DEF Carries
  <2>. QED  BY <2>1, <2>2, <2>3, <1>1, <1>2
<1>5. Covers(lg, it, b, m)
  BY <1>1, <1>2, <1>3, <1>4 DEF Covers, Carries
<1>6. \A i \in DOMAIN t : IsKept(t[i]) => m < t[i].seq /\ t[i].seq <= c /\ KeptIn(lg, t[i].seq)
  BY <1>1, <1>2 DEF Carries
<1>7. \A i, j \in DOMAIN t : i < j /\ IsKept(t[i]) /\ IsKept(t[j]) => t[i].seq < t[j].seq
  BY <1>1 DEF Carries
<1>8. ASSUME NEW n \in (m + 1)..c, KeptIn(lg, n)
      PROVE  \E i \in DOMAIN t : IsKept(t[i]) /\ t[i].seq = n
  <2>1. PICK i \in DOMAIN s : IsKept(s[i]) /\ s[i].seq = n
    BY <1>3, <1>8 DEF Carries
  <2>2. i # 1
    BY <2>1, <1>1, <1>3, <1>8
  <2>. QED  BY <2>1, <2>2, <1>1
<1>. HIDE DEF m, t, it
<1>9. Carries(lg, t, m, c)
  BY <1>6, <1>7, <1>8 DEF Carries
<1>. QED  BY <1>3, <1>5, <1>9 DEF t, it

LEMMA CoversNothing ==
    ASSUME NEW lg, NEW b \in Nat, NEW it, ~IsKept(it)
    PROVE  Covers(lg, it, b, b)
BY DEF Covers

\* A movement leaves no kept stamp behind at the end of an interval.
LEMMA NothingAfter ==
    ASSUME NEW lg, NEW b \in Nat, NEW it, NEW m \in Nat, Covers(lg, it, b, m), ~IsKept(it)
    PROVE  \A n \in (b + 1)..m : ~KeptIn(lg, n)
BY DEF Covers

-----------------------------------------------------------------------------
(* Order *)

flowVars == <<log, handled, batch, route, link, queue, ctl, sending>>

LEMMA OrderInit == Init => OrderInv
<1>. SUFFICES ASSUME Init PROVE Intervals(0, 0, 0, 0, 0, 0)
  BY DEF Init, OrderInv
<1>1. Carries(<<>>, <<>>, 0, 0) /\ Taken(<<>>, <<>>, 0)
  BY CarriesNothing DEF Taken
<1>. QED  BY <1>1 DEF Init, Intervals

LEMMA OrderSame ==
    ASSUME OrderInv, UNCHANGED <<flowVars, slot>>, hpc = "exited" => hpc' = "exited"
    PROVE  OrderInv'
<1>1. ASSUME hpc' # "exited"
      PROVE  \E h, b, r, l, q, c \in Nat : Intervals(h, b, r, l, q, c)'
  <2>1. PICK h, b, r, l, q, c \in Nat : Intervals(h, b, r, l, q, c)
    BY <1>1 DEF OrderInv
  <2>2. Intervals(h, b, r, l, q, c)'
    BY <2>1 DEF Intervals, flowVars
  <2>. QED  BY <2>2
<1>. QED  BY <1>1 DEF OrderInv, flowVars

\* Making an event widens the last interval, or fills the hands of send_input.
LEMMA OrderMake ==
    ASSUME TypeOK, OrderInv, SendMove \/ \E e \in Events : SendEvent(e)
    PROVE  OrderInv'
<1>1. PICK e \in Events : log' = Append(log, e) /\ sending = NoItem
  BY ItemsMade DEF SendMove, SendEvent, Idle
<1>2. /\ UNCHANGED <<handled, batch, route, link, queue, hpc>>
      /\ slot' # NoItem => IsMove(slot')
  BY DEF SendMove, SendEvent, IsMove, writerVars, threadVars
<1>3. ASSUME hpc' # "exited"
      PROVE  \E h, b, r, l, q, c \in Nat : Intervals(h, b, r, l, q, c)'
  <2>1. PICK h, b, r, l, q, c \in Nat : Intervals(h, b, r, l, q, c)
    BY <1>2, <1>3 DEF OrderInv
  <2>2. /\ h <= b /\ b <= r /\ r <= l /\ l <= q /\ q <= c /\ c = Len(log)
        /\ Len(log') = Len(log) + 1
    BY <2>1, <1>1 DEF Intervals, TypeOK
  <2>3. /\ Carries(log', batch, h, b) /\ Carries(log', route, b, r) /\ Carries(log', link, r, l)
        /\ Carries(log', queue, l, q) /\ Carries(log', ctl, q, c)
    BY <2>1, <2>2, <1>1, CarriesLog DEF Intervals, TypeOK
  <2>4. Taken(log', handled, h)
    <3>1. \A n \in 1..h : KeptIn(log', n) => KeptIn(log, n)
      BY <2>2, <1>1 DEF KeptIn, TypeOK
    <3>. QED  BY <3>1, <2>1 DEF Taken, Intervals
  <2>5. log' \in Seq(Events)
    BY <1>1 DEF TypeOK
  <2>6. CASE SendMove
    <3>0. log' = Append(log, [kind |-> "move"])
      BY <2>6 DEF SendMove
    <3>1. ctl' = ctl /\ sending' = NoItem /\ log'[c + 1] = [kind |-> "move"]
      BY <2>6, <2>2, <3>0, <1>1, ItemsMade DEF SendMove, TypeOK
    <3>2. \A n \in (c + 1)..(c + 1) : ~KeptIn(log', n)
      BY <3>1 DEF KeptIn
    <3>3. c + 1 \in Nat /\ c <= c + 1 /\ ctl \in Seq(Items)
      BY DEF TypeOK
    <3>4. Carries(log', ctl, q, c + 1)
      BY <2>2, <2>3, <2>5, <3>2, <3>3, CarriesAfter
    <3>5. Intervals(h, b, r, l, q, c + 1)'
      BY <1>2, <2>2, <2>3, <2>4, <3>1, <3>4 DEF Intervals
    <3>. QED  BY <3>5
  <2>7. ASSUME NEW x \in Events, SendEvent(x)
        PROVE  Intervals(h, b, r, l, q, c)'
    <3>1. Carries(log', ctl', q, c)
      <4>1. CASE slot = NoItem
        BY <4>1, <2>3, <2>7 DEF SendEvent
      <4>2. CASE slot # NoItem
        <5>1. ctl' = Append(ctl, slot) /\ slot \in Items /\ ~IsKept(slot)
          BY <4>2, <2>7 DEF SendEvent, TypeOK, OrderInv, IsKept
        <5>2. Covers(log', slot, c, c)
          BY <5>1, CoversNothing
        <5>. QED  BY <5>1, <5>2, <2>2, <2>3, <2>5, CarriesAppend DEF TypeOK
      <4>. QED  BY <4>1, <4>2
    <3>2. /\ sending' = [seq |-> Len(log) + 1, ev |-> x] /\ sending' # NoItem /\ x.kind # "move"
          /\ log' = Append(log, x)
      BY <2>7, ItemsMade, NoItemAssumption DEF SendEvent, TypeOK
    <3>3. sending'.seq = Len(log') /\ IsKept(sending') /\ KeptIn(log', Len(log'))
      BY <3>2, <2>2 DEF IsKept, IsMove, KeptIn, TypeOK
    <3>. QED  BY <1>2, <2>2, <2>3, <2>4, <3>1, <3>2, <3>3 DEF Intervals
  <2>. QED  BY <2>6, <2>7
<1>. QED  BY <1>2, <1>3 DEF OrderInv

\* An item that moves from one stage to the next takes its interval with it.
LEMMA OrderMove ==
    ASSUME TypeOK, OrderInv, hpc' # "exited",
           SendEventItem \/ SendOther \/ Drain \/ TakeSlot \/ WaitCtl \/ Transmit
             \/ Deliver \/ RouteRelease
    PROVE  OrderInv'
<1>1. /\ UNCHANGED <<log, handled, batch, hpc>> /\ hpc # "exited"
      /\ slot' # NoItem => IsMove(slot')
  BY DEF SendEventItem, SendOther, Drain, TakeSlot, WaitCtl, Transmit, Deliver, RouteRelease,
         OrderInv, viewerVars, threadVars
<1>2. PICK h, b, r, l, q, c \in Nat : Intervals(h, b, r, l, q, c)
  BY <1>1 DEF OrderInv
<1>3. h <= b /\ b <= r /\ r <= l /\ l <= q /\ q <= c
  BY <1>2 DEF Intervals
<1>. SUFFICES \E h1, b1, r1, l1, q1, c1 \in Nat : Intervals(h1, b1, r1, l1, q1, c1)'
  BY <1>1 DEF OrderInv
<1>4. CASE SendEventItem
  <2>1. /\ ctl' = Append(ctl, sending) /\ sending' = NoItem /\ sending \in Items
        /\ UNCHANGED <<queue, link, route>>
    BY <1>4 DEF SendEventItem, TypeOK, writerVars
  <2>2. c + 1 = Len(log) /\ sending.seq = c + 1 /\ IsKept(sending) /\ KeptIn(log, c + 1)
    BY <1>2, <1>4 DEF Intervals, SendEventItem
  <2>3. Covers(log, sending, c, c + 1)
    BY <2>2 DEF Covers
  <2>4. Carries(log, ctl', q, c + 1)
    BY <2>1, <2>3, <1>2, <1>3, CarriesAppend DEF Intervals, TypeOK
  <2>5. Intervals(h, b, r, l, q, c + 1)'
    BY <1>1, <1>2, <2>1, <2>2, <2>4 DEF Intervals
  <2>. QED  BY <2>5
<1>5. CASE SendOther
  <2>1. /\ ctl' = Append(ctl, Other) /\ Other \in Items /\ ~IsKept(Other)
        /\ UNCHANGED <<queue, link, route, sending>>
    BY <1>5, ItemsMade DEF SendOther, IsKept, Other, writerVars
  <2>2. Carries(log, ctl', q, c)
    BY <2>1, CoversNothing, <1>2, <1>3, CarriesAppend DEF Intervals, TypeOK
  <2>3. Intervals(h, b, r, l, q, c)'
    BY <1>1, <1>2, <2>1, <2>2 DEF Intervals
  <2>. QED  BY <2>3
<1>6. CASE Drain \/ WaitCtl
  <2>1. /\ ctl # <<>> /\ queue' = PushCtl(queue, Head(ctl)) /\ ctl' = Tail(ctl)
        /\ UNCHANGED <<link, route, sending>> /\ Head(ctl) \in Items
    BY <1>6, HeadTailType DEF Drain, WaitCtl, viewerVars, TypeOK
  <2>2. PICK m \in Nat : Covers(log, Head(ctl), q, m) /\ m <= c /\ Carries(log, Tail(ctl), m, c)
    BY <2>1, <1>2, <1>3, CarriesHead DEF Intervals, TypeOK
  <2>3. Carries(log, queue', l, m) /\ q <= m
    BY <2>1, <2>2, <1>2, <1>3, CarriesPush DEF Intervals, TypeOK, Covers
  <2>4. Intervals(h, b, r, l, m, c)'
    BY <1>1, <1>2, <1>3, <2>1, <2>2, <2>3 DEF Intervals
  <2>. QED  BY <2>4
<1>7. CASE TakeSlot
  <2>1. UNCHANGED <<link, route, sending, ctl>>
    BY <1>7 DEF TakeSlot
  <2>2. Carries(log, queue', l, q)
    <3>1. CASE slot = NoItem
      BY <3>1, <1>2, <1>7 DEF TakeSlot, Intervals
    <3>2. CASE slot # NoItem
      <4>1. queue' = PushCtl(queue, slot) /\ slot \in Items /\ ~IsKept(slot)
        BY <3>2, <1>7 DEF TakeSlot, TypeOK, OrderInv, IsKept
      <4>. QED  BY <4>1, CoversNothing, <1>2, <1>3, CarriesPush DEF Intervals, TypeOK
    <3>. QED  BY <3>1, <3>2
  <2>3. Intervals(h, b, r, l, q, c)'
    BY <1>1, <1>2, <2>1, <2>2 DEF Intervals
  <2>. QED  BY <2>3
<1>8. CASE Transmit
  <2>1. /\ queue # <<>> /\ link' = Append(link, Head(queue)) /\ queue' = Tail(queue)
        /\ UNCHANGED <<ctl, route, sending>> /\ Head(queue) \in Items
    BY <1>8, HeadTailType DEF Transmit, viewerVars, TypeOK
  <2>2. PICK m \in Nat : Covers(log, Head(queue), l, m) /\ m <= q /\ Carries(log, Tail(queue), m, q)
    BY <2>1, <1>2, <1>3, CarriesHead DEF Intervals, TypeOK
  <2>3. Carries(log, link', r, m) /\ l <= m
    BY <2>1, <2>2, <1>2, <1>3, CarriesAppend DEF Intervals, TypeOK, Covers
  <2>4. Intervals(h, b, r, m, q, c)'
    BY <1>1, <1>2, <1>3, <2>1, <2>2, <2>3 DEF Intervals
  <2>. QED  BY <2>4
<1>9. CASE Deliver
  <2>1. /\ link # <<>> /\ link' = Tail(link) /\ UNCHANGED <<ctl, queue, sending>>
        /\ Head(link) \in Items
        /\ \/ Head(link) = Other /\ route' = route
           \/ route' = Append(route, Head(link))
    BY <1>9, <1>1, HeadTailType DEF Deliver, viewerVars, writerVars, TypeOK
  <2>2. PICK m \in Nat : Covers(log, Head(link), r, m) /\ m <= l /\ Carries(log, Tail(link), m, l)
    BY <2>1, <1>2, <1>3, CarriesHead DEF Intervals, TypeOK
  <2>3. Carries(log, route', b, m) /\ r <= m
    <3>1. CASE Head(link) = Other /\ route' = route
      <4>1. Covers(log, Other, r, m) /\ ~IsKept(Other)
        BY <3>1, <2>2 DEF IsKept, Other
      <4>2. r <= m /\ \A n \in (r + 1)..m : ~KeptIn(log, n)
        BY <4>1, NothingAfter DEF Covers
      <4>3. Carries(log, route, b, r) /\ log \in Seq(Events) /\ route \in Seq(Items)
        BY <1>2 DEF Intervals, TypeOK
      <4>. QED  BY <4>2, <4>3, <3>1, <1>3, CarriesAfter
    <3>2. CASE route' = Append(route, Head(link))
      BY <3>2, <2>1, <2>2, <1>2, <1>3, CarriesAppend DEF Intervals, TypeOK, Covers
    <3>. QED  BY <3>1, <3>2, <2>1
  <2>4. Intervals(h, b, m, l, q, c)'
    BY <1>1, <1>2, <1>3, <2>1, <2>2, <2>3 DEF Intervals
  <2>. QED  BY <2>4
<1>10. CASE RouteRelease
  <2>1. /\ route' = Append(route, HostRelease) /\ HostRelease \in Items /\ ~IsKept(HostRelease)
        /\ UNCHANGED <<ctl, queue, link, sending>>
    BY <1>10, ItemsMade DEF RouteRelease, HostRelease, IsKept, viewerVars, writerVars
  <2>2. Carries(log, route', b, r)
    BY <2>1, CoversNothing, <1>2, <1>3, CarriesAppend DEF Intervals, TypeOK
  <2>3. Intervals(h, b, r, l, q, c)'
    BY <1>1, <1>2, <2>1, <2>2 DEF Intervals
  <2>. QED  BY <2>3
<1>. QED  BY <1>4, <1>5, <1>6, <1>7, <1>8, <1>9, <1>10

\* Taking the route over moves its interval to the empty batch.
LEMMA OrderRecv ==
    ASSUME TypeOK, OrderInv, Recv
    PROVE  OrderInv'
<1>1. /\ UNCHANGED <<log, handled, slot, sending, ctl, queue, link>> /\ hpc = "recv"
      /\ batch = <<>> /\ batch' = route /\ route' = <<>>
  BY DEF Recv, TypeOK, viewerVars, writerVars
<1>2. PICK h, b, r, l, q, c \in Nat : Intervals(h, b, r, l, q, c)
  BY <1>1 DEF OrderInv
<1>3. h <= b /\ b <= r /\ Carries(log, <<>>, h, b) /\ Carries(log, route, b, r)
  BY <1>1, <1>2 DEF Intervals
<1>4. \A n \in (h + 1)..b : ~KeptIn(log, n)
  BY <1>3 DEF Carries
<1>5. \A n \in (r + 1)..r : ~KeptIn(log, n)
  OBVIOUS
<1>6. log \in Seq(Events) /\ route \in Seq(Items) /\ r <= r
  BY DEF TypeOK
<1>7. Carries(log, route, h, r)
  BY <1>3, <1>4, <1>5, <1>6, CarriesWider
<1>8. Intervals(h, r, r, l, q, c)'
  BY <1>1, <1>2, <1>3, <1>7, CarriesNothing DEF Intervals
<1>. QED  BY <1>1, <1>8 DEF OrderInv

\* The next event of the batch is the oldest one not handled yet, or it is not kept.
LEMMA OrderNextItem ==
    ASSUME TypeOK, OrderInv, NextItem
    PROVE  /\ OrderInv'
           /\ [Order!Handle]_(<<log, handled>>)
<1>. DEFINE it == Head(batch)
<1>1. /\ UNCHANGED <<log, route, slot, sending, ctl, queue, link>> /\ hpc = "loop" /\ hpc' # "exited"
      /\ batch # <<>> /\ batch' = Tail(batch) /\ it \in Items
  BY HeadTailType DEF NextItem, TypeOK, viewerVars, writerVars
<1>2. IF IsKept(it) THEN handled' = Append(handled, it.seq) ELSE handled' = handled
  BY DEF NextItem, IsKept, Superseded, Stale
<1>3. PICK h, b, r, l, q, c \in Nat : Intervals(h, b, r, l, q, c)
  BY <1>1 DEF OrderInv
<1>4. h <= b /\ Carries(log, batch, h, b) /\ Taken(log, handled, h)
  BY <1>3 DEF Intervals
<1>5. PICK m \in Nat : Covers(log, it, h, m) /\ m <= b /\ Carries(log, Tail(batch), m, b)
  BY <1>1, <1>4, CarriesHead DEF TypeOK
<1>. HIDE DEF it
<1>6. handled \in Seq(Nat) /\ h <= m
  BY <1>5 DEF TypeOK, Covers
<1>7. CASE ~IsKept(it)
  <2>1. handled' = handled
    BY <1>2, <1>7
  <2>2. \A n \in (h + 1)..m : ~KeptIn(log, n)
    BY <1>5, <1>7, NothingAfter
  <2>3. Taken(log', handled', m)
    BY <2>1, <2>2, <1>1, <1>4, <1>6 DEF Taken
  <2>4. Intervals(m, b, r, l, q, c)'
    BY <2>3, <1>1, <1>3, <1>5 DEF Intervals
  <2>. QED  BY <2>1, <2>4, <1>1 DEF OrderInv
<1>8. CASE IsKept(it)
  <2>1. /\ handled' = Append(handled, it.seq) /\ it.seq = m /\ h < m /\ KeptIn(log, m)
        /\ \A n \in (h + 1)..m : KeptIn(log, n) => n = m
    BY <1>2, <1>5, <1>8 DEF Covers
  <2>2. \A i \in DOMAIN handled : handled[i] \in Nat /\ handled[i] <= h
    BY <1>4, <1>6 DEF Taken
  <2>3. /\ DOMAIN handled' = 1..(Len(handled) + 1) /\ handled'[Len(handled) + 1] = m
        /\ \A i \in DOMAIN handled : i \in DOMAIN handled' /\ handled'[i] = handled[i]
        /\ \A i \in DOMAIN handled' : i \in DOMAIN handled \/ i = Len(handled) + 1
    BY <2>1, <1>6
  <2>4. Taken(log', handled', m)
    <3>1. \A i \in DOMAIN handled' : handled'[i] <= m
      BY <2>1, <2>2, <2>3
    <3>2. ASSUME NEW n \in 1..m, KeptIn(log, n)
          PROVE  \E i \in DOMAIN handled' : handled'[i] = n
      <4>1. CASE n \in 1..h
        BY <4>1, <3>2, <2>3, <1>4 DEF Taken
      <4>2. CASE n \in (h + 1)..m
        <5>1. n = m
          BY <4>2, <3>2, <2>1
        <5>2. Len(handled) + 1 \in DOMAIN handled'
          BY <2>3, <1>6
        <5>. QED  BY <5>1, <5>2, <2>3
      <4>. QED  BY <4>1, <4>2
    <3>. QED  BY <3>1, <3>2, <1>1 DEF Taken
  <2>5. Intervals(m, b, r, l, q, c)'
    BY <2>4, <1>1, <1>3, <1>5 DEF Intervals
  <2>6. Order!Handle
    <3>1. m \in Order!Kept
      BY <2>1 DEF Order!Kept, KeptIn, TypeOK
    <3>2. \A i \in DOMAIN handled : handled[i] < m
      BY <2>1, <2>2
    <3>3. ASSUME NEW n \in Order!Kept, n < m
          PROVE  \E i \in DOMAIN handled : handled[i] = n
      <4>1. KeptIn(log, n) /\ n \in 1..Len(log)
        BY DEF Order!Kept, KeptIn, TypeOK
      <4>2. n \in 1..h
        BY <4>1, <3>3, <2>1
      <4>. QED  BY <4>1, <4>2, <1>4 DEF Taken
    <3>. QED  BY <3>1, <3>2, <3>3, <2>1, <1>1 DEF Order!Handle
  <2>. QED  BY <2>5, <2>6, <1>1 DEF OrderInv
<1>. QED  BY <1>7, <1>8

\* Every step keeps the intervals.
LEMMA OrderStep ==
    ASSUME TypeOK, OrderInv, [Next]_vars
    PROVE  OrderInv'
<1>1. CASE SendMove \/ \E e \in Events : SendEvent(e)
  BY <1>1, OrderMake
<1>2. CASE SendEventItem \/ SendOther \/ Drain \/ TakeSlot \/ WaitCtl \/ Transmit
             \/ Deliver \/ RouteRelease
  <2>1. (slot' # NoItem => IsMove(slot')) /\ hpc' = hpc
    BY <1>2 DEF SendEventItem, SendOther, Drain, TakeSlot, WaitCtl, Transmit, Deliver,
                RouteRelease, OrderInv, viewerVars, threadVars
  <2>. QED  BY <1>2, <2>1, OrderMove DEF OrderInv
<1>3. CASE Recv
  BY <1>3, OrderRecv
<1>4. CASE NextItem
  BY <1>4, OrderNextItem
<1>5. CASE DrainDone \/ Poll \/ WaitWake \/ Reserve \/ Notify
  BY <1>5, OrderSame
     DEF DrainDone, Poll, WaitWake, Reserve, Notify, flowVars, viewerVars, writerVars, threadVars
<1>6. CASE LinkLost \/ Timeout \/ CheckStop \/ Apply \/ BatchDone
  BY <1>6, OrderSame
     DEF LinkLost, Timeout, CheckStop, Apply, BatchDone, flowVars, viewerVars, writerVars, threadVars
<1>7. CASE \/ \E new \in Perms : SetPermissions(new)
           \/ StoreKeyboard
           \/ \E n \in 1..MaxDisplays, a \in 0..(MaxDisplays - 1) : SetDisplays(n, a)
           \/ StoreActive
           \/ \E i \in 0..(MaxDisplays - 1) : SelectDisplay(i)
           \/ EndSession \/ Joined
  BY <1>7, OrderSame
     DEF SetPermissions, StoreKeyboard, SetDisplays, StoreActive, SelectDisplay, EndSession,
         Joined, flowVars, viewerVars, writerVars, threadVars
<1>8. CASE UNCHANGED vars
  BY <1>8, OrderSame DEF vars, flowVars, viewerVars, writerVars, threadVars
<1>. QED
  BY <1>1, <1>2, <1>3, <1>4, <1>5, <1>6, <1>7, <1>8
     DEF Next, Writer, InputThread, SessionLoop

\* Every step of the pipeline is a step of what it promises, or leaves it alone.
LEMMA OrderRefines ==
    ASSUME TypeOK, OrderInv, [Next]_vars
    PROVE  [Order!Next]_(Order!ordVars)
<1>1. CASE SendMove \/ \E e \in Events : SendEvent(e)
  <2>1. PICK e \in Events : log' = Append(log, e)
    BY <1>1, ItemsMade DEF SendMove, SendEvent
  <2>2. handled' = handled
    BY <1>1 DEF SendMove, SendEvent, threadVars
  <2>. QED  BY <2>1, <2>2 DEF Order!Next, Order!Make
<1>2. CASE NextItem
  BY <1>2, OrderNextItem DEF Order!Next, Order!ordVars
<1>3. CASE UNCHANGED <<log, handled>>
  BY <1>3 DEF Order!ordVars
<1>4. CASE Notify \/ SendEventItem \/ SendOther \/ (Writer /\ ~TakeSlot) \/ TakeSlot \/ LinkLost \/ Deliver
  BY <1>3, <1>4 DEF Notify, SendEventItem, SendOther, Writer, Drain, DrainDone, TakeSlot, Poll, WaitCtl, WaitWake,
     Reserve, Transmit, LinkLost, Deliver, viewerVars, threadVars
<1>5. CASE Recv \/ Timeout \/ CheckStop \/ Apply \/ BatchDone
  BY <1>3, <1>5 DEF Recv, Timeout, CheckStop, Apply, BatchDone, viewerVars
<1>6. CASE SessionLoop
  BY <1>3, <1>6 DEF SessionLoop, SetPermissions, StoreKeyboard, RouteRelease, SetDisplays,
     StoreActive, SelectDisplay, EndSession, Joined, viewerVars, threadVars
<1>7. CASE UNCHANGED vars
  BY <1>3, <1>7 DEF vars, viewerVars, threadVars
<1>. QED  BY <1>1, <1>2, <1>4, <1>5, <1>6, <1>7 DEF Next, InputThread

\* The pipeline implements InputOrder: whatever the tasks and threads do, the host
\* takes over every click, key and ReleaseAll in the order the viewer made them, none
\* missing in between and none twice.
THEOREM InputOrderHolds == Spec => ImplementsInputOrder
<1>1. Init => Order!Init
  BY DEF Init, Order!Init
<1>2. TypeOK /\ OrderInv /\ [Next]_vars => [Order!Next]_(Order!ordVars)
  BY OrderRefines
<1>3. TypeOK /\ OrderInv /\ [Next]_vars => OrderInv'
  BY OrderStep
<1>. QED
  BY <1>1, <1>2, <1>3, OrderInit, TypeCorrect, PTL DEF Spec, ImplementsInputOrder, Order!Spec

-----------------------------------------------------------------------------
(* Release *)

LEMMA ReleaseInit == Init => ReleaseInv
BY DEF Init, ReleaseInv, RevokedIsReleased, Stop

\* What waits to be released keeps waiting until a ReleaseAll is applied.
LEMMA ReleaseStaysPending ==
    ASSUME TypeOK, ReleasePending,
           InputThread, ~(hpc = "apply" /\ IsRelease(cur))
    PROVE  ReleasePending'
<1>1. UNCHANGED <<spc>>
  BY DEF InputThread, Recv, Timeout, CheckStop, NextItem, Apply, BatchDone, sessionVars
<1>2. CASE spc \in {"revoke", "release"}
  BY <1>1, <1>2 DEF ReleasePending
<1>3. CASE \E i \in DOMAIN route : IsRelease(route[i])
  <2>1. CASE Recv
    BY <2>1, <1>3 DEF Recv, ReleasePending
  <2>2. CASE ~Recv
    <3>1. route' = route
      BY <2>2 DEF InputThread, Timeout, CheckStop, NextItem, Apply, BatchDone
    <3>. QED  BY <3>1, <1>3 DEF ReleasePending
  <2>. QED  BY <2>1, <2>2
<1>4. CASE \E i \in DOMAIN batch : IsRelease(batch[i])
  <2>1. batch # <<>> /\ hpc \in {"loop", "apply"}
    BY <1>4 DEF TypeOK
  <2>2. CASE NextItem
    <3>1. PICK i \in DOMAIN batch : IsRelease(batch[i])
      BY <1>4
    <3>2. CASE i = 1
      <4>1. IsRelease(Head(batch)) /\ ~Superseded /\ ~Stale /\ Allowed(Head(batch).ev, perms)
        BY <2>1, <3>1, <3>2 DEF IsRelease, Superseded, Stale, IsMove, Allowed, TypeOK
      <4>2. cur' = Head(batch) /\ hpc' = "apply"
        BY <4>1, <2>2 DEF NextItem
      <4>. QED  BY <4>1, <4>2 DEF ReleasePending, IsRelease
    <3>3. CASE i # 1
      <4>1. batch' = Tail(batch) /\ batch \in Seq(Items) /\ i \in 1..Len(batch)
        BY <2>2, <3>1 DEF NextItem, TypeOK
      <4>2. i - 1 \in DOMAIN batch' /\ batch'[i - 1] = batch[i]
        BY <4>1, <3>3
      <4>. QED  BY <4>2, <3>1 DEF ReleasePending
    <3>. QED  BY <3>2, <3>3
  <2>3. CASE ~NextItem
    <3>1. batch' = batch
      BY <2>1, <2>3 DEF InputThread, Recv, Timeout, CheckStop, Apply, BatchDone
    <3>. QED  BY <3>1, <1>4 DEF ReleasePending
  <2>. QED  BY <2>2, <2>3
<1>. QED  BY <1>2, <1>3, <1>4 DEF ReleasePending

LEMMA ReleaseThread ==
    ASSUME TypeOK, ReleaseInv, InputThread
    PROVE  ReleaseInv'
<1>1. UNCHANGED <<spc, change, perms>>
  BY DEF InputThread, Recv, Timeout, CheckStop, NextItem, Apply, BatchDone, sessionVars
<1>2. \A h : Permitted(h)' <=> Permitted(h)
  BY <1>1 DEF Permitted
<1>3. (hpc' = "exited" => held' = {} /\ Stop') /\ (spc' = "over" => hpc' = "exited")
  BY <1>1 DEF InputThread, Recv, Timeout, CheckStop, NextItem, Apply, BatchDone, ReleaseInv, Stop
<1>4. RevokedIsReleased'
  <2>1. CASE Apply
    <3>1. hpc = "apply" /\ held' = HeldAfter(cur.ev, held) /\ cur \in Items
      BY <2>1 DEF Apply, TypeOK
    <3>2. CASE IsRelease(cur)
      BY <3>1, <3>2 DEF IsRelease, HeldAfter, RevokedIsReleased
    <3>3. CASE ~IsRelease(cur)
      <4>1. \A h \in held' : h \in held \/ (cur.ev.kind = "down" /\ h = cur.ev.hold)
        BY <3>1, <3>3 DEF HeldAfter, IsRelease
      <4>2. \A h \in held' : Permitted(h) \/ ReleasePending
        BY <4>1, <3>1 DEF ReleaseInv, RevokedIsReleased
      <4>. QED  BY <4>2, <1>2, <3>3, ReleaseStaysPending DEF RevokedIsReleased
    <3>. QED  BY <3>2, <3>3
  <2>2. CASE ~Apply
    <3>1. hpc # "apply" /\ held' \subseteq held
      BY <2>2 DEF InputThread, Recv, Timeout, CheckStop, NextItem, BatchDone
    <3>. QED  BY <3>1, <1>2, ReleaseStaysPending DEF ReleaseInv, RevokedIsReleased
  <2>. QED  BY <2>1, <2>2
<1>5. ASSUME hpc' = "apply", cur'.ev.kind = "down"
      PROVE  Permitted(cur.ev.hold)'
  <2>. DEFINE e == Head(batch).ev
  <2>1. cur' = Head(batch) /\ Allowed(e, perms)
    BY <1>5 DEF InputThread, Recv, Timeout, CheckStop, NextItem, Apply, BatchDone
  <2>2. e.kind = "down"
    BY <2>1, <1>5
  <2>. HIDE DEF e
  <2>3. Permitted(e.hold)
    BY <2>1, <2>2, HoldsAssumption DEF Allowed, IsMouse, IsKeyboard, Permitted
  <2>. QED  BY <2>1, <2>3, <1>1 DEF Permitted, e
<1>6. spc' = "grant" /\ perms'.keyboard => change'.keyboard
  BY <1>1 DEF ReleaseInv
<1>. QED  BY <1>3, <1>4, <1>5, <1>6 DEF ReleaseInv

\* Nothing but the input thread touches what is held or the event in hand; of the
\* rest, only the session loop's changes of the permissions matter.
LEMMA ReleaseStep ==
    ASSUME TypeOK, ReleaseInv, [Next]_vars
    PROVE  ReleaseInv'
<1>1. CASE InputThread
  BY <1>1, ReleaseThread
<1>2. ASSUME UNCHANGED <<hpc, batch, cur, held, perms, change>>,
             ReleasePending => ReleasePending', Stop => Stop',
             spc' = "over" => hpc = "exited", spc' = "grant" => spc = "grant"
      PROVE  ReleaseInv'
  BY <1>2 DEF ReleaseInv, RevokedIsReleased, Permitted
<1>3. CASE SendMove \/ Notify \/ (\E e \in Events : SendEvent(e)) \/ SendEventItem \/ SendOther
           \/ Writer \/ LinkLost \/ UNCHANGED vars
  <2>1. UNCHANGED <<hpc, batch, cur, held, perms, change, spc, route>>
    BY <1>3 DEF SendMove, Notify, SendEvent, SendEventItem, SendOther, Writer, Drain, DrainDone,
       TakeSlot, Poll, WaitCtl, WaitWake, Reserve, Transmit, LinkLost, vars, threadVars, sessionVars
  <2>2. ReleasePending => ReleasePending'
    BY <2>1 DEF ReleasePending
  <2>. QED  BY <2>1, <2>2, <1>2 DEF Stop, ReleaseInv
<1>4. CASE Deliver \/ RouteRelease
  <2>1. /\ UNCHANGED <<hpc, batch, cur, held, perms, change>>
        /\ spc' = IF Deliver THEN spc ELSE "run"
        /\ RouteRelease => spc = "release" /\ route' = Append(route, HostRelease)
        /\ Deliver => spc' = spc /\ (route' = route \/ route' = Append(route, Head(link)))
    BY <1>4 DEF Deliver, RouteRelease, threadVars, sessionVars
  <2>2. Len(route) + 1 \in DOMAIN Append(route, HostRelease)
        /\ Append(route, HostRelease)[Len(route) + 1] = HostRelease
    BY ItemsMade DEF TypeOK
  <2>3. ASSUME Deliver, ReleasePending PROVE ReleasePending'
    <3>1. ASSUME NEW i \in DOMAIN route
          PROVE  i \in DOMAIN route' /\ route'[i] = route[i]
      <4>1. Head(link) \in Items /\ route \in Seq(Items)
        BY <2>3, HeadTailType DEF Deliver, TypeOK
      <4>. QED  BY <4>1, <2>1, <2>3
    <3>. QED  BY <3>1, <2>1, <2>3 DEF ReleasePending
  <2>4. ASSUME RouteRelease PROVE ReleasePending'
    BY <2>1, <2>2, <2>4 DEF ReleasePending, IsRelease, HostRelease
  <2>. QED  BY <2>1, <2>3, <2>4, <1>2, <1>4 DEF Stop, ReleaseInv
<1>5. ASSUME NEW new \in Perms, SetPermissions(new) PROVE ReleaseInv'
  <2>1. /\ spc = "run" /\ perms'.mouse = new.mouse /\ perms'.keyboard = perms.keyboard
        /\ change'.keyboard = new.keyboard /\ UNCHANGED <<hpc, batch, cur, held, route>>
    BY <1>5 DEF SetPermissions, TypeOK, Perms, threadVars
  <2>2. CASE spc' = "revoke"
    BY <2>1, <2>2 DEF ReleaseInv, RevokedIsReleased, ReleasePending, Stop
  <2>3. CASE spc' # "revoke"
    <3>1. spc' = "grant" /\ (perms.mouse => new.mouse) /\ (perms.keyboard => new.keyboard)
      BY <1>5, <2>3 DEF SetPermissions
    <3>2. \A h : Permitted(h) => Permitted(h)'
      BY <2>1, <3>1 DEF Permitted
    <3>3. ReleasePending => ReleasePending'
      BY <2>1 DEF ReleasePending
    <3>. QED  BY <2>1, <3>1, <3>2, <3>3 DEF ReleaseInv, RevokedIsReleased, Stop
  <2>. QED  BY <2>2, <2>3
<1>6. CASE StoreKeyboard
  <2>1. /\ spc \in {"revoke", "grant"} /\ perms'.keyboard = change.keyboard /\ perms'.mouse = perms.mouse
        /\ spc' = (IF spc = "revoke" THEN "release" ELSE "run")
        /\ UNCHANGED <<hpc, batch, cur, held, route>>
    BY <1>6 DEF StoreKeyboard, TypeOK, Perms, threadVars
  <2>2. CASE spc = "revoke"
    BY <2>1, <2>2 DEF ReleaseInv, RevokedIsReleased, ReleasePending, Stop
  <2>3. CASE spc = "grant"
    <3>1. \A h : Permitted(h) => Permitted(h)'
      BY <2>1, <2>3 DEF Permitted, ReleaseInv
    <3>2. ReleasePending => ReleasePending'
      BY <2>1, <2>3 DEF ReleasePending
    <3>. QED  BY <2>1, <2>3, <3>1, <3>2 DEF ReleaseInv, RevokedIsReleased, Stop
  <2>. QED  BY <2>1, <2>2, <2>3
<1>7. CASE \/ \E n \in 1..MaxDisplays, a \in 0..(MaxDisplays - 1) : SetDisplays(n, a)
           \/ StoreActive
           \/ \E i \in 0..(MaxDisplays - 1) : SelectDisplay(i)
           \/ EndSession \/ Joined
  <2>1. /\ UNCHANGED <<hpc, batch, cur, held, perms, route>>
        /\ spc \in {"run", "active", "finish"} /\ spc' \notin {"grant"} /\ (Stop => Stop')
        /\ spc' = "over" => hpc = "exited"
    BY <1>7 DEF SetDisplays, StoreActive, SelectDisplay, EndSession, Joined, Stop, threadVars
  <2>2. ReleasePending => ReleasePending'
    BY <2>1 DEF ReleasePending
  <2>. QED  BY <2>1, <2>2 DEF ReleaseInv, RevokedIsReleased, Permitted
<1>. QED
  BY <1>1, <1>3, <1>4, <1>5, <1>6, <1>7 DEF Next, SessionLoop

\* A key or button held without permission is about to be released, however the
\* revocation met the event being applied.
THEOREM RevokedHolds == Spec => []RevokedIsReleased
<1>1. TypeOK /\ ReleaseInv /\ [Next]_vars => ReleaseInv'
  BY ReleaseStep
<1>2. ReleaseInv => RevokedIsReleased
  BY DEF ReleaseInv
<1>. QED  BY <1>1, <1>2, ReleaseInit, TypeCorrect, PTL DEF Spec

\* A session that is reported as over left nothing pressed behind.
THEOREM OverHolds == Spec => []OverIsReleased
<1>1. TypeOK /\ ReleaseInv /\ [Next]_vars => ReleaseInv'
  BY ReleaseStep
<1>2. ReleaseInv => OverIsReleased
  BY DEF ReleaseInv, OverIsReleased
<1>. QED  BY <1>1, <1>2, ReleaseInit, TypeCorrect, PTL DEF Spec

-----------------------------------------------------------------------------
(* The backlog of movement *)

\* No two movements follow each other.
Apart(s) == \A i \in 1..(Len(s) - 1) : ~(IsMove(s[i]) /\ IsMove(s[i + 1]))

\* While nobody holds the slot lock the channel does not end in a movement, so the
\* position that leaves the slot never lands beside another.
BacklogInv ==
    /\ Apart(queue) /\ Apart(ctl)
    /\ (sending = NoItem /\ ctl # <<>>) => ~IsMove(ctl[Len(ctl)])
    /\ (sending # NoItem) => ~IsMove(sending)

Moves(s) == {i \in DOMAIN s : IsMove(s[i])}
Pins(s)  == {i \in DOMAIN s : ~IsMove(s[i])}

LEMMA Parts ==
    ASSUME NEW s \in Seq(Items)
    PROVE  /\ DOMAIN s = 1..Len(s) /\ Len(s) \in Nat
           /\ IsFiniteSet(Moves(s)) /\ Cardinality(Moves(s)) \in Nat
           /\ IsFiniteSet(Pins(s)) /\ Cardinality(Pins(s)) \in Nat
<1>1. DOMAIN s = 1..Len(s) /\ Len(s) \in Nat
  OBVIOUS
<1>2. IsFiniteSet(DOMAIN s)
  BY <1>1, FS_Interval
<1>3. Moves(s) \in SUBSET DOMAIN s /\ Pins(s) \in SUBSET DOMAIN s
  BY DEF Moves, Pins
<1>4. IsFiniteSet(Moves(s)) /\ IsFiniteSet(Pins(s))
  BY <1>2, <1>3, FS_Subset
<1>. QED  BY <1>1, <1>4, FS_CardinalityType

\* Every movement but the last item is followed by a message that is none.
LEMMA Pinned ==
    ASSUME NEW s \in Seq(Items), Apart(s)
    PROVE  Cardinality(Moves(s) \ {Len(s)}) <= Cardinality(Pins(s))
<1>. PICK f : f = [i \in Moves(s) \ {Len(s)} |-> i + 1]
  OBVIOUS
<1>1. ASSUME NEW i \in Moves(s) \ {Len(s)} PROVE i \in Nat /\ i + 1 \in Pins(s)
  <2>1. i \in 1..Len(s) /\ i # Len(s) /\ IsMove(s[i])
    BY <1>1, Parts DEF Moves
  <2>2. i \in 1..(Len(s) - 1) /\ i + 1 \in 1..Len(s)
    BY <2>1, Parts
  <2>3. ~IsMove(s[i + 1])
    BY <2>1, <2>2 DEF Apart
  <2>. QED  BY <2>1, <2>2, <2>3, Parts DEF Pins
<1>2. f \in [Moves(s) \ {Len(s)} -> Pins(s)]
  BY <1>1
<1>3. ASSUME NEW i \in Moves(s) \ {Len(s)}, NEW j \in Moves(s) \ {Len(s)}, f[i] = f[j]
      PROVE  i = j
  BY <1>1, <1>3
<1>4. f \in Injection(Moves(s) \ {Len(s)}, Pins(s))
  BY <1>2, <1>3 DEF Injection, IsInjective
<1>. QED  BY <1>4, Parts, FS_Injection

LEMMA Alternates ==
    ASSUME NEW s \in Seq(Items), Apart(s)
    PROVE  /\ Cardinality(Moves(s)) <= Cardinality(Pins(s)) + 1
           /\ (s # <<>> => ~IsMove(s[Len(s)])) => Cardinality(Moves(s)) <= Cardinality(Pins(s))
<1>. PICK m : m = Cardinality(Moves(s))
  OBVIOUS
<1>. PICK n : n = Cardinality(Pins(s))
  OBVIOUS
<1>1. m \in Nat /\ n \in Nat
  BY Parts
<1>2. Cardinality(Moves(s) \ {Len(s)}) = IF Len(s) \in Moves(s) THEN m - 1 ELSE m
  BY Parts, FS_RemoveElement
<1>3. Cardinality(Moves(s) \ {Len(s)}) <= n
  BY Pinned
<1>4. m <= n + 1 /\ (Len(s) \notin Moves(s) => m <= n)
  BY <1>1, <1>2, <1>3
<1>5. ASSUME s # <<>> => ~IsMove(s[Len(s)]) PROVE Len(s) \notin Moves(s)
  <2>1. s = <<>> => DOMAIN s = {}
    OBVIOUS
  <2>. QED  BY <1>5, <2>1 DEF Moves
<1>. QED  BY <1>4, <1>5

LEMMA BacklogInit == Init => BacklogInv
BY DEF Init, BacklogInv, Apart

LEMMA ApartTail ==
    ASSUME NEW s \in Seq(Items), s # <<>>, Apart(s)
    PROVE  Apart(Tail(s)) /\ (Tail(s) # <<>> => Tail(s)[Len(Tail(s))] = s[Len(s)])
<1>. PICK r : r = Tail(s)
  OBVIOUS
<1>1. /\ Len(s) \in Nat /\ r \in Seq(Items) /\ Len(r) = Len(s) - 1
      /\ \A i \in 1..Len(r) : r[i] = s[i + 1]
  BY HeadTailProperties, LenProperties
<1>2. ASSUME NEW i \in 1..(Len(r) - 1) PROVE ~(IsMove(r[i]) /\ IsMove(r[i + 1]))
  <2>1. /\ i \in 1..Len(r) /\ i + 1 \in 1..Len(r) /\ i + 1 \in 1..(Len(s) - 1)
    BY <1>1
  <2>2. r[i] = s[i + 1] /\ r[i + 1] = s[(i + 1) + 1]
    BY <1>1, <2>1
  <2>. QED  BY <2>1, <2>2 DEF Apart
<1>3. ASSUME r # <<>> PROVE r[Len(r)] = s[Len(s)]
  <2>1. Len(r) \in 1..Len(r) /\ Len(r) + 1 = Len(s)
    BY <1>1, <1>3
  <2>. QED  BY <1>1, <2>1
<1>. QED  BY <1>2, <1>3 DEF Apart

LEMMA ApartAppend ==
    ASSUME NEW s \in Seq(Items), NEW it \in Items, Apart(s),
           s = <<>> \/ ~IsMove(s[Len(s)]) \/ ~IsMove(it)
    PROVE  /\ Apart(Append(s, it)) /\ Append(s, it) # <<>>
           /\ Append(s, it)[Len(Append(s, it))] = it
<1>. PICK r : r = Append(s, it)
  OBVIOUS
<1>1. /\ Len(s) \in Nat /\ r \in Seq(Items) /\ Len(r) = Len(s) + 1 /\ r[Len(s) + 1] = it
      /\ \A i \in 1..Len(s) : r[i] = s[i]
  BY AppendProperties, LenProperties
<1>2. ASSUME NEW i \in 1..(Len(r) - 1) PROVE ~(IsMove(r[i]) /\ IsMove(r[i + 1]))
  <2>1. i \in 1..Len(s) /\ r[i] = s[i] /\ s # <<>>
    BY <1>1
  <2>2. CASE i = Len(s)
    BY <1>1, <2>1, <2>2
  <2>3. CASE i # Len(s)
    <3>1. i \in 1..(Len(s) - 1) /\ i + 1 \in 1..Len(s)
      BY <1>1, <2>1, <2>3
    <3>2. r[i + 1] = s[i + 1]
      BY <1>1, <3>1
    <3>. QED  BY <2>1, <3>1, <3>2 DEF Apart
  <2>. QED  BY <2>2, <2>3
<1>. QED  BY <1>1, <1>2 DEF Apart

LEMMA ApartPushCtl ==
    ASSUME NEW s \in Seq(Items), NEW it \in Items, Apart(s)
    PROVE  Apart(PushCtl(s, it))
<1>1. CASE IsMove(it) /\ s # <<>> /\ IsMove(s[Len(s)])
  <2>0. PICK r : r = [s EXCEPT ![Len(s)] = it]
    OBVIOUS
  <2>1. /\ r = PushCtl(s, it) /\ Len(s) \in Nat /\ Len(s) \in 1..Len(s) /\ Len(r) = Len(s)
        /\ r[Len(s)] = it /\ \A i \in 1..Len(s) : i # Len(s) => r[i] = s[i]
    BY <1>1, <2>0 DEF PushCtl
  <2>2. ASSUME NEW i \in 1..(Len(r) - 1) PROVE ~(IsMove(r[i]) /\ IsMove(r[i + 1]))
    <3>1. /\ i \in 1..(Len(s) - 1) /\ i \in 1..Len(s) /\ i # Len(s) /\ i + 1 \in 1..Len(s)
      <4>1. Len(r) = Len(s) /\ Len(s) \in Nat
        BY <2>1
      <4>2. i \in 1..(Len(s) - 1)
        BY <4>1
      <4>. QED  BY <4>1, <4>2
    <3>2. r[i] = s[i] /\ ~(IsMove(s[i]) /\ IsMove(s[i + 1]))
      BY <2>1, <3>1 DEF Apart
    <3>3. CASE i + 1 = Len(s)
      <4>1. s[i + 1] = s[Len(s)]
        BY <3>3
      <4>2. IsMove(s[i + 1])
        BY <1>1, <4>1 DEF IsMove
      <4>. QED  BY <3>2, <4>2
    <3>4. CASE i + 1 # Len(s)
      BY <2>1, <3>1, <3>2, <3>4
    <3>. QED  BY <3>3, <3>4
  <2>. QED  BY <2>1, <2>2 DEF Apart
<1>2. CASE ~(IsMove(it) /\ s # <<>> /\ IsMove(s[Len(s)]))
  <2>1. PushCtl(s, it) = Append(s, it)
    BY <1>2 DEF PushCtl
  <2>. QED  BY <1>2, <2>1, ApartAppend
<1>. QED  BY <1>1, <1>2

\* What the writer takes from the channel keeps both apart.
LEMMA BacklogTaken ==
    ASSUME TypeOK, BacklogInv, ctl # <<>>, queue' = PushCtl(queue, Head(ctl)), ctl' = Tail(ctl),
           sending' = sending
    PROVE  BacklogInv'
<1>1. queue \in Seq(Items) /\ ctl \in Seq(Items) /\ Head(ctl) \in Items
  BY HeadTailType DEF TypeOK
<1>2. Apart(queue') /\ Apart(ctl')
  BY <1>1, ApartPushCtl, ApartTail DEF BacklogInv
<1>3. ctl' # <<>> => ctl'[Len(ctl')] = ctl[Len(ctl)]
  BY <1>1, ApartTail DEF BacklogInv
<1>. QED  BY <1>2, <1>3 DEF BacklogInv

LEMMA BacklogStep == TypeOK /\ BacklogInv /\ [Next]_vars => BacklogInv'
<1>. SUFFICES ASSUME TypeOK, BacklogInv, [Next]_vars PROVE BacklogInv'
  OBVIOUS
<1>1. queue \in Seq(Items) /\ ctl \in Seq(Items)
  BY DEF TypeOK
<1>2. CASE SendMove
  BY <1>2 DEF SendMove, writerVars, BacklogInv
<1>3. ASSUME NEW e \in Events, SendEvent(e) PROVE BacklogInv'
  <2>1. /\ sending = NoItem /\ sending' = [seq |-> Len(log) + 1, ev |-> e] /\ e.kind # "move"
        /\ queue' = queue /\ ctl' = IF slot = NoItem THEN ctl ELSE Append(ctl, slot)
    BY <1>3 DEF SendEvent, Idle, writerVars
  <2>2. ~IsMove(sending')
    BY <2>1 DEF IsMove
  <2>3. sending' # NoItem
    BY <2>1, NoItemAssumption, ItemsMade DEF TypeOK
  <2>4. Apart(ctl')
    <3>1. CASE slot = NoItem
      BY <2>1, <3>1 DEF BacklogInv
    <3>2. CASE slot # NoItem
      <4>1. slot \in Items /\ Apart(ctl) /\ (ctl = <<>> \/ ~IsMove(ctl[Len(ctl)]))
        BY <2>1, <3>2 DEF TypeOK, BacklogInv
      <4>. QED  BY <1>1, <2>1, <3>2, <4>1, ApartAppend
    <3>. QED  BY <3>1, <3>2
  <2>. QED  BY <2>1, <2>2, <2>3, <2>4 DEF BacklogInv
<1>4. CASE SendEventItem
  <2>1. /\ sending # NoItem /\ sending \in Items /\ ~IsMove(sending) /\ sending' = NoItem
        /\ queue' = queue /\ ctl' = Append(ctl, sending) /\ Apart(ctl)
    BY <1>4 DEF SendEventItem, writerVars, TypeOK, BacklogInv
  <2>2. Apart(ctl') /\ ctl'[Len(ctl')] = sending
    BY <1>1, <2>1, ApartAppend
  <2>. QED  BY <2>1, <2>2 DEF BacklogInv
<1>5. CASE SendOther
  <2>1. /\ sending' = sending /\ queue' = queue /\ ctl' = Append(ctl, Other) /\ Apart(ctl)
        /\ Other \in Items /\ ~IsMove(Other)
    BY <1>5, ItemsMade DEF SendOther, writerVars, BacklogInv, IsMove, Other
  <2>2. Apart(ctl') /\ ctl'[Len(ctl')] = Other
    BY <1>1, <2>1, ApartAppend
  <2>. QED  BY <2>1, <2>2 DEF BacklogInv
<1>6. CASE Drain \/ WaitCtl
  BY <1>6, BacklogTaken DEF Drain, WaitCtl, viewerVars
<1>7. CASE TakeSlot
  <2>1. /\ sending' = sending /\ ctl' = ctl
        /\ queue' = IF slot = NoItem THEN queue ELSE PushCtl(queue, slot)
        /\ slot \in Items \cup {NoItem}
    BY <1>7 DEF TakeSlot, TypeOK
  <2>2. Apart(queue')
    BY <1>1, <2>1, ApartPushCtl DEF BacklogInv
  <2>. QED  BY <2>1, <2>2 DEF BacklogInv
<1>8. CASE Transmit
  <2>1. sending' = sending /\ ctl' = ctl /\ queue # <<>> /\ queue' = Tail(queue)
    BY <1>8 DEF Transmit, viewerVars
  <2>2. Apart(queue')
    BY <1>1, <2>1, ApartTail DEF BacklogInv
  <2>. QED  BY <2>1, <2>2 DEF BacklogInv
<1>9. CASE \/ Notify \/ DrainDone \/ Poll \/ WaitWake \/ Reserve \/ LinkLost \/ Deliver \/ InputThread \/ SessionLoop
           \/ UNCHANGED vars
  <2>1. UNCHANGED <<sending, ctl, queue>>
    <3>1. CASE Notify \/ DrainDone \/ Poll \/ WaitWake \/ Reserve \/ LinkLost \/ Deliver \/ UNCHANGED vars
      BY <3>1 DEF Notify, DrainDone, Poll, WaitWake, Reserve, LinkLost, Deliver, vars, viewerVars, writerVars
    <3>2. CASE InputThread
      BY <3>2 DEF InputThread, Recv, Timeout, CheckStop, NextItem, Apply, BatchDone,
                  viewerVars, writerVars
    <3>3. CASE SessionLoop
      BY <3>3 DEF SessionLoop, SetPermissions, StoreKeyboard, RouteRelease, SetDisplays,
                  StoreActive, SelectDisplay, EndSession, Joined, viewerVars, writerVars
    <3>. QED  BY <1>9, <3>1, <3>2, <3>3
  <2>. QED  BY <2>1 DEF BacklogInv
<1>. QED
  BY <1>2, <1>3, <1>4, <1>5, <1>6, <1>7, <1>8, <1>9 DEF Next, Writer

LEMMA BacklogBound == TypeOK /\ BacklogInv => MoveBacklogBounded
<1>. SUFFICES ASSUME TypeOK, BacklogInv PROVE MoveBacklogBounded
  OBVIOUS
<1>. PICK qm : qm = Cardinality(Moves(queue))
  OBVIOUS
<1>. PICK qp : qp = Cardinality(Pins(queue))
  OBVIOUS
<1>. PICK cm : cm = Cardinality(Moves(ctl))
  OBVIOUS
<1>. PICK cp : cp = Cardinality(Pins(ctl))
  OBVIOUS
<1>1. queue \in Seq(Items) /\ ctl \in Seq(Items) /\ Apart(queue) /\ Apart(ctl)
  BY DEF TypeOK, BacklogInv
<1>2. qm \in Nat /\ qp \in Nat /\ cm \in Nat /\ cp \in Nat
  BY <1>1, Parts
<1>3. qm <= qp + 1 /\ cm <= cp + 1
  BY <1>1, Alternates
<1>4. sending = NoItem => cm <= cp
  BY <1>1, Alternates DEF BacklogInv
<1>5. qm + cm + (IF slot = NoItem THEN 0 ELSE 1)
        <= qp + cp + (IF sending = NoItem THEN 0 ELSE 1) + 2
  BY <1>2, <1>3, <1>4
<1>6. /\ Count(queue, IsMove) = qm /\ Count(ctl, IsMove) = cm
      /\ Count(queue, NotMove) = qp /\ Count(ctl, NotMove) = cp
  BY DEF Count, Moves, Pins, NotMove
<1>. QED  BY <1>5, <1>6 DEF MoveBacklogBounded

\* A stalled network does not make the backlog of movement grow: beside the movement
\* that other waiting messages pin in its place, the viewer keeps at most one position
\* in the writer's queue and one in the slot.
THEOREM BacklogHolds == Spec => []MoveBacklogBounded
<1>1. TypeOK /\ BacklogInv /\ [Next]_vars => BacklogInv'
  BY BacklogStep
<1>2. TypeOK /\ BacklogInv => MoveBacklogBounded
  BY BacklogBound
<1>. QED  BY <1>1, <1>2, BacklogInit, TypeCorrect, PTL DEF Spec
=============================================================================
