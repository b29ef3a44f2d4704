-------------------------- MODULE HostAccessProofs --------------------------
(***************************************************************************)
(* Proofs about HostAccess, for any viewers, permissions, limits and       *)
(* times: type correctness and the busy flag, that a temporary password    *)
(* opens nothing once a session it opened was closed, that guesses are     *)
(* paced, and that the host implements AccessPolicy.                       *)
(***************************************************************************)
EXTENDS HostAccess, SequenceTheorems, FiniteSetTheorems, TLAPS

\* What a task is, and what goes with where it is.
TaskRecord == [pc : Places, viewer : Viewers \cup {Nobody}, auth : {"temporary", "permanent"},
               wants : Permissions, knows : Nat, offered : Nat,
               answer : [given : BOOLEAN, to : Permissions],
               granted : Permissions, max : Permissions, perms : Permissions]

Busy == {"link", "hello", "confirm", "decide", "prompt", "session"}
Offered == {"confirm", "decide", "prompt", "session"}

ShapeOf(t) ==
    /\ t.pc \in Busy => t.viewer \in Viewers
    /\ t.pc \in Busy \ {"prompt", "session"} => t.answer = NoAnswer
    /\ t.perms \subseteq t.max

HostOK ==
    /\ busy \in BOOLEAN /\ active \subseteq Tasks
    /\ task \in [Tasks -> TaskRecord] /\ \A i \in Tasks : ShapeOf(task[i])
    /\ BusyIffServed

LimitsOK ==
    /\ failures \in [Viewers -> Seq(Nat)] /\ until \in [Viewers -> Nat] /\ allFailures \in Seq(Nat)
    /\ temp \in Nat /\ temp >= 2
    /\ wrong \in Seq([by : Viewers \cup {Nobody}, at : Nat, pw : Nat])

RestOK ==
    /\ expiring \in BOOLEAN
    /\ resume \in [Viewers -> [valid : BOOLEAN, perms : Permissions, at : Nat]]
    /\ unattended \in BOOLEAN /\ authorized \subseteq Viewers
    /\ unattendedElevated \in BOOLEAN /\ incoming \in BOOLEAN
    /\ now \in Nat /\ announced \in Nat /\ changes \in Nat /\ spent \subseteq Nat

TypeInv == HostOK /\ LimitsOK /\ RestOK

-----------------------------------------------------------------------------
(* Types *)

LEMMA TypeMeans == TypeInv => Consistent
BY DEF TypeInv, HostOK, LimitsOK, RestOK, Consistent, TypeOK, TaskRecord

LEMMA EmptyPermissions == {} \in Permissions /\ NoAnswer \in [given : BOOLEAN, to : Permissions]
BY DEF Permissions, NoAnswer

LEMMA GoneType == Gone \in TaskRecord /\ ShapeOf(Gone) /\ Gone.pc = "gone"
BY EmptyPermissions DEF Gone, TaskRecord, Places, ShapeOf, Busy, Wrong

LEMMA PermissionsClosed ==
    /\ \A P \in Permissions : \A Q : P \cap Q \in Permissions /\ Q \cap P \in Permissions
    /\ \A P \in Permissions : \A Q : P \ Q \in Permissions
BY DEF Permissions

LEMMA TypeInit == Init => TypeInv
<1>. SUFFICES ASSUME Init PROVE TypeInv
  OBVIOUS
<1>1. task \in [Tasks -> TaskRecord] /\ \A i \in Tasks : ShapeOf(task[i]) /\ task[i].pc = "gone"
  BY GoneType DEF Init
<1>2. HostOK
  BY <1>1 DEF HostOK, BusyIffServed, At, Init
<1>3. <<>> \in Seq(Nat) /\ <<>> \in Seq([by : Viewers \cup {Nobody}, at : Nat, pw : Nat])
  BY EmptySeq
<1>4. LimitsOK
  BY <1>3 DEF LimitsOK, Init
<1>5. RestOK
  BY EmptyPermissions DEF RestOK, Init, NoGrant
<1>. QED
  BY <1>2, <1>4, <1>5 DEF TypeInv

\* The one task that has the host goes on, or gives the host free.
LEMMA HostGoesOn ==
    ASSUME HostOK, NEW i \in Tasks, task[i].pc # "gone",
           NEW r \in TaskRecord, ShapeOf(r), r.pc # "gone",
           task' = [task EXCEPT ![i] = r], busy' = busy,
           active' = IF r.pc = "session" THEN {i} ELSE {}
    PROVE  HostOK'
BY DEF HostOK, BusyIffServed, At

LEMMA HostIsFree ==
    ASSUME HostOK, NEW i \in Tasks, task[i].pc # "gone", Release(i), active' = {}
    PROVE  HostOK'
BY GoneType DEF HostOK, BusyIffServed, At, Release

LEMMA OneTask ==
    ASSUME HostOK, NEW i \in Tasks, task[i].pc # "gone"
    PROVE  /\ busy /\ \A j \in Tasks \ {i} : task[j].pc = "gone"
           /\ active = IF task[i].pc = "session" THEN {i} ELSE {}
BY DEF HostOK, BusyIffServed, At

LEMMA GotoType ==
    ASSUME NEW r \in TaskRecord, NEW pc \in Places
    PROVE  [r EXCEPT !.pc = pc] \in TaskRecord /\ [r EXCEPT !.pc = pc].pc = pc
BY DEF TaskRecord

LEMMA RecentType ==
    ASSUME NEW q \in Seq(Nat), now \in Nat
    PROVE  Recent(q) \in Seq(Nat) /\ Append(Recent(q), now) \in Seq(Nat)
<1> DEFINE old == {k \in DOMAIN q : now - q[k] >= Window}
<1>1. IsFiniteSet(old) /\ Cardinality(old) \in Nat
  <2>1. IsFiniteSet(DOMAIN q) /\ old \in SUBSET DOMAIN q
    BY FS_Interval, LenProperties
  <2>. QED  BY <2>1, FS_Subset, FS_CardinalityType
<1>2. Recent(q) \in Seq(Nat)
  <2>1. Recent(q) = SubSeq(q, Cardinality(old) + 1, Len(q))
    BY DEF Recent
  <2>2. \A k \in (Cardinality(old) + 1)..Len(q) : k \in 1..Len(q)
    BY <1>1, LenProperties
  <2>. QED  BY <1>1, <2>1, <2>2, SubSeqProperties, LenProperties
<1>. QED  BY <1>2, AppendProperties

\* A task waits, answers or goes on within the handshake and the question.
LEMMA GotoHost ==
    ASSUME HostOK, NEW i \in Tasks, task[i].pc \in Busy \ {"session"},
           NEW pc \in Busy \cup {"leave"}, pc # "session",
           pc \in Busy \ {"prompt"} => task[i].pc # "prompt",
           Goto(i, pc), UNCHANGED <<busy, active>>
    PROVE  HostOK'
<1> DEFINE r == [task[i] EXCEPT !.pc = pc]
<1>1. r \in TaskRecord /\ r.pc = pc
  <2>1. task[i] \in TaskRecord /\ pc \in Places
    BY DEF HostOK, Busy, Places
  <2>. QED  BY <2>1, GotoType
<1>2. ShapeOf(r)
  BY DEF HostOK, ShapeOf, TaskRecord, Busy
<1>3. task' = [task EXCEPT ![i] = r]
  BY DEF HostOK, Goto
<1>4. active = {} /\ task[i].pc # "gone" /\ r.pc # "gone" /\ r.pc # "session"
  BY <1>1, OneTask DEF Busy
<1>. QED  BY <1>1, <1>2, <1>3, <1>4, HostGoesOn

LEMMA TypeIncoming ==
    ASSUME TypeInv, NEW i \in Tasks, NEW v \in Viewers, NEW auth \in {"temporary", "permanent"},
           NEW P \in Requests, NEW k \in Nat, Incoming(i, v, auth, P, k)
    PROVE  TypeInv'
<1> DEFINE r == [Gone EXCEPT !.pc = "link", !.viewer = v, !.auth = auth, !.wants = P, !.knows = k]
<1>1. r \in TaskRecord /\ ShapeOf(r) /\ r.pc = "link"
  BY GoneType, RequestsAssumption DEF TaskRecord, ShapeOf, Places, Gone, Busy
<1>2. CASE incoming /\ ~busy
  <2>1. \A j \in Tasks : task[j].pc = "gone"
    BY <1>2 DEF TypeInv, HostOK, BusyIffServed, At
  <2>2. busy' = TRUE /\ task' = [task EXCEPT ![i] = r]
    BY <1>2 DEF Incoming, Gate
  <2>3. HostOK'
    BY <2>1, <2>2, <1>1 DEF TypeInv, HostOK, BusyIffServed, At, Incoming
  <2>. QED  BY <2>3 DEF TypeInv, LimitsOK, RestOK, Incoming, limits, rules, history
<1>3. CASE ~(incoming /\ ~busy)
  <2>1. UNCHANGED <<busy, active, task>>
    BY <1>3 DEF Incoming, Gate
  <2>2. HostOK'
    BY <2>1 DEF TypeInv, HostOK, BusyIffServed, At
  <2>. QED  BY <2>2 DEF TypeInv, LimitsOK, RestOK, Incoming, limits, rules, history
<1>. QED  BY <1>2, <1>3

LEMMA TypeLink ==
    ASSUME TypeInv, NEW i \in Tasks, LinkUp(i) \/ NoLink(i)
    PROVE  TypeInv'
<1>1. HostOK'
  BY GotoHost DEF TypeInv, LinkUp, NoLink, At, Busy
<1>. QED  BY <1>1 DEF TypeInv, LimitsOK, RestOK, LinkUp, NoLink, limits, rules, clock, history

LEMMA TypeLookUp ==
    ASSUME TypeInv, NEW i \in Tasks, LookUp(i)
    PROVE  TypeInv'
<1> DEFINE v == task[i].viewer
           pw == IF task[i].auth = "temporary" THEN temp ELSE Permanent
           r == [task[i] EXCEPT !.pc = "confirm", !.offered = pw]
<1>1. task[i].pc = "hello" /\ task[i] \in TaskRecord /\ ShapeOf(task[i])
  BY DEF TypeInv, HostOK, LookUp, At
<1>2. v \in Viewers
  BY <1>1 DEF ShapeOf, Busy
<1>3. r \in TaskRecord /\ ShapeOf(r) /\ r.pc = "confirm"
  BY <1>1 DEF TypeInv, LimitsOK, TaskRecord, ShapeOf, Busy, Places, Permanent
<1>4. HostOK'
  <2>1. active' = {} /\ active' = active
    BY <1>1, OneTask DEF TypeInv, LookUp
  <2>2. CASE task' = [task EXCEPT ![i].pc = "confirm", ![i].offered = pw] /\ busy' = busy
    BY <2>1, <2>2, <1>1, <1>3, HostGoesOn DEF TypeInv, HostOK
  <2>3. CASE Release(i)
    BY <2>1, <2>3, <1>1, HostIsFree DEF TypeInv
  <2>. QED  BY <2>2, <2>3 DEF LookUp
<1>5. LimitsOK'
  BY <1>2, EmptySeq DEF TypeInv, LimitsOK, LookUp, history
<1>. QED  BY <1>4, <1>5 DEF TypeInv, RestOK, LookUp, rules, clock, history

LEMMA TypeHandshakeFails ==
    ASSUME TypeInv, NEW i \in Tasks, HandshakeFails(i)
    PROVE  TypeInv'
<1>1. HostOK'
  BY OneTask, HostIsFree DEF TypeInv, HandshakeFails, At
<1>. QED  BY <1>1 DEF TypeInv, LimitsOK, RestOK, HandshakeFails, limits, rules, clock, history

LEMMA TypeBadPassword ==
    ASSUME TypeInv, NEW i \in Tasks, BadPassword(i)
    PROVE  TypeInv'
<1> DEFINE v == task[i].viewer
           w == [by |-> v, at |-> now, pw |-> task[i].offered]
<1>1. task[i].pc = "confirm" /\ task[i] \in TaskRecord /\ v \in Viewers
  BY DEF TypeInv, HostOK, BadPassword, At, ShapeOf, Busy
<1>2. HostOK'
  BY <1>1, OneTask, HostIsFree DEF TypeInv, BadPassword
<1>3. w \in [by : Viewers \cup {Nobody}, at : Nat, pw : Nat]
  BY <1>1 DEF TypeInv, RestOK, TaskRecord
<1>4. wrong' \in Seq([by : Viewers \cup {Nobody}, at : Nat, pw : Nat])
  BY <1>3, AppendProperties DEF TypeInv, LimitsOK, BadPassword
<1>5. /\ Append(Recent(failures[v]), now) \in Seq(Nat) /\ Append(Recent(allFailures), now) \in Seq(Nat)
      /\ <<>> \in Seq(Nat) /\ now + Lockout \in Nat
  <2>1. failures[v] \in Seq(Nat) /\ allFailures \in Seq(Nat) /\ now \in Nat
    BY <1>1 DEF TypeInv, LimitsOK, RestOK
  <2>2. now + Lockout \in Nat
    BY <2>1, NumbersAssumption
  <2>. QED  BY <2>1, <2>2, RecentType, EmptySeq
<1>6. failures' \in [Viewers -> Seq(Nat)] /\ until' \in [Viewers -> Nat]
  <2> DEFINE q == Append(Recent(failures[v]), now)
  <2>1. failures \in [Viewers -> Seq(Nat)] /\ until \in [Viewers -> Nat] /\ q \in Seq(Nat)
    BY <1>5 DEF TypeInv, LimitsOK
  <2>2. /\ failures' = [failures EXCEPT ![v] = IF Len(q) >= MaxFailures THEN <<>> ELSE q]
        /\ until' = IF Len(q) >= MaxFailures THEN [until EXCEPT ![v] = now + Lockout] ELSE until
    BY DEF BadPassword, RecordFailure
  <2> HIDE DEF q
  <2>. QED  BY <1>1, <1>5, <2>1, <2>2
<1>7. allFailures' \in Seq(Nat) /\ temp' \in {temp, temp + 1}
  BY <1>5 DEF TypeInv, LimitsOK, BadPassword, RecordForAll
<1>8. LimitsOK'
  BY <1>4, <1>6, <1>7 DEF TypeInv, LimitsOK
<1>9. RestOK'
  BY DEF TypeInv, RestOK, BadPassword, rules, clock
<1>. QED  BY <1>2, <1>8, <1>9 DEF TypeInv

LEMMA TypeGoodPassword ==
    ASSUME TypeInv, NEW i \in Tasks, GoodPassword(i)
    PROVE  TypeInv'
<1> DEFINE v == task[i].viewer
           r == [task[i] EXCEPT !.pc = "decide", !.knows = Wrong]
           Record == [by : Viewers \cup {Nobody}, at : Nat, pw : Nat]
<1>1. task[i].pc = "confirm" /\ task[i] \in TaskRecord /\ v \in Viewers /\ ShapeOf(task[i])
  BY DEF TypeInv, HostOK, GoodPassword, At, ShapeOf, Busy
<1>2. r \in TaskRecord /\ ShapeOf(r) /\ r.pc = "decide"
  BY <1>1 DEF TaskRecord, ShapeOf, Busy, Places, Wrong
<1>3. HostOK'
  <2>1. task' = [task EXCEPT ![i] = r] /\ UNCHANGED <<busy, active>>
    BY DEF GoodPassword, TypeInv, HostOK
  <2>. QED  BY <1>1, <1>2, <2>1, OneTask, HostGoesOn DEF TypeInv
<1>4. wrong' \in Seq(Record)
  <2>1. \A k \in 1..Len(wrong) : wrong[k] \in Record
    BY ElementOfSeq DEF TypeInv, LimitsOK
  <2>2. Len(wrong) \in Nat /\ DOMAIN wrong = 1..Len(wrong)
    BY LenProperties DEF TypeInv, LimitsOK
  <2>3. ASSUME NEW k \in DOMAIN wrong PROVE [wrong[k] EXCEPT !.by = Nobody] \in Record
    BY <2>1, <2>2
  <2>4. wrong' \in [1..Len(wrong) -> Record]
    BY <2>1, <2>2, <2>3 DEF GoodPassword
  <2> HIDE DEF Record
  <2>. QED  BY <2>2, <2>4, SeqDef
<1>5. LimitsOK'
  BY <1>1, <1>4, EmptySeq DEF TypeInv, LimitsOK, GoodPassword
<1>. QED  BY <1>3, <1>5 DEF TypeInv, RestOK, GoodPassword, rules, clock

\* A session begins only with a standard permission.
LEMMA EnterHost ==
    ASSUME HostOK, NEW i \in Tasks, task[i].pc \in {"decide", "prompt"}, NEW P \in Permissions,
           Enter(i, P), UNCHANGED busy
    PROVE  HostOK'
<1>1. CASE P \cap Standard = {}
  BY <1>1, GotoHost DEF Enter, Busy
<1>2. CASE P \cap Standard # {}
  <2>1. PICK Q \in {P, P \ {Elevated}} :
            task' = [task EXCEPT ![i].pc = "session", ![i].wants = {}, ![i].answer = NoAnswer,
                                 ![i].granted = P, ![i].max = Q, ![i].perms = Q]
    BY <1>2 DEF Enter
  <2> DEFINE r == [task[i] EXCEPT !.pc = "session", !.wants = {}, !.answer = NoAnswer,
                                  !.granted = P, !.max = Q, !.perms = Q]
  <2>2. task[i] \in TaskRecord /\ ShapeOf(task[i]) /\ Q \in Permissions
    BY PermissionsClosed DEF HostOK
  <2>3. r \in TaskRecord /\ ShapeOf(r) /\ r.pc = "session"
    BY <2>2, EmptyPermissions DEF TaskRecord, ShapeOf, Places, Busy
  <2>4. task' = [task EXCEPT ![i] = r] /\ active' = {i}
    BY <1>2, <2>1 DEF HostOK, Enter
  <2>. QED  BY <2>3, <2>4, HostGoesOn
<1>. QED  BY <1>1, <1>2

LEMMA EntitlementType ==
    ASSUME TypeInv, NEW i \in Tasks, task[i].viewer \in Viewers
    PROVE  Entitlement(i) \in Permissions
<1>1. task[i].wants \in Permissions /\ resume[task[i].viewer].perms \in Permissions
  BY DEF TypeInv, HostOK, RestOK, TaskRecord
<1>. QED  BY <1>1, PermissionsClosed DEF Entitlement

LEMMA TypeDecide ==
    ASSUME TypeInv, NEW i \in Tasks, Decide(i)
    PROVE  TypeInv'
<1>1. task[i].pc = "decide" /\ task[i].viewer \in Viewers
  BY DEF Decide, At, TypeInv, HostOK, ShapeOf, Busy
<1>2. HostOK'
  <2>1. CASE Enter(i, Entitlement(i))
    BY <1>1, <2>1, EnterHost, EntitlementType DEF Decide, TypeInv
  <2>2. CASE Goto(i, "prompt") /\ UNCHANGED active
    BY <1>1, <2>2, GotoHost DEF Decide, TypeInv, Busy
  <2>. QED  BY <2>1, <2>2 DEF Decide
<1>. QED  BY <1>2 DEF TypeInv, LimitsOK, RestOK, Decide, limits, rules, clock, history

LEMMA TypeRespond ==
    ASSUME TypeInv, NEW i \in Tasks, NEW P \in Answers, Respond(i, P)
    PROVE  TypeInv'
<1> DEFINE r == [task[i] EXCEPT !.answer = [given |-> TRUE, to |-> P]]
<1>1. task[i].pc = "prompt" /\ task[i] \in TaskRecord /\ ShapeOf(task[i])
  BY DEF Respond, At, TypeInv, HostOK
<1>2. r \in TaskRecord /\ ShapeOf(r) /\ r.pc = "prompt"
  BY <1>1, RequestsAssumption DEF TaskRecord, ShapeOf, Busy
<1>3. task' = [task EXCEPT ![i] = r] /\ active = {}
  BY <1>1, OneTask DEF Respond, TypeInv, HostOK
<1>4. HostOK'
  BY <1>1, <1>2, <1>3, HostGoesOn DEF TypeInv, Respond
<1>. QED  BY <1>4 DEF TypeInv, LimitsOK, RestOK, Respond, limits, rules, clock, history

LEMMA TypePromptEnds ==
    ASSUME TypeInv, NEW i \in Tasks, PromptEnds(i)
    PROVE  TypeInv'
<1> DEFINE P == IF task[i].answer.given THEN task[i].answer.to \cap task[i].wants ELSE {}
<1>1. task[i].pc = "prompt" /\ P \in Permissions
  BY PermissionsClosed, EmptyPermissions DEF PromptEnds, At, TypeInv, HostOK, TaskRecord
<1>2. HostOK'
  BY <1>1, EnterHost DEF PromptEnds, TypeInv
<1>. QED  BY <1>2 DEF TypeInv, LimitsOK, RestOK, PromptEnds, limits, rules, clock, history

\* The permissions of the session change.
LEMMA ChangeHost ==
    ASSUME HostOK, NEW i \in active, NEW Q \in Permissions, NEW R \in Permissions, Q \subseteq R,
           task' = [task EXCEPT ![i].perms = Q, ![i].max = R], UNCHANGED <<busy, active>>
    PROVE  HostOK'
<1> DEFINE r == [task[i] EXCEPT !.perms = Q, !.max = R]
<1>1. i \in Tasks /\ task[i].pc = "session" /\ task[i] \in TaskRecord /\ ShapeOf(task[i])
  BY DEF HostOK, BusyIffServed, At
<1>2. r \in TaskRecord /\ ShapeOf(r) /\ r.pc = "session"
  BY <1>1 DEF TaskRecord, ShapeOf, Busy
<1>3. task' = [task EXCEPT ![i] = r] /\ active = {i}
  BY <1>1, OneTask DEF HostOK
<1>. QED  BY <1>1, <1>2, <1>3, HostGoesOn

LEMMA TypeSetPermissions ==
    ASSUME TypeInv, NEW P \in Answers, SetPermissions(P)
    PROVE  TypeInv'
<1>1. PICK i \in active :
         \E Q \in {P \cap task[i].max, (P \cap task[i].max) \ ({Elevated} \ task[i].perms)} :
            task' = [task EXCEPT ![i].perms = Q]
  BY DEF SetPermissions
<1>2. PICK Q : /\ Q \in {P \cap task[i].max, (P \cap task[i].max) \ ({Elevated} \ task[i].perms)}
              /\ task' = [task EXCEPT ![i].perms = Q]
  BY <1>1
<1>3. task[i].max \in Permissions /\ i \in Tasks /\ task[i] \in TaskRecord
  BY DEF TypeInv, HostOK, TaskRecord
<1>4. Q \in Permissions /\ Q \subseteq task[i].max
  BY <1>2, <1>3 DEF Permissions
<1>5. task' = [task EXCEPT ![i].perms = Q, ![i].max = task[i].max]
  BY <1>2, <1>3 DEF TypeInv, HostOK, TaskRecord
<1>6. HostOK'
  BY <1>3, <1>4, <1>5, ChangeHost DEF TypeInv, SetPermissions
<1>. QED  BY <1>6 DEF TypeInv, LimitsOK, RestOK, SetPermissions, limits, rules, clock, history

LEMMA TypeElevatedLost ==
    ASSUME TypeInv, ElevatedLost
    PROVE  TypeInv'
<1>1. PICK i \in active :
         task' = [task EXCEPT ![i].perms = @ \ {Elevated}, ![i].max = @ \ {Elevated}]
  BY DEF ElevatedLost
<1> DEFINE Q == task[i].perms \ {Elevated}
           R == task[i].max \ {Elevated}
<1>2. i \in Tasks /\ task[i] \in TaskRecord /\ ShapeOf(task[i])
  BY DEF TypeInv, HostOK
<1>3. Q \in Permissions /\ R \in Permissions /\ Q \subseteq R
  BY <1>2, PermissionsClosed DEF TaskRecord, ShapeOf
<1>4. task' = [task EXCEPT ![i].perms = Q, ![i].max = R]
  BY <1>1, <1>2 DEF TypeInv, HostOK, TaskRecord
<1>5. HostOK'
  BY <1>3, <1>4, ChangeHost DEF TypeInv, ElevatedLost
<1>. QED  BY <1>5 DEF TypeInv, LimitsOK, RestOK, ElevatedLost, limits, rules, clock, history

LEMMA TypeSessionEnds ==
    ASSUME TypeInv, NEW i \in Tasks, NEW lost \in BOOLEAN, SessionEnds(i, lost)
    PROVE  TypeInv'
<1> DEFINE v == task[i].viewer
           pc == IF ~lost /\ RotateAfter THEN "rotate" ELSE "leave"
           r == [Gone EXCEPT !.pc = pc]
<1>1. task[i].pc = "session" /\ task[i] \in TaskRecord /\ v \in Viewers
  BY DEF SessionEnds, Over, At, TypeInv, HostOK, ShapeOf, Busy
<1>2. r \in TaskRecord /\ ShapeOf(r) /\ r.pc = pc /\ pc \in {"rotate", "leave"}
  BY GoneType DEF Gone, TaskRecord, ShapeOf, Busy, Places
<1>3. task' = [task EXCEPT ![i] = r] /\ active' = {} /\ busy' = busy
  BY DEF SessionEnds, Over
<1>4. HostOK'
  BY <1>1, <1>2, <1>3, HostGoesOn DEF TypeInv
<1>5. task[i].granted \in Permissions /\ task[i].offered \in Nat
  BY <1>1 DEF TaskRecord
<1>6. RestOK'
  BY <1>1, <1>5, EmptyPermissions DEF TypeInv, RestOK, SessionEnds, Over, NoGrant, rules, clock
<1>. QED  BY <1>4, <1>6 DEF TypeInv, LimitsOK, SessionEnds, Over, limits

LEMMA TypeRotate ==
    ASSUME TypeInv, NEW i \in Tasks, Rotate(i)
    PROVE  TypeInv'
<1> DEFINE r == [task[i] EXCEPT !.pc = "leave"]
<1>1. task[i].pc = "rotate" /\ task[i] \in TaskRecord /\ ShapeOf(task[i])
  BY DEF Rotate, At, TypeInv, HostOK
<1>2. r \in TaskRecord /\ ShapeOf(r) /\ r.pc = "leave"
  BY <1>1 DEF TaskRecord, ShapeOf, Busy, Places
<1>3. task' = [task EXCEPT ![i] = r] /\ UNCHANGED <<busy, active>> /\ active = {}
  BY <1>1, OneTask DEF Rotate, Goto, TypeInv, HostOK
<1>4. HostOK'
  BY <1>1, <1>2, <1>3, HostGoesOn DEF TypeInv
<1>. QED  BY <1>4 DEF TypeInv, LimitsOK, RestOK, Rotate, limits, rules, clock, history

LEMMA TypeLeave ==
    ASSUME TypeInv, NEW i \in Tasks, Leave(i)
    PROVE  TypeInv'
<1>1. HostOK'
  BY OneTask, HostIsFree DEF TypeInv, Leave, At
<1>. QED  BY <1>1 DEF TypeInv, LimitsOK, RestOK, Leave, limits, rules, clock, history

LEMMA TypeOther ==
    ASSUME TypeInv,
           \/ Regenerate \/ FindExpired \/ Expire \/ Tick
           \/ \E on \in BOOLEAN : SetIncoming(on) \/ SetUnattendedElevated(on)
           \/ \E on \in BOOLEAN, ids \in SUBSET Viewers : SetUnattended(on, ids)
           \/ UNCHANGED vars
    PROVE  TypeInv'
<1>1. UNCHANGED access
  BY DEF Regenerate, FindExpired, Expire, Tick, SetIncoming, SetUnattendedElevated, SetUnattended,
         vars, access
<1>2. HostOK'
  BY <1>1 DEF TypeInv, HostOK, BusyIffServed, At, access
<1>3. LimitsOK'
  BY DEF TypeInv, LimitsOK, Regenerate, FindExpired, Expire, Tick, SetIncoming,
         SetUnattendedElevated, SetUnattended, vars, limits, history
<1>4. RestOK'
  <2>1. RestOK
    BY DEF TypeInv
  <2>2. now' \in Nat /\ announced' \in Nat /\ changes' \in Nat
    BY DEF TypeInv, RestOK, Regenerate, FindExpired, Expire, Tick, SetIncoming, Changing,
           SetUnattendedElevated, SetUnattended, vars, clock
  <2>3. expiring' \in BOOLEAN /\ unattended' \in BOOLEAN /\ unattendedElevated' \in BOOLEAN
        /\ incoming' \in BOOLEAN
    BY Zenon DEF TypeInv, RestOK, Regenerate, FindExpired, Expire, Tick, SetIncoming,
           SetUnattendedElevated, SetUnattended, vars, rules
  <2>4. UNCHANGED <<resume, spent>> /\ authorized' \subseteq Viewers
    BY DEF TypeInv, RestOK, Regenerate, FindExpired, Expire, Tick, SetIncoming,
           SetUnattendedElevated, SetUnattended, vars, history, rules
  <2>. QED  BY <2>1, <2>2, <2>3, <2>4 DEF RestOK
<1>. QED  BY <1>2, <1>3, <1>4 DEF TypeInv

LEMMA TypeNext == TypeInv /\ [Next]_vars => TypeInv'
<1>. SUFFICES ASSUME TypeInv, [Next]_vars PROVE TypeInv'
  OBVIOUS
<1>1. ASSUME NEW i \in Tasks, NEW v \in Viewers, NEW P \in Requests,
             \/ \E k \in {Wrong, temp, temp - 1} : Incoming(i, v, "temporary", P, k)
             \/ \E k \in {Wrong, Permanent} : Incoming(i, v, "permanent", P, k)
      PROVE  TypeInv'
  <2>1. {Wrong, temp, temp - 1, Permanent} \subseteq Nat
    BY DEF TypeInv, LimitsOK, Wrong, Permanent
  <2>. QED  BY <1>1, <2>1, TypeIncoming
<1>2. ASSUME NEW i \in Tasks,
             \/ LinkUp(i) \/ NoLink(i) \/ LookUp(i) \/ HandshakeFails(i)
             \/ BadPassword(i) \/ GoodPassword(i)
             \/ Decide(i) \/ PromptEnds(i)
             \/ Rotate(i) \/ Leave(i)
      PROVE  TypeInv'
  BY <1>2, TypeLink, TypeLookUp, TypeHandshakeFails, TypeBadPassword, TypeGoodPassword, TypeDecide,
     TypePromptEnds, TypeRotate, TypeLeave
<1>3. ASSUME NEW i \in Tasks, NEW P \in Answers, Respond(i, P)
      PROVE  TypeInv'
  BY <1>3, TypeRespond
<1>4. ASSUME NEW i \in Tasks, NEW lost \in BOOLEAN, SessionEnds(i, lost)
      PROVE  TypeInv'
  BY <1>4, TypeSessionEnds
<1>5. CASE Owner
  BY <1>5, TypeSetPermissions, TypeOther DEF Owner
<1>6. CASE ElevatedLost \/ FindExpired \/ Expire \/ Tick \/ UNCHANGED vars
  BY <1>6, TypeElevatedLost, TypeOther
<1>. QED  BY <1>1, <1>2, <1>3, <1>4, <1>5, <1>6 DEF Next

LEMMA TypeHolds == Spec => []TypeInv
<1>. QED  BY TypeInit, TypeNext, PTL DEF Spec

\* Types are kept, and the host is busy exactly while one task has it: no way out of
\* handle_incoming leaves it busy for ever, and none frees it under another task.
THEOREM HostConsistent == Spec => []Consistent
<1>. QED  BY TypeHolds, TypeMeans, PTL

-----------------------------------------------------------------------------
(* Passwords that are used up *)

\* A task with a password got it when it was looked up, and keeps it.
KeepsOffer(j) ==
    task'[j].pc \in Offered =>
        /\ task[j].pc \in Offered
        /\ task'[j].offered = task[j].offered /\ task'[j].auth = task[j].auth
        /\ task'[j].viewer = task[j].viewer
        /\ task'[j].pc = "confirm" => task[j].pc = "confirm"

LEMMA GotoKeeps ==
    ASSUME TypeInv, NEW i \in Tasks, NEW pc, Goto(i, pc), NEW j \in Tasks,
           pc \in Offered => task[i].pc \in Offered /\ pc # "confirm"
    PROVE  KeepsOffer(j)
BY DEF TypeInv, HostOK, TaskRecord, Goto, KeepsOffer

LEMMA ReleaseKeeps ==
    ASSUME TypeInv, NEW i \in Tasks, Release(i), NEW j \in Tasks
    PROVE  KeepsOffer(j)
BY GoneType DEF TypeInv, HostOK, Release, KeepsOffer, Offered

LEMMA EnterKeeps ==
    ASSUME TypeInv, NEW i \in Tasks, NEW P, Enter(i, P), task[i].pc \in Offered, NEW j \in Tasks
    PROVE  KeepsOffer(j)
<1>1. CASE P \cap Standard = {}
  BY <1>1, GotoKeeps DEF Enter, Offered
<1>2. CASE P \cap Standard # {}
  <2>1. PICK Q : task' = [task EXCEPT ![i].pc = "session", ![i].wants = {}, ![i].answer = NoAnswer,
                                     ![i].granted = P, ![i].max = Q, ![i].perms = Q]
    BY <1>2 DEF Enter
  <2>. QED  BY <2>1 DEF TypeInv, HostOK, TaskRecord, KeepsOffer, Offered
<1>. QED  BY <1>1, <1>2

LEMMA OffersAreKept ==
    ASSUME TypeInv, [Next]_vars, NEW j \in Tasks, ~\E i \in Tasks : LookUp(i)
    PROVE  KeepsOffer(j)
<1>1. ASSUME UNCHANGED task
      PROVE  KeepsOffer(j)
  BY <1>1 DEF KeepsOffer
<1>2. ASSUME NEW i \in Tasks, NEW v \in Viewers, NEW auth, NEW P, NEW k, Incoming(i, v, auth, P, k)
      PROVE  KeepsOffer(j)
  <2>1. \/ UNCHANGED task
        \/ task' = [task EXCEPT ![i] = [Gone EXCEPT !.pc = "link", !.viewer = v, !.auth = auth,
                                                    !.wants = P, !.knows = k]]
    BY <1>2 DEF Incoming, Gate
  <2>2. CASE task' = [task EXCEPT ![i] = [Gone EXCEPT !.pc = "link", !.viewer = v, !.auth = auth,
                                                      !.wants = P, !.knows = k]]
    <3>1. task'[i].pc = "link" /\ \A h \in Tasks \ {i} : task'[h] = task[h]
      BY <2>2 DEF TypeInv, HostOK, Gone
    <3>. QED  BY <3>1 DEF KeepsOffer, Offered
  <2>. QED  BY <1>1, <2>1, <2>2
<1>3. ASSUME NEW i \in Tasks, LinkUp(i) \/ NoLink(i) \/ Rotate(i)
      PROVE  KeepsOffer(j)
  BY <1>3, GotoKeeps DEF LinkUp, NoLink, Rotate, Offered
<1>4. ASSUME NEW i \in Tasks, HandshakeFails(i) \/ BadPassword(i) \/ Leave(i)
      PROVE  KeepsOffer(j)
  BY <1>4, ReleaseKeeps DEF HandshakeFails, BadPassword, Leave
<1>5. ASSUME NEW i \in Tasks, GoodPassword(i)
      PROVE  KeepsOffer(j)
  BY <1>5 DEF TypeInv, HostOK, TaskRecord, GoodPassword, At, KeepsOffer, Offered
<1>6. ASSUME NEW i \in Tasks, Decide(i) \/ PromptEnds(i)
      PROVE  KeepsOffer(j)
  BY <1>6, EnterKeeps, GotoKeeps DEF Decide, PromptEnds, At, Offered
<1>7. ASSUME NEW i \in Tasks, NEW P, Respond(i, P)
      PROVE  KeepsOffer(j)
  BY <1>7 DEF TypeInv, HostOK, TaskRecord, Respond, At, KeepsOffer, Offered
<1>8. ASSUME NEW i \in Tasks, NEW lost, SessionEnds(i, lost)
      PROVE  KeepsOffer(j)
  <2>1. task' = [task EXCEPT ![i] = [Gone EXCEPT !.pc = IF ~lost /\ RotateAfter THEN "rotate" ELSE "leave"]]
    BY <1>8 DEF SessionEnds, Over
  <2>. QED  BY <2>1 DEF TypeInv, HostOK, Gone, KeepsOffer, Offered
<1>9. ASSUME NEW P, SetPermissions(P) \/ ElevatedLost
      PROVE  KeepsOffer(j)
  <2>1. PICK i, Q, R : /\ i \in Tasks
                       /\ \/ task' = [task EXCEPT ![i].perms = Q]
                          \/ task' = [task EXCEPT ![i].perms = Q, ![i].max = R]
    <3>1. active \subseteq Tasks
      BY DEF TypeInv, HostOK
    <3>2. CASE SetPermissions(P)
      BY <3>1, <3>2 DEF SetPermissions
    <3>3. CASE ElevatedLost
      BY <3>1, <3>3 DEF ElevatedLost
    <3>. QED  BY <1>9, <3>2, <3>3
  <2>2. task \in [Tasks -> TaskRecord] /\ task[j] \in TaskRecord
    BY DEF TypeInv, HostOK
  <2>3. /\ task'[j].pc = task[j].pc /\ task'[j].offered = task[j].offered
        /\ task'[j].auth = task[j].auth /\ task'[j].viewer = task[j].viewer
    BY <2>1, <2>2 DEF TaskRecord
  <2>. QED  BY <2>3 DEF KeepsOffer
<1>10. ASSUME \/ FindExpired \/ Expire \/ Tick \/ Regenerate \/ UNCHANGED vars
              \/ \E on : SetIncoming(on) \/ SetUnattendedElevated(on)
              \/ \E on, ids : SetUnattended(on, ids)
       PROVE  KeepsOffer(j)
  BY <1>1, <1>10 DEF FindExpired, Expire, Tick, Regenerate, SetIncoming, SetUnattendedElevated,
     SetUnattended, access, vars
<1>11. CASE Owner
  <2>1. CASE \E P \in Answers : SetPermissions(P)
    BY <1>9, <2>1
  <2>. QED  BY <1>10, <1>11, <2>1 DEF Owner
<1>12. CASE \E i \in Tasks, v \in Viewers, P \in Requests :
               \/ \E k \in {Wrong, temp, temp - 1} : Incoming(i, v, "temporary", P, k)
               \/ \E k \in {Wrong, Permanent} : Incoming(i, v, "permanent", P, k)
  BY <1>2, <1>12
<1>13. CASE \E i \in Tasks : \/ LinkUp(i) \/ NoLink(i) \/ HandshakeFails(i)
                             \/ BadPassword(i) \/ GoodPassword(i)
                             \/ Decide(i) \/ PromptEnds(i)
                             \/ Rotate(i) \/ Leave(i)
  BY <1>3, <1>4, <1>5, <1>6, <1>13
<1>. QED  BY <1>7, <1>8, <1>9, <1>10, <1>11, <1>12, <1>13 DEF Next

\* What each step does to what is used up: a session that ends may add a password, and
\* then the host is busy until there is another one.
LEMMA RotateStays ==
    ASSUME TypeInv, [Next]_vars, NEW j \in Tasks, task[j].pc = "rotate", ~Rotate(j)
    PROVE  task'[j] = task[j]
<1>1. busy /\ active = {} /\ \A i \in Tasks \ {j} : task[i].pc = "gone"
  BY OneTask DEF TypeInv
<1>2. ASSUME NEW i \in Tasks, NEW v, NEW auth, NEW P, NEW k, Incoming(i, v, auth, P, k)
      PROVE  task' = task
  BY <1>1, <1>2 DEF Incoming, Gate
<1>3. ASSUME NEW i \in Tasks
      PROVE  /\ ~(LinkUp(i) \/ NoLink(i) \/ LookUp(i) \/ HandshakeFails(i) \/ BadPassword(i))
             /\ ~(GoodPassword(i) \/ Decide(i) \/ PromptEnds(i) \/ Leave(i))
             /\ \A P : ~Respond(i, P) /\ \A lost : ~SessionEnds(i, lost)
             /\ i # j => ~Rotate(i)
  BY <1>1 DEF LinkUp, NoLink, LookUp, HandshakeFails, BadPassword, GoodPassword, Decide, PromptEnds,
     Leave, Respond, SessionEnds, Over, Rotate, At
<1>4. ~ElevatedLost /\ \A P : ~SetPermissions(P)
  BY <1>1 DEF ElevatedLost, SetPermissions
<1>5. ASSUME \/ FindExpired \/ Expire \/ Tick \/ Regenerate \/ UNCHANGED vars
             \/ \E on : SetIncoming(on) \/ SetUnattendedElevated(on)
             \/ \E on, ids : SetUnattended(on, ids)
      PROVE  task' = task
  BY <1>5 DEF FindExpired, Expire, Tick, Regenerate, SetIncoming, SetUnattendedElevated,
     SetUnattended, access, vars
<1>6. CASE Owner
  BY <1>4, <1>5, <1>6 DEF Owner
<1>7. CASE \E i \in Tasks, v \in Viewers, P \in Requests :
               \/ \E k \in {Wrong, temp, temp - 1} : Incoming(i, v, "temporary", P, k)
               \/ \E k \in {Wrong, Permanent} : Incoming(i, v, "permanent", P, k)
  BY <1>2, <1>7
<1>. QED  BY <1>3, <1>4, <1>5, <1>6, <1>7 DEF Next

LEMMA TempGrows ==
    ASSUME TypeInv, [Next]_vars
    PROVE  temp' \in {temp, temp + 1} /\ temp' \in Nat
<1>1. temp \in Nat
  BY DEF TypeInv, LimitsOK
<1>2. ASSUME NEW i \in Tasks, BadPassword(i)
      PROVE  temp' \in {temp, temp + 1}
  BY <1>2 DEF BadPassword, RecordForAll
<1>3. ASSUME NEW i \in Tasks, NEW v, NEW auth, NEW P, NEW k, Incoming(i, v, auth, P, k)
      PROVE  temp' = temp
  BY <1>3 DEF Incoming
<1>4. ASSUME NEW i \in Tasks, LinkUp(i) \/ NoLink(i) \/ LookUp(i) \/ HandshakeFails(i) \/ GoodPassword(i)
                              \/ Decide(i) \/ PromptEnds(i) \/ Rotate(i) \/ Leave(i)
      PROVE  temp' \in {temp, temp + 1}
  BY <1>4 DEF LinkUp, NoLink, LookUp, HandshakeFails, GoodPassword, Decide, PromptEnds, Rotate, Leave
<1>5. ASSUME NEW i \in Tasks, NEW P, NEW lost, Respond(i, P) \/ SessionEnds(i, lost)
      PROVE  temp' = temp
  BY <1>5 DEF Respond, SessionEnds, Over
<1>6. ASSUME \/ FindExpired \/ Expire \/ Tick \/ UNCHANGED vars \/ ElevatedLost \/ Owner
      PROVE  temp' \in {temp, temp + 1}
  BY <1>6 DEF FindExpired, Expire, Tick, Regenerate, SetIncoming, SetUnattendedElevated,
     SetUnattended, SetPermissions, ElevatedLost, Owner, vars
<1>7. CASE \E i \in Tasks, v \in Viewers, P \in Requests :
               \/ \E k \in {Wrong, temp, temp - 1} : Incoming(i, v, "temporary", P, k)
               \/ \E k \in {Wrong, Permanent} : Incoming(i, v, "permanent", P, k)
  BY <1>1, <1>3, <1>7
<1>8. temp' \in {temp, temp + 1}
  BY <1>2, <1>4, <1>5, <1>6, <1>7 DEF Next
<1>. QED  BY <1>1, <1>8

LEMMA SpentGrows ==
    ASSUME TypeInv, [Next]_vars, ~\E i \in Tasks, lost \in BOOLEAN : SessionEnds(i, lost)
    PROVE  spent' = spent
<1>1. ASSUME NEW i \in Tasks, NEW v, NEW auth, NEW P, NEW k, Incoming(i, v, auth, P, k)
      PROVE  spent' = spent
  BY <1>1 DEF Incoming, history
<1>2. ASSUME NEW i \in Tasks, LinkUp(i) \/ NoLink(i) \/ LookUp(i) \/ HandshakeFails(i) \/ GoodPassword(i)
                              \/ BadPassword(i) \/ Decide(i) \/ PromptEnds(i) \/ Rotate(i) \/ Leave(i)
                              \/ \E P : Respond(i, P)
      PROVE  spent' = spent
  BY <1>2 DEF LinkUp, NoLink, LookUp, HandshakeFails, GoodPassword, BadPassword, Decide, PromptEnds,
     Rotate, Leave, Respond, history
<1>3. ASSUME \/ FindExpired \/ Expire \/ Tick \/ UNCHANGED vars \/ ElevatedLost \/ Owner
      PROVE  spent' = spent
  BY <1>3 DEF FindExpired, Expire, Tick, Regenerate, SetIncoming, SetUnattendedElevated,
     SetUnattended, SetPermissions, ElevatedLost, Owner, vars, history
<1>4. CASE \E i \in Tasks, v \in Viewers, P \in Requests :
               \/ \E k \in {Wrong, temp, temp - 1} : Incoming(i, v, "temporary", P, k)
               \/ \E k \in {Wrong, Permanent} : Incoming(i, v, "permanent", P, k)
  BY <1>1, <1>4
<1>. QED  BY <1>2, <1>3, <1>4 DEF Next

\* A used password is an older one, or the task that used it is about to rotate it;
\* what a task was offered is not used up.
UsedUp ==
    /\ \A p \in spent : p <= temp /\ (p = temp => \E i \in Tasks : task[i].pc = "rotate")
    /\ \A i \in Tasks : task[i].pc \in Offered /\ task[i].auth = "temporary"
                           => task[i].offered <= temp /\ task[i].offered \notin spent

LEMMA UsedUpNext == TypeInv /\ UsedUp /\ [Next]_vars => UsedUp'
<1>. SUFFICES ASSUME TypeInv, UsedUp, [Next]_vars PROVE UsedUp'
  OBVIOUS
<1>0. temp \in Nat /\ temp' \in {temp, temp + 1} /\ spent \subseteq Nat
  BY TempGrows DEF TypeInv, LimitsOK, RestOK
<1>1. ASSUME NEW i \in Tasks, LookUp(i)
      PROVE  UsedUp'
  <2>1. \A j \in Tasks \ {i} : task[j].pc = "gone"
    BY <1>1, OneTask DEF LookUp, At, TypeInv
  <2>2. task[i].pc = "hello" /\ task[i] \in TaskRecord
    BY <1>1 DEF LookUp, At, TypeInv, HostOK
  <2>3. spent' = spent /\ temp' = temp
    BY <1>1 DEF LookUp, history
  <2>4. \A p \in spent : p < temp
    BY <1>0, <2>1, <2>2 DEF UsedUp
  <2>5. CASE task' = [task EXCEPT ![i] = Gone]
    BY <2>1, <2>3, <2>4, <2>5, <1>0, GoneType DEF UsedUp, Offered, TypeInv, HostOK
  <2>6. CASE task' = [task EXCEPT ![i].pc = "confirm",
                                  ![i].offered = IF task[i].auth = "temporary" THEN temp ELSE Permanent]
    <3>1. task'[i].auth = "temporary" => task'[i].offered = temp
      BY <2>2, <2>6 DEF TypeInv, HostOK, TaskRecord
    <3>2. \A j \in Tasks \ {i} : task'[j].pc = "gone"
      BY <2>1, <2>6 DEF TypeInv, HostOK
    <3>. QED  BY <2>3, <2>4, <3>1, <3>2, <1>0 DEF UsedUp, Offered
  <2>. QED  BY <1>1, <2>5, <2>6 DEF LookUp, Release
<1>2. ASSUME NEW i \in Tasks, NEW lost \in BOOLEAN, SessionEnds(i, lost)
      PROVE  UsedUp'
  <2>1. \A j \in Tasks \ {i} : task[j].pc = "gone"
    BY <1>2, OneTask DEF SessionEnds, Over, At, TypeInv
  <2>2. task[i].pc = "session" /\ task[i] \in TaskRecord
    BY <1>2 DEF SessionEnds, Over, At, TypeInv, HostOK
  <2> DEFINE rotates == ~lost /\ RotateAfter
  <2>3. /\ temp' = temp
        /\ spent' = IF rotates /\ task[i].auth = "temporary" THEN spent \cup {task[i].offered} ELSE spent
        /\ task' = [task EXCEPT ![i] = [Gone EXCEPT !.pc = IF rotates THEN "rotate" ELSE "leave"]]
    BY <1>2 DEF SessionEnds, Over
  <2>4. \A p \in spent : p < temp
    BY <1>0, <2>1, <2>2 DEF UsedUp
  <2>5. task'[i].pc = IF rotates THEN "rotate" ELSE "leave"
    BY <2>3 DEF Gone, TypeInv, HostOK
  <2>6. \A j \in Tasks : task'[j].pc \notin Offered
    BY <2>1, <2>3, <2>5 DEF Offered, TypeInv, HostOK
  <2>7. task[i].auth = "temporary" => task[i].offered <= temp
    BY <2>2 DEF UsedUp, Offered
  <2>8. \A p \in spent' : p <= temp' /\ (p = temp' => rotates)
    BY <2>3, <2>4, <2>7, <1>0
  <2>. QED  BY <2>5, <2>6, <2>8 DEF UsedUp
<1>3. ASSUME ~\E i \in Tasks : LookUp(i), ~\E i \in Tasks, lost \in BOOLEAN : SessionEnds(i, lost)
      PROVE  UsedUp'
  <2>1. spent' = spent
    BY <1>3, SpentGrows
  <2>2. ASSUME NEW p \in spent, p = temp'
        PROVE  \E i \in Tasks : task'[i].pc = "rotate"
    <3>1. p = temp /\ temp' = temp
      BY <1>0, <2>2 DEF UsedUp
    <3>2. PICK i \in Tasks : task[i].pc = "rotate"
      BY <3>1 DEF UsedUp
    <3>3. ~Rotate(i)
      BY <3>1, <1>0 DEF Rotate
    <3>. QED  BY <3>2, <3>3, RotateStays
  <2>3. \A p \in spent : p <= temp'
    BY <1>0 DEF UsedUp
  <2>4. ASSUME NEW i \in Tasks, task'[i].pc \in Offered, task'[i].auth = "temporary"
        PROVE  task'[i].offered <= temp' /\ task'[i].offered \notin spent
    <3>1. KeepsOffer(i)
      BY <1>3, OffersAreKept
    <3>2. task[i].offered \in Nat
      BY DEF TypeInv, HostOK, TaskRecord
    <3>. QED  BY <2>4, <3>1, <3>2, <1>0 DEF KeepsOffer, UsedUp
  <2>. QED  BY <2>1, <2>2, <2>3, <2>4 DEF UsedUp
<1>. QED  BY <1>1, <1>2, <1>3

LEMMA UsedUpHolds == Spec => []UsedUp
<1>1. Init => UsedUp
  BY DEF Init, UsedUp, Gone, Offered
<1>. QED  BY <1>1, UsedUpNext, TypeHolds, PTL DEF Spec

\* Once a session that a temporary password opened was closed, that password opens no
\* other: whoever was offered it earlier has gone by then.
THEOREM UsedPasswordStaysDead == Spec => []UsedPasswordIsDead
<1>1. UsedUp => UsedPasswordIsDead
  BY DEF UsedUp, UsedPasswordIsDead, At, Offered
<1>. QED  BY <1>1, UsedUpHolds, PTL

-----------------------------------------------------------------------------
(* What an AttemptLimiter remembers *)

Guess == [by : Viewers \cup {Nobody}, at : Nat, pw : Nat]

\* The guesses of S, by their index in w, that count at time t; each is a failure of its
\* own in q; and failures are recorded as time goes on.
Young(S, w, t) == {k \in S : t - w[k].at < Window}
Kept(S, q, w, t) == \E f \in Injection(Young(S, w, t), DOMAIN q) :
                       \A k \in Young(S, w, t) : q[f[k]] = w[k].at
Timely(q, t) == /\ \A k \in DOMAIN q : q[k] <= t
                /\ \A j, k \in DOMAIN q : j <= k => q[j] <= q[k]

LEMMA UpTo ==
    ASSUME NEW n \in Nat
    PROVE  IsFiniteSet(1..n) /\ Cardinality(1..n) = n
BY FS_Interval

LEMMA Indices ==
    ASSUME NEW T, NEW q \in Seq(T)
    PROVE  /\ Len(q) \in Nat /\ DOMAIN q = 1..Len(q) /\ \A k \in DOMAIN q : q[k] \in T
           /\ IsFiniteSet(DOMAIN q) /\ Cardinality(DOMAIN q) = Len(q)
<1>1. Len(q) \in Nat /\ DOMAIN q = 1..Len(q) /\ \A k \in DOMAIN q : q[k] \in T
  BY LenProperties
<1>2. IsFiniteSet(DOMAIN q) /\ Cardinality(DOMAIN q) = Len(q)
  BY <1>1, UpTo
<1>. QED  BY <1>1, <1>2

LEMMA YoungAreFew ==
    ASSUME NEW q \in Seq(Nat), NEW S, NEW w, NEW t, Kept(S, q, w, t)
    PROVE  /\ IsFiniteSet(Young(S, w, t)) /\ Cardinality(Young(S, w, t)) \in Nat
           /\ Cardinality(Young(S, w, t)) <= Len(q)
<1>1. Len(q) \in Nat /\ DOMAIN q = 1..Len(q)
  BY LenProperties
<1>2. IsFiniteSet(DOMAIN q) /\ Cardinality(DOMAIN q) = Len(q)
  BY Indices
<1>3. PICK f : f \in Injection(Young(S, w, t), DOMAIN q)
  BY DEF Kept
<1>4. IsFiniteSet(Young(S, w, t)) /\ Cardinality(Young(S, w, t)) <= Cardinality(DOMAIN q)
  BY <1>2, <1>3, FS_Injection
<1>. QED  BY <1>2, <1>4, FS_CardinalityType

\* What counts later is among what counts now.
LEMMA KeptLess ==
    ASSUME NEW S, NEW q, NEW w, NEW t, Kept(S, q, w, t), NEW R, NEW x, NEW u,
           Young(R, x, u) \subseteq Young(S, w, t), \A k \in Young(R, x, u) : x[k].at = w[k].at
    PROVE  Kept(R, q, x, u)
<1>1. PICK f \in Injection(Young(S, w, t), DOMAIN q) : \A k \in Young(S, w, t) : q[f[k]] = w[k].at
  BY DEF Kept
<1> DEFINE g == [k \in Young(R, x, u) |-> f[k]]
<1>2. g \in Injection(Young(R, x, u), DOMAIN q)
  BY <1>1 DEF Injection, IsInjective
<1>3. \A k \in Young(R, x, u) : q[g[k]] = x[k].at
  BY <1>1
<1>. QED  BY <1>2, <1>3 DEF Kept

LEMMA KeptNone ==
    ASSUME NEW S, NEW q, NEW w, NEW t, Young(S, w, t) = {}
    PROVE  Kept(S, q, w, t)
<1> DEFINE g == [k \in {} |-> 0]
<1>1. g \in Injection({}, DOMAIN q)
  BY DEF Injection, IsInjective
<1>. QED  BY <1>1 DEF Kept

\* retain drops a prefix, with nothing young in it.
LEMMA RecentDrops ==
    ASSUME NEW q \in Seq(Nat), now \in Nat, Timely(q, now)
    PROVE  \E d \in 0..Len(q) :
              /\ Recent(q) \in Seq(Nat) /\ Len(Recent(q)) = Len(q) - d
              /\ \A k \in 1..(Len(q) - d) : Recent(q)[k] = q[k + d]
              /\ \A k \in DOMAIN q : now - q[k] < Window => k > d
<1> DEFINE old == {k \in DOMAIN q : now - q[k] >= Window}
           d == Cardinality(old)
<1>1. Len(q) \in Nat /\ DOMAIN q = 1..Len(q) /\ \A k \in 1..Len(q) : q[k] \in Nat
  BY LenProperties
<1>2. IsFiniteSet(DOMAIN q) /\ Cardinality(DOMAIN q) = Len(q)
  BY Indices
<1>3. old \in SUBSET DOMAIN q
  OBVIOUS
<1>4. ASSUME NEW k \in DOMAIN q, now - q[k] < Window, NEW j \in old
      PROVE  j < k
  <2>1. j \in Nat /\ k \in Nat /\ q[j] \in Nat /\ q[k] \in Nat /\ Window \in Nat /\ j \in DOMAIN q
    BY <1>1, NumbersAssumption
  <2>2. now - q[j] >= Window
    OBVIOUS
  <2>3. q[j] < q[k]
    BY <1>4, <2>1, <2>2
  <2>. QED  BY <2>1, <2>3 DEF Timely
<1>5. Recent(q) = SubSeq(q, d + 1, Len(q))
  BY DEF Recent
<1> HIDE DEF old
<1>6. d \in Nat /\ d <= Len(q)
  BY <1>2, <1>3, FS_Subset, FS_CardinalityType
<1>7. ASSUME NEW k \in DOMAIN q, now - q[k] < Window
      PROVE  k > d
  <2>1. k \in Nat /\ k >= 1 /\ k - 1 \in Nat
    BY <1>1
  <2>2. old \in SUBSET (1..(k - 1))
    BY <1>1, <1>3, <1>4, <1>7, <2>1
  <2>3. IsFiniteSet(1..(k - 1)) /\ Cardinality(1..(k - 1)) = k - 1
    BY <2>1, UpTo
  <2>4. d <= Cardinality(1..(k - 1))
    BY <2>2, <2>3, FS_Subset
  <2>. QED  BY <1>6, <2>1, <2>3, <2>4
<1> HIDE DEF d
<1>8. /\ Recent(q) \in Seq(Nat) /\ Len(Recent(q)) = Len(q) - d
      /\ \A k \in 1..(Len(q) - d) : Recent(q)[k] = q[k + d]
  <2>1. d + 1 \in Int /\ Len(q) \in Int /\ \A k \in (d + 1)..Len(q) : q[k] \in Nat
    BY <1>1, <1>6
  <2>2. /\ Recent(q) \in Seq(Nat)
        /\ Len(Recent(q)) = IF d + 1 <= Len(q) THEN Len(q) - (d + 1) + 1 ELSE 0
        /\ \A k \in 1..(Len(q) - (d + 1) + 1) : Recent(q)[k] = q[d + 1 + k - 1]
    BY <1>5, <2>1, SubSeqProperties
  <2>3. Len(Recent(q)) = Len(q) - d
    <3>1. Len(q) \in Nat /\ d \in Nat /\ d <= Len(q)
      BY <1>1, <1>6
    <3>. QED  BY <2>2, <3>1
  <2>4. ASSUME NEW k \in 1..(Len(q) - d)
        PROVE  Recent(q)[k] = q[k + d]
    <3>1. k \in 1..(Len(q) - (d + 1) + 1) /\ d + 1 + k - 1 = k + d
      BY <1>1, <1>6
    <3>. QED  BY <2>2, <3>1
  <2>. QED  BY <2>2, <2>3, <2>4
<1>. QED  BY <1>6, <1>7, <1>8

\* A failure is recorded.
LEMMA TimelyRecorded ==
    ASSUME NEW q \in Seq(Nat), now \in Nat, Timely(q, now)
    PROVE  Timely(Append(Recent(q), now), now)
<1>1. PICK d \in 0..Len(q) :
              /\ Recent(q) \in Seq(Nat) /\ Len(Recent(q)) = Len(q) - d
              /\ \A k \in 1..(Len(q) - d) : Recent(q)[k] = q[k + d]
  BY RecentDrops
<1> DEFINE r == Append(Recent(q), now)
           n == Len(q) - d
<1>2. Len(q) \in Nat /\ DOMAIN q = 1..Len(q) /\ n \in Nat /\ d \in Nat
  BY <1>1, LenProperties
<1>3. r \in Seq(Nat) /\ Len(r) = n + 1 /\ r[n + 1] = now /\ \A k \in 1..n : r[k] = q[k + d]
  BY <1>1, AppendProperties
<1>4. DOMAIN r = 1..(n + 1)
  BY <1>3, LenProperties
<1>0. n + d = Len(q)
  BY <1>2
<1> HIDE DEF r, n
<1>5. \A k \in 1..n : r[k] <= now /\ k + d \in DOMAIN q
  <2>. SUFFICES ASSUME NEW k \in 1..n PROVE r[k] <= now /\ k + d \in DOMAIN q
    OBVIOUS
  <2>1. k + d \in DOMAIN q
    BY <1>2, <1>0
  <2>. QED  BY <1>3, <2>1 DEF Timely
<1>6. ASSUME NEW j \in DOMAIN r, NEW k \in DOMAIN r, j <= k
      PROVE  r[j] <= r[k]
  <2>1. CASE k = n + 1
    BY <1>2, <1>3, <1>4, <1>5, <2>1, <1>6
  <2>2. CASE k # n + 1
    <3>1. j \in 1..n /\ k \in 1..n /\ j + d <= k + d
      BY <1>2, <1>4, <1>6, <2>2
    <3>2. r[j] = q[j + d] /\ r[k] = q[k + d] /\ j + d \in DOMAIN q /\ k + d \in DOMAIN q
      BY <1>3, <1>5, <3>1
    <3>. QED  BY <3>1, <3>2 DEF Timely
  <2>. QED  BY <2>1, <2>2
<1>7. \A k \in DOMAIN r : r[k] <= now
  BY <1>2, <1>3, <1>4, <1>5
<1>8. Timely(r, now)
  BY <1>6, <1>7 DEF Timely
<1>. QED  BY <1>8 DEF r

LEMMA KeptRecorded ==
    ASSUME NEW q \in Seq(Nat), now \in Nat, Timely(q, now),
           NEW w \in Seq(Guess), NEW e \in Guess, e.at = now,
           NEW S \in SUBSET DOMAIN w, Kept(S, q, w, now),
           NEW R \in SUBSET (S \cup {Len(w) + 1})
    PROVE  Kept(R, Append(Recent(q), now), Append(w, e), now)
<1>1. PICK d \in 0..Len(q) :
              /\ Recent(q) \in Seq(Nat) /\ Len(Recent(q)) = Len(q) - d
              /\ \A k \in 1..(Len(q) - d) : Recent(q)[k] = q[k + d]
              /\ \A k \in DOMAIN q : now - q[k] < Window => k > d
  BY RecentDrops
<1>2. PICK f \in Injection(Young(S, w, now), DOMAIN q) : \A k \in Young(S, w, now) : q[f[k]] = w[k].at
  BY DEF Kept
<1> DEFINE r == Append(Recent(q), now)
           n == Len(q) - d
           m == Len(w) + 1
           x == Append(w, e)
           A == Young(S, w, now)
           B == Young(R, x, now)
           g == [k \in B |-> IF k = m THEN n + 1 ELSE f[k] - d]
<1>3. Len(q) \in Nat /\ DOMAIN q = 1..Len(q) /\ n \in Nat /\ d \in Nat
  BY <1>1, LenProperties
<1>4. r \in Seq(Nat) /\ Len(r) = n + 1 /\ r[n + 1] = now /\ \A k \in 1..n : r[k] = q[k + d]
  BY <1>1, AppendProperties
<1>5. DOMAIN r = 1..(n + 1)
  BY <1>4, LenProperties
<1>6. Len(w) \in Nat /\ DOMAIN w = 1..Len(w) /\ x[m] = e /\ \A k \in 1..Len(w) : x[k] = w[k]
  BY LenProperties, AppendProperties
<1>7. B \subseteq A \cup {m} /\ A \subseteq 1..Len(w)
  BY <1>6 DEF Young
<1>0. n + d = Len(q)
  BY <1>3
<1> HIDE DEF r, x, A, B, n, m
<1>8. ASSUME NEW k \in A
      PROVE  f[k] \in DOMAIN q /\ f[k] > d /\ q[f[k]] = w[k].at /\ f[k] - d \in 1..n /\ k # m
  <2>1. f[k] \in DOMAIN q /\ q[f[k]] = w[k].at
    BY <1>2 DEF Injection, A
  <2>2. now - q[f[k]] < Window
    BY <2>1 DEF Young, A
  <2>3. f[k] > d
    BY <1>1, <2>1, <2>2
  <2>4. f[k] \in Nat /\ f[k] <= Len(q) /\ k # m
    <3>1. f[k] \in Nat /\ f[k] <= Len(q)
      BY <1>3, <2>1
    <3>2. k \in 1..Len(w) /\ k # m
      BY <1>6, <1>7 DEF m
    <3>. QED  BY <3>1, <3>2
  <2>5. f[k] - d \in 1..n
    BY <1>3, <1>0, <2>3, <2>4
  <2>. QED  BY <2>1, <2>3, <2>4, <2>5
<1>9. g \in [B -> DOMAIN r]
  BY <1>3, <1>5, <1>7, <1>8
<1>10. ASSUME NEW a \in B, NEW b \in B, g[a] = g[b]
       PROVE  a = b
  <2>1. CASE a = m \/ b = m
    BY <1>3, <1>7, <1>8, <1>10, <2>1
  <2>2. CASE a # m /\ b # m
    <3>1. a \in A /\ b \in A /\ f[a] - d = f[b] - d
      BY <1>7, <1>10, <2>2
    <3>2. f[a] = f[b]
      BY <1>3, <1>8, <3>1
    <3>. QED  BY <1>2, <3>1, <3>2 DEF Injection, IsInjective, A
  <2>. QED  BY <2>1, <2>2
<1>11. g \in Injection(B, DOMAIN r)
  BY <1>9, <1>10 DEF Injection, IsInjective
<1>12. ASSUME NEW k \in B
       PROVE  r[g[k]] = x[k].at
  <2>1. CASE k = m
    BY <1>4, <1>6, <2>1
  <2>2. CASE k # m
    <3>1. k \in A /\ g[k] = f[k] - d /\ x[k] = w[k]
      BY <1>6, <1>7, <2>2
    <3>2. r[f[k] - d] = q[f[k] - d + d] /\ f[k] - d + d = f[k]
      <4>1. f[k] \in Nat /\ f[k] - d \in 1..n
        BY <1>3, <1>8, <3>1
      <4>2. f[k] - d + d = f[k]
        BY <1>3, <4>1
      <4>. QED  BY <1>4, <4>1, <4>2
    <3>. QED  BY <1>8, <3>1, <3>2
  <2>. QED  BY <2>1, <2>2
<1>. QED  BY <1>11, <1>12 DEF Kept, r, x, B

-----------------------------------------------------------------------------
(* Guesses are paced *)

\* Each guess of R, in x, is one of at most n within the window.
PacedIn(R, x, n) == \A k \in R : Cardinality({j \in R : j <= k /\ x[k].at - x[j].at < Window}) <= n

LEMMA PacedMeans ==
    /\ \A S, n : Paced(S, n) <=> PacedIn(S, wrong, n)
    /\ \A v, n : Paced(GuessesOf(v), n)' <=> PacedIn(GuessesOf(v)', wrong', n)
    /\ \A p, n : Paced(GuessesAt(p), n)' <=> PacedIn(GuessesAt(p)', wrong', n)
BY DEF Paced, Before, PacedIn

\* A guess is made with fewer than n failures remembered, those of the window among them.
LEMMA PacedRecorded ==
    ASSUME NEW t \in Nat, NEW w \in Seq(Guess), NEW e \in Guess, e.at = t,
           NEW S \in SUBSET DOMAIN w, NEW R \in SUBSET (S \cup {Len(w) + 1}),
           NEW n \in Nat, PacedIn(S, w, n),
           Len(w) + 1 \in R => \E q \in Seq(Nat) : Kept(S, q, w, t) /\ Len(q) < n
    PROVE  PacedIn(R, Append(w, e), n)
<1> DEFINE x == Append(w, e)
           m == Len(w) + 1
<1>1. Len(w) \in Nat /\ DOMAIN w = 1..Len(w) /\ x[m] = e /\ \A j \in 1..Len(w) : x[j] = w[j]
  BY LenProperties, AppendProperties
<1>2. m \in Nat /\ S \in SUBSET (1..m) /\ m \notin S /\ \A j \in S : x[j] = w[j]
  BY <1>1
<1>3. R \in SUBSET (S \cup {m}) /\ \A j \in S : j < m
  BY <1>1
<1>0. m \in R => \E q \in Seq(Nat) : Kept(S, q, w, t) /\ Len(q) < n
  OBVIOUS
<1> HIDE DEF x, m
<1>4. ASSUME NEW k \in R, k \in S
      PROVE  Cardinality({j \in R : j <= k /\ x[k].at - x[j].at < Window}) <= n
  <2> DEFINE A == {j \in S : j <= k /\ w[k].at - w[j].at < Window}
             B == {j \in R : j <= k /\ x[k].at - x[j].at < Window}
  <2>1. A \in SUBSET (1..m) /\ B \in SUBSET A
    <3>1. A \in SUBSET (1..m)
      BY <1>2
    <3>2. k \in 1..m /\ k < m /\ x[k] = w[k]
      BY <1>2, <1>3, <1>4
    <3>3. \A j \in R : j <= k => j \in S /\ x[j] = w[j]
      BY <1>2, <1>3, <3>2
    <3>4. \A j \in B : j \in A
      BY <3>2, <3>3
    <3>. QED  BY <3>1, <3>4
  <2>2. Cardinality(A) <= n
    <3>1. \A j \in S : Cardinality({h \in S : h <= j /\ w[j].at - w[h].at < Window}) <= n
      BY DEF PacedIn
    <3>. QED  BY <1>4, <3>1
  <2> HIDE DEF A, B
  <2>3. IsFiniteSet(1..m)
    BY <1>2, UpTo
  <2>4. IsFiniteSet(A) /\ Cardinality(B) <= Cardinality(A) /\ IsFiniteSet(B)
    BY <2>1, <2>3, FS_Subset
  <2>5. Cardinality(A) \in Nat /\ Cardinality(B) \in Nat
    BY <2>4, FS_CardinalityType
  <2>6. Cardinality(B) <= n
    BY <2>2, <2>4, <2>5
  <2>. QED  BY <2>6 DEF B
<1>5. ASSUME m \in R
      PROVE  Cardinality({j \in R : j <= m /\ x[m].at - x[j].at < Window}) <= n
  <2>1. PICK q \in Seq(Nat) : Kept(S, q, w, t) /\ Len(q) < n
    BY <1>0, <1>5
  <2> DEFINE A == Young(S, w, t)
             B == {j \in R : j <= m /\ x[m].at - x[j].at < Window}
  <2>2. IsFiniteSet(A) /\ Cardinality(A) \in Nat /\ Cardinality(A) <= Len(q) /\ Len(q) \in Nat
    BY <2>1, YoungAreFew, LenProperties
  <2>3. B \in SUBSET (A \cup {m})
    BY <1>1, <1>2, <1>3 DEF Young
  <2> HIDE DEF A, B
  <2>4. IsFiniteSet(A \cup {m}) /\ Cardinality(A \cup {m}) \in {Cardinality(A), Cardinality(A) + 1}
    BY <2>2, FS_AddElement
  <2>5. Cardinality(B) <= Cardinality(A \cup {m}) /\ Cardinality(B) \in Nat
    BY <2>3, <2>4, FS_Subset, FS_CardinalityType
  <2>6. Cardinality(B) <= n
    BY <2>1, <2>2, <2>4, <2>5
  <2>. QED  BY <2>6 DEF B
<1>6. \A k \in R : Cardinality({j \in R : j <= k /\ x[k].at - x[j].at < Window}) <= n
  BY <1>3, <1>4, <1>5
<1>. QED  BY <1>6 DEF PacedIn, x

\* A password that can still be guessed at.
Live(p) == p # Permanent /\ (p = temp \/ \E i \in Tasks : task[i].pc = "confirm" /\ task[i].offered = p)

\* While a viewer is not locked out, its guesses of the window are among its failures; when
\* it is, they are over before the lockout is.
OfViewer(v) ==
    /\ Len(failures[v]) < MaxFailures /\ Timely(failures[v], now)
    /\ until[v] = 0 => Kept(GuessesOf(v), failures[v], wrong, now)
    /\ until[v] # 0 => \A k \in GuessesOf(v) : wrong[k].at + Lockout <= until[v]
    /\ PacedIn(GuessesOf(v), wrong, MaxFailures)

\* The guesses at a password that lives are among the failures of all.
OfAll ==
    /\ Len(allFailures) < MaxGlobal /\ Timely(allFailures, now)
    /\ \A p \in Nat : Live(p) => Kept(GuessesAt(p), allFailures, wrong, now)
    /\ \A p \in Nat \ {Permanent} : PacedIn(GuessesAt(p), wrong, MaxGlobal)

\* A viewer that is asked to confirm is not locked out.
Confirming == \A i \in Tasks : task[i].pc = "confirm" => until[task[i].viewer] = 0 /\ task[i].offered <= temp

Past == \A k \in DOMAIN wrong : wrong[k].at <= now /\ wrong[k].pw <= temp

Remembered == (\A v \in Viewers : OfViewer(v)) /\ OfAll /\ Confirming /\ Past

LEMMA RememberedMeans == Remembered /\ TypeInv => GuessesArePaced /\ PasswordIsBurnt
<1>. SUFFICES ASSUME Remembered, TypeInv PROVE GuessesArePaced /\ PasswordIsBurnt
  OBVIOUS
<1>1. GuessesArePaced
  BY PacedMeans DEF Remembered, OfViewer, GuessesArePaced
<1>2. \A k \in DOMAIN wrong : wrong[k].pw \in Nat
  <2>1. wrong \in Seq(Guess)
    BY DEF TypeInv, LimitsOK, Guess
  <2>2. \A k \in DOMAIN wrong : wrong[k] \in Guess
    BY <2>1, Indices
  <2>. QED  BY <2>2 DEF Guess
<1>3. PasswordIsBurnt
  BY <1>2, PacedMeans DEF Remembered, OfAll, PasswordIsBurnt
<1>. QED  BY <1>1, <1>3

LEMMA WrongType ==
    ASSUME TypeInv
    PROVE  /\ wrong \in Seq(Guess) /\ Len(wrong) \in Nat /\ DOMAIN wrong = 1..Len(wrong)
           /\ \A k \in DOMAIN wrong : wrong[k].at \in Nat /\ wrong[k].pw \in Nat
           /\ now \in Nat /\ temp \in Nat /\ temp >= 2
<1>1. wrong \in Seq(Guess)
  BY DEF TypeInv, LimitsOK, Guess
<1>2. /\ Len(wrong) \in Nat /\ DOMAIN wrong = 1..Len(wrong)
      /\ \A k \in DOMAIN wrong : wrong[k] \in Guess
  BY <1>1, Indices
<1>. QED  BY <1>1, <1>2 DEF Guess, TypeInv, LimitsOK, RestOK

\* What lives after a step without a wrong guess lived before, or is new.
LEMMA LiveBefore ==
    ASSUME TypeInv, [Next]_vars, ~\E i \in Tasks : LookUp(i), NEW p, Live(p)'
    PROVE  Live(p) \/ p = temp + 1
<1>1. CASE p = temp'
  BY <1>1, TempGrows DEF Live
<1>2. CASE p # temp'
  <2>1. PICK i \in Tasks : task'[i].pc = "confirm" /\ task'[i].offered = p
    BY <1>2 DEF Live
  <2>2. KeepsOffer(i)
    BY OffersAreKept
  <2>. QED  BY <2>1, <2>2 DEF KeepsOffer, Offered, Live
<1>. QED  BY <1>1, <1>2

\* A password that was not there yet was not guessed at.
LEMMA NewIsUnknown ==
    ASSUME TypeInv, Past, NEW q, NEW t
    PROVE  GuessesAt(temp + 1) = {} /\ Kept(GuessesAt(temp + 1), q, wrong, t)
<1>1. GuessesAt(temp + 1) = {}
  BY WrongType DEF Past, GuessesAt
<1>2. Young(GuessesAt(temp + 1), wrong, t) = {}
  BY <1>1 DEF Young
<1>. QED  BY <1>1, <1>2, KeptNone

LEMMA ConfirmingStays ==
    ASSUME TypeInv, Confirming, [Next]_vars, ~\E i \in Tasks : LookUp(i), UNCHANGED until
    PROVE  Confirming'
<1>. SUFFICES ASSUME NEW i \in Tasks, task'[i].pc = "confirm"
              PROVE  until'[task'[i].viewer] = 0 /\ task'[i].offered <= temp'
  BY DEF Confirming
<1>1. KeepsOffer(i)
  BY OffersAreKept
<1>2. task[i].offered \in Nat /\ temp \in Nat /\ temp' \in {temp, temp + 1}
  BY TempGrows DEF TypeInv, HostOK, TaskRecord, LimitsOK
<1>. QED  BY <1>1, <1>2 DEF KeepsOffer, Offered, Confirming

LEMMA PastStays ==
    ASSUME TypeInv, Past, [Next]_vars, UNCHANGED wrong, now' \in {now, now + 1}
    PROVE  Past'
BY TempGrows, WrongType DEF Past

\* A step that has to do with no guess, time going on among them.
LEMMA RememberedQuiet ==
    ASSUME TypeInv, Remembered, [Next]_vars, ~\E i \in Tasks : LookUp(i),
           UNCHANGED <<failures, until, allFailures, wrong>>, now' \in {now, now + 1}
    PROVE  Remembered'
<1>1. /\ \A v : GuessesOf(v)' = GuessesOf(v)
      /\ \A p : GuessesAt(p)' = GuessesAt(p)
  BY DEF GuessesOf, GuessesAt
<1>2. ASSUME NEW S \in SUBSET DOMAIN wrong, NEW q, Kept(S, q, wrong, now)
      PROVE  Kept(S, q, wrong, now')
  <2>1. Young(S, wrong, now') \subseteq Young(S, wrong, now)
    <3>1. now \in Nat /\ now' \in Nat /\ now <= now' /\ Window \in Nat
      BY WrongType, NumbersAssumption
    <3>2. \A k \in S : wrong[k].at \in Nat
      BY WrongType
    <3>3. \A k \in S : now' - wrong[k].at < Window => now - wrong[k].at < Window
      BY <3>1, <3>2
    <3>. QED  BY <3>3 DEF Young
  <2>. QED  BY <1>2, <2>1, KeptLess
<1>3. ASSUME NEW q \in Seq(Nat), Timely(q, now)
      PROVE  Timely(q, now')
  <2>1. \A k \in DOMAIN q : q[k] \in Nat
    BY Indices
  <2>. QED  BY <1>3, <2>1, WrongType DEF Timely
<1>4. \A v : GuessesOf(v) \in SUBSET DOMAIN wrong
  BY DEF GuessesOf
<1>5. \A p : GuessesAt(p) \in SUBSET DOMAIN wrong
  BY DEF GuessesAt
<1>6. ASSUME NEW v \in Viewers
      PROVE  OfViewer(v)'
  <2>1. failures[v] \in Seq(Nat) /\ OfViewer(v)
    BY DEF TypeInv, LimitsOK, Remembered
  <2>. QED  BY <1>1, <1>2, <1>3, <1>4, <2>1 DEF OfViewer
<1>7. OfAll'
  <2>1. Len(allFailures) < MaxGlobal /\ Timely(allFailures, now')
    BY <1>3 DEF Remembered, OfAll, TypeInv, LimitsOK
  <2>2. \A p \in Nat \ {Permanent} : PacedIn(GuessesAt(p), wrong, MaxGlobal)
    BY DEF Remembered, OfAll
  <2>3. ASSUME NEW p \in Nat, Live(p)'
        PROVE  Kept(GuessesAt(p), allFailures, wrong, now')
    <3>1. CASE Live(p)
      BY <1>2, <1>5, <3>1 DEF Remembered, OfAll
    <3>2. CASE p = temp + 1
      BY <3>2, NewIsUnknown DEF Remembered
    <3>. QED  BY <2>3, <3>1, <3>2, LiveBefore
  <2>. QED  BY <1>1, <2>1, <2>2, <2>3 DEF OfAll
<1>. QED  BY <1>6, <1>7, ConfirmingStays, PastStays DEF Remembered

\* A viewer whose lockout is over has no guess left in the window.
LEMMA RememberedLookUp ==
    ASSUME TypeInv, Remembered, NEW i \in Tasks, LookUp(i)
    PROVE  Remembered'
<1> DEFINE v == task[i].viewer
           pw == IF task[i].auth = "temporary" THEN temp ELSE Permanent
<1>1. task[i].pc = "hello" /\ task[i] \in TaskRecord /\ v \in Viewers
  BY DEF LookUp, At, TypeInv, HostOK, ShapeOf, Busy
<1>2. UNCHANGED <<temp, allFailures, now, wrong>>
  BY DEF LookUp, clock, history
<1>3. \A j \in Tasks \ {i} : task[j].pc = "gone"
  BY <1>1, OneTask DEF TypeInv
<1>4. \/ task' = [task EXCEPT ![i] = Gone]
      \/ ~Locked(v) /\ task' = [task EXCEPT ![i].pc = "confirm", ![i].offered = pw]
  BY DEF LookUp, Release
<1>5. \A j \in Tasks : task'[j].pc = "confirm" =>
         j = i /\ ~Locked(v) /\ task'[j].viewer = v /\ task'[j].offered \in {temp, Permanent}
  <2>1. \A j \in Tasks \ {i} : task'[j].pc = "gone"
    BY <1>3, <1>4 DEF TypeInv, HostOK
  <2>2. CASE task' = [task EXCEPT ![i] = Gone]
    BY <2>1, <2>2, GoneType DEF TypeInv, HostOK
  <2>3. CASE ~Locked(v) /\ task' = [task EXCEPT ![i].pc = "confirm", ![i].offered = pw]
    <3>1. task'[i].viewer = v /\ task'[i].offered = pw
      BY <1>1, <2>3 DEF TypeInv, HostOK, TaskRecord
    <3>. QED  BY <2>1, <2>3, <3>1
  <2>. QED  BY <1>4, <2>2, <2>3
<1>6. /\ \A u : GuessesOf(u)' = GuessesOf(u)
      /\ \A p : GuessesAt(p)' = GuessesAt(p)
  BY <1>2 DEF GuessesOf, GuessesAt
<1>7. ASSUME NEW u \in Viewers
      PROVE  OfViewer(u)'
  <2>1. failures \in [Viewers -> Seq(Nat)] /\ until \in [Viewers -> Nat] /\ OfViewer(u)
    BY DEF TypeInv, LimitsOK, Remembered
  <2>2. CASE failures'[u] = failures[u] /\ until'[u] = until[u]
    BY <1>2, <1>6, <2>1, <2>2 DEF OfViewer
  <2>3. CASE u = v /\ Forgiven(v) /\ failures'[u] = <<>> /\ until'[u] = 0
    <3>1. \A k \in GuessesOf(u) : now - wrong[k].at >= Window
      <4>1. \A k \in GuessesOf(u) : wrong[k].at + Lockout <= until[u] /\ wrong[k].at \in Nat
        BY <2>1, <2>3, WrongType DEF OfViewer, Forgiven, GuessesOf
      <4>2. until[u] \in Nat /\ until[u] <= now
        BY <2>1, <2>3, WrongType DEF Forgiven, Locked
      <4>3. now \in Nat /\ Window \in Nat /\ Lockout \in Nat /\ Window <= Lockout
        BY WrongType, NumbersAssumption
      <4>4. ASSUME NEW k \in GuessesOf(u)
            PROVE  now - wrong[k].at >= Window
        <5>1. wrong[k].at \in Nat /\ wrong[k].at + Lockout <= until[u]
          BY <4>1
        <5>. QED  BY <4>2, <4>3, <5>1
      <4>. QED  BY <4>4
    <3>2. Young(GuessesOf(u), wrong, now) = {}
      BY <3>1, NumbersAssumption, WrongType DEF Young, GuessesOf
    <3>3. Kept(GuessesOf(u), <<>>, wrong, now)
      BY <3>2, KeptNone
    <3>4. Len(<<>>) < MaxFailures /\ Timely(<<>>, now)
      BY NumbersAssumption, EmptySeq DEF Timely
    <3>. QED  BY <1>2, <1>6, <2>1, <2>3, <3>3, <3>4 DEF OfViewer
  <2>. QED  BY <2>1, <2>2, <2>3, <1>1 DEF LookUp
<1>8. OfAll'
  <2>1. ASSUME NEW p \in Nat, Live(p)' PROVE Live(p)
    BY <1>2, <1>5, <2>1 DEF Live
  <2>. QED  BY <1>2, <1>6, <2>1 DEF Remembered, OfAll
<1>9. Confirming'
  <2>1. ASSUME ~Locked(v) PROVE until'[v] = 0
    BY <1>1, <2>1 DEF LookUp, Forgiven, TypeInv, LimitsOK
  <2>. QED  BY <1>2, <1>5, <2>1, WrongType DEF Confirming, Permanent
<1>10. Past'
  BY <1>2 DEF Remembered, Past
<1>. QED  BY <1>7, <1>8, <1>9, <1>10 DEF Remembered

\* The password was right: the failures of the viewer are forgotten, those of all are not.
LEMMA RememberedGoodPassword ==
    ASSUME TypeInv, Remembered, NEW i \in Tasks, GoodPassword(i)
    PROVE  Remembered'
<1>0. PICK v \in Viewers : v = task[i].viewer
  BY DEF GoodPassword, At, TypeInv, HostOK, ShapeOf, Busy
<1>1. task[i].pc = "confirm" /\ task[i] \in TaskRecord
  BY DEF GoodPassword, At, TypeInv, HostOK
<1>2. /\ UNCHANGED <<temp, allFailures, now>>
      /\ failures' = [failures EXCEPT ![v] = <<>>] /\ until' = [until EXCEPT ![v] = 0]
  BY <1>0 DEF GoodPassword, clock
<1>3. \A j \in Tasks : task'[j].pc # "confirm"
  BY <1>1, OneTask DEF GoodPassword, TypeInv, HostOK
<1>4. /\ DOMAIN wrong' = DOMAIN wrong
      /\ \A k \in DOMAIN wrong : /\ wrong'[k].at = wrong[k].at /\ wrong'[k].pw = wrong[k].pw
                                 /\ wrong'[k].by = IF wrong[k].by = v THEN Nobody ELSE wrong[k].by
  <2>1. \A k \in DOMAIN wrong : wrong[k] \in Guess
    BY WrongType, Indices
  <2>2. wrong' = [k \in DOMAIN wrong |-> IF wrong[k].by = v THEN [wrong[k] EXCEPT !.by = Nobody]
                                                            ELSE wrong[k]]
    BY <1>0 DEF GoodPassword
  <2>. QED  BY <2>1, <2>2 DEF Guess
<1>5. /\ GuessesOf(v)' = {} /\ \A u \in Viewers \ {v} : GuessesOf(u)' = GuessesOf(u)
      /\ \A p : GuessesAt(p)' = GuessesAt(p)
  <2>1. Nobody # v /\ \A u \in Viewers : u # Nobody
    BY ViewersAssumption
  <2>2. \A k \in DOMAIN wrong : wrong'[k].by # v
    BY <1>4, <2>1
  <2>3. \A u \in Viewers \ {v}, k \in DOMAIN wrong : wrong'[k].by = u <=> wrong[k].by = u
    BY <1>4, <2>1
  <2>. QED  BY <1>4, <2>2, <2>3 DEF GuessesOf, GuessesAt
<1>6. /\ \A u : GuessesOf(u) \in SUBSET DOMAIN wrong
      /\ \A p : GuessesAt(p) \in SUBSET DOMAIN wrong
  BY DEF GuessesOf, GuessesAt
<1>7. ASSUME NEW S \in SUBSET DOMAIN wrong
      PROVE  /\ Young(S, wrong', now) = Young(S, wrong, now)
             /\ \A q : Kept(S, q, wrong, now) => Kept(S, q, wrong', now)
             /\ \A n : PacedIn(S, wrong, n) => PacedIn(S, wrong', n)
  <2>1. Young(S, wrong', now) = Young(S, wrong, now)
    BY <1>4 DEF Young
  <2>2. \A k \in Young(S, wrong', now) : wrong'[k].at = wrong[k].at
    BY <1>4 DEF Young
  <2>3. \A k \in S : {j \in S : j <= k /\ wrong'[k].at - wrong'[j].at < Window}
                        = {j \in S : j <= k /\ wrong[k].at - wrong[j].at < Window}
    BY <1>4
  <2>. QED  BY <2>1, <2>2, <2>3, KeptLess DEF PacedIn
<1>8. ASSUME NEW u \in Viewers
      PROVE  OfViewer(u)'
  <2>1. failures \in [Viewers -> Seq(Nat)] /\ until \in [Viewers -> Nat] /\ OfViewer(u)
    BY DEF TypeInv, LimitsOK, Remembered
  <2>2. CASE u # v
    <3>1. failures'[u] = failures[u] /\ until'[u] = until[u] /\ GuessesOf(u)' = GuessesOf(u)
      BY <1>2, <1>5, <2>1, <2>2
    <3>2. until[u] # 0 => \A k \in GuessesOf(u) : wrong'[k].at + Lockout <= until[u]
      BY <1>4, <1>6, <2>1 DEF OfViewer
    <3>3. /\ until[u] = 0 => Kept(GuessesOf(u), failures[u], wrong', now)
          /\ PacedIn(GuessesOf(u), wrong', MaxFailures)
      BY <1>6, <1>7, <2>1 DEF OfViewer
    <3>. QED  BY <1>2, <2>1, <3>1, <3>2, <3>3 DEF OfViewer
  <2>3. CASE u = v
    <3>1. failures'[u] = <<>> /\ until'[u] = 0 /\ GuessesOf(u)' = {}
      BY <1>2, <1>5, <2>1, <2>3
    <3>2. Young({}, wrong', now) = {} /\ PacedIn({}, wrong', MaxFailures)
      BY DEF Young, PacedIn
    <3>3. Kept({}, <<>>, wrong', now)
      BY <3>2, KeptNone
    <3>4. Len(<<>>) < MaxFailures /\ Timely(<<>>, now)
      BY NumbersAssumption, EmptySeq DEF Timely
    <3>. QED  BY <1>2, <3>1, <3>2, <3>3, <3>4 DEF OfViewer
  <2>. QED  BY <2>2, <2>3
<1>9. OfAll'
  <2>1. ASSUME NEW p, Live(p)' PROVE Live(p)
    BY <1>2, <1>3, <2>1 DEF Live
  <2>2. \A p \in Nat : Live(p)' => Kept(GuessesAt(p), allFailures, wrong', now)
    BY <1>6, <1>7, <2>1 DEF Remembered, OfAll
  <2>3. \A p \in Nat \ {Permanent} : PacedIn(GuessesAt(p), wrong', MaxGlobal)
    BY <1>6, <1>7 DEF Remembered, OfAll
  <2>. QED  BY <1>2, <1>5, <2>2, <2>3 DEF Remembered, OfAll
<1>10. Confirming'
  BY <1>3 DEF Confirming
<1>11. Past'
  BY <1>2, <1>4 DEF Remembered, Past
<1>. QED  BY <1>8, <1>9, <1>10, <1>11 DEF Remembered

\* The password was wrong: the guess is one more failure of the viewer and of all, and with
\* too many of them the viewer is locked out, and nobody can guess at the password again.
LEMMA RememberedBadPassword ==
    ASSUME TypeInv, Remembered, NEW i \in Tasks, BadPassword(i)
    PROVE  Remembered'
<1>0. PICK v \in Viewers : v = task[i].viewer
  BY DEF BadPassword, At, TypeInv, HostOK, ShapeOf, Busy
<1> DEFINE e == [by |-> v, at |-> now, pw |-> task[i].offered]
           m == Len(wrong) + 1
<1>1. task[i].pc = "confirm" /\ task[i] \in TaskRecord
  BY DEF BadPassword, At, TypeInv, HostOK
<1>2. wrong' = Append(wrong, e) /\ now' = now
  BY <1>0 DEF BadPassword, clock
<1>3. e \in Guess /\ e.at = now /\ e.by = v /\ e.pw = task[i].offered /\ task[i].offered \in Nat
  BY <1>1, WrongType DEF Guess, TaskRecord
<1>4. \A j \in Tasks : task'[j].pc # "confirm"
  BY <1>1, OneTask, GoneType DEF BadPassword, Release, TypeInv, HostOK
<1>5. until[v] = 0 /\ task[i].offered <= temp
  BY <1>0, <1>1 DEF Remembered, Confirming
<1>6. /\ wrong \in Seq(Guess) /\ Len(wrong) \in Nat /\ DOMAIN wrong = 1..Len(wrong)
      /\ DOMAIN wrong' = 1..m /\ wrong'[m] = e /\ \A k \in DOMAIN wrong : wrong'[k] = wrong[k]
  <2>1. wrong \in Seq(Guess) /\ Len(wrong) \in Nat /\ DOMAIN wrong = 1..Len(wrong)
    BY WrongType
  <2>2. /\ wrong' \in Seq(Guess) /\ Len(wrong') = m /\ wrong'[m] = e
        /\ \A k \in 1..Len(wrong) : wrong'[k] = wrong[k]
    BY <1>2, <1>3, <2>1, AppendProperties
  <2>. QED  BY <2>1, <2>2, LenProperties
<1>7. /\ \A u : GuessesOf(u) \in SUBSET DOMAIN wrong
      /\ \A p : GuessesAt(p) \in SUBSET DOMAIN wrong
  BY DEF GuessesOf, GuessesAt
<1>8. /\ \A u : GuessesOf(u)' = IF u = v THEN GuessesOf(u) \cup {m} ELSE GuessesOf(u)
      /\ \A p : GuessesAt(p)' = IF p = task[i].offered THEN GuessesAt(p) \cup {m} ELSE GuessesAt(p)
  BY <1>3, <1>6 DEF GuessesOf, GuessesAt
<1>9. \A k \in DOMAIN wrong : wrong[k].at <= now /\ wrong[k].pw <= temp
  BY DEF Remembered, Past
<1> HIDE DEF e, m
<1>10. ASSUME NEW u \in Viewers \ {v}
       PROVE  OfViewer(u)'
  <2>1. failures \in [Viewers -> Seq(Nat)] /\ until \in [Viewers -> Nat] /\ OfViewer(u)
    BY DEF TypeInv, LimitsOK, Remembered
  <2>2. failures'[u] = failures[u] /\ until'[u] = until[u] /\ GuessesOf(u)' = GuessesOf(u)
    BY <1>0, <1>8, <2>1 DEF BadPassword, RecordFailure
  <2>3. until[u] # 0 => \A k \in GuessesOf(u) : wrong'[k].at + Lockout <= until[u]
    BY <1>6, <1>7, <2>1 DEF OfViewer
  <2>4. until[u] = 0 => Kept(GuessesOf(u), failures[u], wrong', now)
    <3>1. Young(GuessesOf(u), wrong', now) \subseteq Young(GuessesOf(u), wrong, now)
          /\ \A k \in Young(GuessesOf(u), wrong', now) : wrong'[k].at = wrong[k].at
      BY <1>6, <1>7 DEF Young
    <3>. QED  BY <2>1, <3>1, KeptLess DEF OfViewer
  <2>5. PacedIn(GuessesOf(u), wrong', MaxFailures)
    <3>1. Len(wrong) + 1 \notin GuessesOf(u)
      BY <1>6, <1>7
    <3>2. PacedIn(GuessesOf(u), wrong, MaxFailures) /\ MaxFailures \in Nat
      BY <2>1, NumbersAssumption DEF OfViewer
    <3>. QED  BY <1>2, <1>3, <1>6, <1>7, <3>1, <3>2, WrongType, PacedRecorded
  <2>. QED  BY <1>2, <2>1, <2>2, <2>3, <2>4, <2>5 DEF OfViewer
<1>11. OfViewer(v)'
  <2> DEFINE q == Append(Recent(failures[v]), now)
             locks == Len(q) >= MaxFailures
  <2>1. /\ failures \in [Viewers -> Seq(Nat)] /\ until \in [Viewers -> Nat] /\ failures[v] \in Seq(Nat)
        /\ OfViewer(v)
    BY <1>1 DEF TypeInv, LimitsOK, Remembered
  <2>2. Kept(GuessesOf(v), failures[v], wrong, now) /\ Timely(failures[v], now)
    BY <1>5, <2>1 DEF OfViewer
  <2>3. q \in Seq(Nat) /\ Len(q) \in Nat
    BY <2>1, WrongType, RecentType, LenProperties
  <2>4. Timely(q, now)
    BY <2>1, <2>2, WrongType, TimelyRecorded
  <2>5. Kept(GuessesOf(v) \cup {m}, q, wrong', now)
    BY <1>2, <1>3, <1>6, <1>7, <2>1, <2>2, WrongType, KeptRecorded DEF m
  <2>6. PacedIn(GuessesOf(v) \cup {m}, wrong', MaxFailures)
    <3>1. PacedIn(GuessesOf(v), wrong, MaxFailures) /\ MaxFailures \in Nat /\ Len(failures[v]) < MaxFailures
      BY <2>1, NumbersAssumption DEF OfViewer
    <3>. QED  BY <1>2, <1>3, <1>6, <1>7, <2>1, <2>2, <3>1, WrongType, PacedRecorded DEF m
  <2>7. /\ failures'[v] = IF locks THEN <<>> ELSE q
        /\ until'[v] = IF locks THEN now + Lockout ELSE 0
    BY <1>0, <1>1, <1>5, <2>1 DEF BadPassword, RecordFailure
  <2>8. \A k \in GuessesOf(v) \cup {m} : wrong'[k].at \in Nat /\ wrong'[k].at <= now
    BY <1>3, <1>6, <1>7, <1>9, WrongType
  <2> HIDE DEF q
  <2>9. CASE locks
    <3>1. \A k \in GuessesOf(v) \cup {m} : wrong'[k].at + Lockout <= now + Lockout
      BY <2>8, WrongType, NumbersAssumption
    <3>2. Len(<<>>) < MaxFailures /\ Timely(<<>>, now)
      BY NumbersAssumption, EmptySeq DEF Timely
    <3>3. until'[v] # 0
      BY <2>7, <2>9, WrongType, NumbersAssumption
    <3>. QED  BY <1>2, <1>8, <2>6, <2>7, <2>9, <3>1, <3>2, <3>3 DEF OfViewer
  <2>10. CASE ~locks
    <3>1. Len(q) < MaxFailures
      BY <2>3, <2>10, NumbersAssumption
    <3>. QED  BY <1>2, <1>8, <2>4, <2>5, <2>6, <2>7, <2>10, <3>1 DEF OfViewer
  <2>. QED  BY <2>9, <2>10
<1>12. OfAll'
  <2> DEFINE q == Append(Recent(allFailures), now)
             dies == Len(q) >= MaxGlobal
  <2>1. allFailures \in Seq(Nat) /\ OfAll /\ Timely(allFailures, now) /\ Len(allFailures) < MaxGlobal
    BY DEF TypeInv, LimitsOK, Remembered, OfAll
  <2>2. q \in Seq(Nat) /\ Len(q) \in Nat
    BY <2>1, WrongType, RecentType, LenProperties
  <2>3. Timely(q, now)
    BY <2>1, WrongType, TimelyRecorded
  <2>4. ASSUME NEW p \in Nat, Live(p)
        PROVE  Kept(GuessesAt(p)', q, wrong', now)
    <3>1. Kept(GuessesAt(p), allFailures, wrong, now)
      BY <2>1, <2>4 DEF OfAll
    <3>2. GuessesAt(p)' \in SUBSET (GuessesAt(p) \cup {Len(wrong) + 1})
      BY <1>8 DEF m
    <3>. QED  BY <1>2, <1>3, <1>6, <1>7, <2>1, <3>1, <3>2, WrongType, KeptRecorded
  <2>5. ASSUME NEW p \in Nat \ {Permanent}
        PROVE  PacedIn(GuessesAt(p)', wrong', MaxGlobal)
    <3>1. PacedIn(GuessesAt(p), wrong, MaxGlobal) /\ MaxGlobal \in Nat
      BY <2>1, NumbersAssumption DEF OfAll
    <3>2. GuessesAt(p)' \in SUBSET (GuessesAt(p) \cup {Len(wrong) + 1})
      BY <1>8 DEF m
    <3>3. ASSUME Len(wrong) + 1 \in GuessesAt(p)'
          PROVE  Kept(GuessesAt(p), allFailures, wrong, now)
      <4>1. p = task[i].offered
        BY <1>6, <1>7, <1>8, <3>3
      <4>2. Live(p)
        BY <1>1, <4>1 DEF Live
      <4>. QED  BY <2>1, <4>2 DEF OfAll
    <3>. QED  BY <1>2, <1>3, <1>6, <1>7, <2>1, <3>1, <3>2, <3>3, WrongType, PacedRecorded
  <2>6. CASE dies
    <3>1. allFailures' = <<>> /\ temp' = temp + 1
      BY <2>6 DEF BadPassword, RecordForAll
    <3>2. Len(<<>>) < MaxGlobal /\ Timely(<<>>, now)
      BY NumbersAssumption, EmptySeq DEF Timely
    <3>3. ASSUME NEW p, Live(p)' PROVE Kept(GuessesAt(p)', <<>>, wrong', now)
      <4>1. p = temp + 1
        BY <1>4, <3>1, <3>3 DEF Live
      <4>2. GuessesAt(p) = {} /\ GuessesAt(p)' = {}
        BY <1>3, <1>5, <1>8, <4>1, WrongType, NewIsUnknown DEF Remembered
      <4>3. Young({}, wrong', now) = {}
        BY DEF Young
      <4>. QED  BY <4>2, <4>3, KeptNone
    <3>. QED  BY <1>2, <2>5, <3>1, <3>2, <3>3 DEF OfAll
  <2>7. CASE ~dies
    <3>1. allFailures' = q /\ temp' = temp
      BY <2>7 DEF BadPassword, RecordForAll
    <3>2. Len(q) < MaxGlobal
      BY <2>2, <2>7, NumbersAssumption
    <3>3. \A p : Live(p)' => Live(p)
      BY <1>4, <3>1 DEF Live
    <3> HIDE DEF q
    <3>. QED  BY <1>2, <2>3, <2>4, <2>5, <3>1, <3>2, <3>3 DEF OfAll
  <2>. QED  BY <2>6, <2>7
<1>13. Confirming'
  BY <1>4 DEF Confirming
<1>14. Past'
  <2>1. temp' \in {temp, temp + 1}
    BY DEF BadPassword, RecordForAll
  <2>2. ASSUME NEW k \in 1..m
        PROVE  wrong'[k].at <= now /\ wrong'[k].pw <= temp
    <3>1. CASE k = m
      BY <1>3, <1>5, <1>6, <3>1, WrongType
    <3>2. CASE k # m
      BY <1>6, <1>9, <3>2 DEF m
    <3>. QED  BY <3>1, <3>2
  <2>3. \A k \in 1..m : wrong'[k].pw \in Nat
    BY <1>3, <1>6, WrongType DEF m
  <2>4. \A k \in 1..m : wrong'[k].pw <= temp'
    BY <2>1, <2>2, <2>3, WrongType
  <2>. QED  BY <1>2, <1>6, <2>2, <2>4 DEF Past
<1>. QED  BY <1>10, <1>11, <1>12, <1>13, <1>14 DEF Remembered

LEMMA RememberedNext == TypeInv /\ Remembered /\ [Next]_vars => Remembered'
<1>. SUFFICES ASSUME TypeInv, Remembered, [Next]_vars PROVE Remembered'
  OBVIOUS
<1> DEFINE Quiet == UNCHANGED <<failures, until, allFailures, wrong>> /\ now' \in {now, now + 1}
<1>1. CASE \E i \in Tasks : LookUp(i)
  BY <1>1, RememberedLookUp
<1>2. CASE \E i \in Tasks : GoodPassword(i)
  BY <1>2, RememberedGoodPassword
<1>3. CASE \E i \in Tasks : BadPassword(i)
  BY <1>3, RememberedBadPassword
<1>4. ASSUME NEW i, NEW v, NEW auth, NEW P, NEW k, Incoming(i, v, auth, P, k)
      PROVE  Quiet
  BY <1>4 DEF Incoming, limits, history
<1>5. ASSUME NEW i \in Tasks, \/ LinkUp(i) \/ NoLink(i) \/ HandshakeFails(i) \/ Decide(i) \/ PromptEnds(i)
                              \/ Rotate(i) \/ Leave(i)
                              \/ \E P : Respond(i, P)
                              \/ \E lost : SessionEnds(i, lost)
      PROVE  Quiet
  BY <1>5 DEF LinkUp, NoLink, HandshakeFails, Decide, PromptEnds, Rotate, Leave, Respond, SessionEnds,
     Over, limits, clock, history
<1>6. ASSUME \/ FindExpired \/ Expire \/ Tick \/ UNCHANGED vars \/ ElevatedLost \/ Regenerate
             \/ \E P : SetPermissions(P)
             \/ \E on : SetIncoming(on) \/ SetUnattendedElevated(on)
             \/ \E on, ids : SetUnattended(on, ids)
      PROVE  Quiet
  BY <1>6 DEF FindExpired, Expire, Tick, Regenerate, SetIncoming, SetUnattendedElevated, Changing,
     SetUnattended, SetPermissions, ElevatedLost, vars, limits, clock, history
<1>7. CASE Quiet /\ ~\E i \in Tasks : LookUp(i)
  BY <1>7, RememberedQuiet
<1> DEFINE Guessing == \E i \in Tasks : LookUp(i) \/ GoodPassword(i) \/ BadPassword(i)
<1> HIDE DEF Quiet
<1>8. ASSUME \E i \in Tasks, v \in Viewers, P \in Requests :
               \/ \E k \in {Wrong, temp, temp - 1} : Incoming(i, v, "temporary", P, k)
               \/ \E k \in {Wrong, Permanent} : Incoming(i, v, "permanent", P, k)
      PROVE  Quiet
  BY <1>4, <1>8
<1>9. ASSUME Owner
      PROVE  Quiet
  BY <1>6, <1>9 DEF Owner
<1>10. Guessing \/ Quiet
  <2>1. CASE \E i \in Tasks : \/ LinkUp(i) \/ NoLink(i) \/ LookUp(i) \/ HandshakeFails(i)
                              \/ BadPassword(i) \/ GoodPassword(i)
                              \/ Decide(i) \/ PromptEnds(i)
                              \/ Rotate(i) \/ Leave(i)
    BY <1>5, <2>1
  <2>. QED  BY <1>5, <1>6, <1>8, <1>9, <2>1 DEF Next
<1>. QED  BY <1>1, <1>2, <1>3, <1>7, <1>10

LEMMA RememberedInit == Init => Remembered
<1>. SUFFICES ASSUME Init PROVE Remembered
  OBVIOUS
<1>1. wrong = <<>> /\ DOMAIN <<>> = {} /\ Len(<<>>) = 0
  BY EmptySeq DEF Init
<1>0. Timely(<<>>, now)
  BY <1>1 DEF Timely
<1>2. /\ \A v : GuessesOf(v) = {} /\ \A p : GuessesAt(p) = {}
  BY <1>1 DEF GuessesOf, GuessesAt
<1>3. \A n : PacedIn({}, wrong, n)
  BY DEF PacedIn
<1>4. Kept({}, <<>>, wrong, now)
  BY KeptNone DEF Young
<1>5. \A v \in Viewers : OfViewer(v)
  <2>. SUFFICES ASSUME NEW v \in Viewers PROVE OfViewer(v)
    OBVIOUS
  <2>1. failures[v] = <<>> /\ until[v] = 0
    BY DEF Init
  <2>2. 0 < MaxFailures
    BY NumbersAssumption
  <2>. QED  BY <1>0, <1>1, <1>2, <1>3, <1>4, <2>1, <2>2 DEF OfViewer
<1>6. OfAll
  <2>1. allFailures = <<>>
    BY DEF Init
  <2>2. 0 < MaxGlobal
    BY NumbersAssumption
  <2>. QED  BY <1>0, <1>1, <1>2, <1>3, <1>4, <2>1, <2>2 DEF OfAll
<1>7. Confirming /\ Past
  BY <1>1 DEF Init, Confirming, Past, Gone
<1>. QED  BY <1>5, <1>6, <1>7 DEF Remembered

LEMMA RememberedHolds == Spec => []Remembered
<1>. QED  BY RememberedInit, RememberedNext, TypeHolds, PTL DEF Spec

\* However lockouts, the clock and right passwords go together, a viewer has no more wrong
\* guesses within the window, since it last knew the password, than AttemptLimiter allows.
THEOREM GuessesStayPaced == Spec => []GuessesArePaced
<1>. QED  BY RememberedMeans, RememberedHolds, TypeHolds, PTL

\* A temporary password is burnt in time, however many viewers guess at it, and it opens
\* nothing any more once a session that it opened was closed.
THEOREM PasswordsDie == Spec => []PasswordDies
<1>1. PasswordIsBurnt /\ UsedPasswordIsDead => PasswordDies
  BY DEF PasswordDies
<1>. QED  BY <1>1, RememberedMeans, RememberedHolds, TypeHolds, UsedPasswordStaysDead, PTL

-----------------------------------------------------------------------------
(* HostAccess implements AccessPolicy: every step of the host is a step the   *)
(* policy allows, or none at all for it.                                      *)

LEMMA ServedIs ==
    ASSUME NEW i \in Tasks
    PROVE  /\ active = {i} => Served = i
           /\ active' = {i} => Served' = i
BY DEF Served

LEMMA OneSession ==
    ASSUME TypeInv
    PROVE  active = {} \/ \E i \in Tasks : active = {i} /\ task[i].pc = "session"
BY DEF TypeInv, HostOK, BusyIffServed, At

\* What a session is in the policy, and when there is none.
LEMMA SessionIs ==
    /\ active = {} => Serving = Nobody /\ Granted = {} /\ Given = {} /\ Holds = {}
    /\ \A i \in Tasks : active = {i} =>
          /\ Serving = task[i].viewer /\ Granted = task[i].granted
          /\ Given = task[i].max /\ Holds = task[i].perms
BY ServedIs DEF Serving, Granted, Given, Holds

LEMMA SessionIsNext ==
    /\ active' = {} => Serving' = Nobody /\ Granted' = {} /\ Given' = {} /\ Holds' = {}
    /\ \A i \in Tasks : active' = {i} =>
          /\ Serving' = task'[i].viewer /\ Granted' = task'[i].granted
          /\ Given' = task'[i].max /\ Holds' = task'[i].perms
BY ServedIs DEF Serving, Granted, Given, Holds

LEMMA SessionSame ==
    ASSUME TypeInv, active' = active, \A i \in active : task'[i] = task[i]
    PROVE  UNCHANGED <<Serving, Granted, Given, Holds>>
<1>1. CASE active = {}
  BY <1>1, SessionIs, SessionIsNext
<1>2. ASSUME NEW i \in Tasks, active = {i}
      PROVE  UNCHANGED <<Serving, Granted, Given, Holds>>
  BY <1>2, SessionIs, SessionIsNext
<1>. QED  BY <1>1, <1>2, OneSession

\* The owner's answer is that of the one task that asked for it.
LEMMA ConsentIs ==
    /\ Asked = {} => Consent = [viewer |-> Nobody, to |-> {}]
    /\ \A i : Asked = {i} => Consent = [viewer |-> task[i].viewer, to |-> task[i].answer.to]
<1>1. ASSUME NEW i, Asked = {i}
      PROVE  (CHOOSE j \in Asked : TRUE) = i
  BY <1>1
<1>. QED  BY <1>1 DEF Consent

LEMMA ConsentIsNext ==
    /\ Asked' = {} => Consent' = [viewer |-> Nobody, to |-> {}]
    /\ \A i : Asked' = {i} => Consent' = [viewer |-> task'[i].viewer, to |-> task'[i].answer.to]
<1>1. ASSUME NEW i, Asked' = {i}
      PROVE  (CHOOSE j \in Asked' : TRUE) = i
  BY <1>1
<1>. QED  BY <1>1 DEF Consent

LEMMA NobodyAsked ==
    ASSUME TypeInv, NEW i \in Tasks, task[i].pc \notin {"gone", "prompt"}
    PROVE  Asked = {} /\ Consent = [viewer |-> Nobody, to |-> {}]
<1>1. Asked = {}
  BY OneTask DEF Asked, At, TypeInv
<1>. QED  BY <1>1, ConsentIs

\* A task other than the one that asked goes on: neither a session nor an answer changes.
LEMMA ConsentSame ==
    ASSUME Asked' = Asked, \A i \in Asked : task'[i] = task[i]
    PROVE  Consent' = Consent
<1>1. CASE Asked = {}
  BY <1>1, ConsentIs, ConsentIsNext
<1>2. CASE Asked # {}
  <2>1. (CHOOSE j \in Asked : TRUE) \in Asked
    BY <1>2
  <2>. QED  BY <1>2, <2>1 DEF Consent
<1>. QED  BY <1>1, <1>2

LEMMA OthersSame ==
    /\ UNCHANGED <<resume, now>> => Returns' = Returns
    /\ UNCHANGED <<unattended, unattendedElevated>> => Open' = Open
BY DEF Returns, Fresh, Open

-----------------------------------------------------------------------------
(* The steps *)

Seen == <<Serving, Granted, Given, Holds, Consent, Returns, Open>>

\* One task goes on, outside of sessions and questions.
LEMMA TaskGoesOn ==
    ASSUME TypeInv, NEW i \in Tasks, task[i].pc \notin {"gone", "prompt", "session"},
           NEW r, r.pc \notin {"prompt", "session"},
           task' = [task EXCEPT ![i] = r], active' = active,
           UNCHANGED <<resume, now, unattended, unattendedElevated>>
    PROVE  UNCHANGED Seen
<1>1. active = {} /\ \A j \in Tasks \ {i} : task[j].pc = "gone"
  BY OneTask DEF TypeInv
<1>2. UNCHANGED <<Serving, Granted, Given, Holds>>
  BY <1>1, SessionSame
<1>3. Asked = {} /\ Asked' = {}
  BY <1>1 DEF Asked, At, TypeInv, HostOK
<1>4. Consent' = Consent
  BY <1>3, ConsentSame
<1>. QED  BY <1>2, <1>4, OthersSame DEF Seen

LEMMA NothingSeen ==
    ASSUME TypeInv, UNCHANGED <<active, task, resume, now, unattended, unattendedElevated>>
    PROVE  UNCHANGED Seen
<1>1. Asked' = Asked
  BY DEF Asked, At
<1>. QED  BY <1>1, SessionSame, ConsentSame, OthersSame DEF Seen

LEMMA IncomingSeen ==
    ASSUME TypeInv, NEW i \in Tasks, NEW v, NEW auth, NEW P, NEW k, Incoming(i, v, auth, P, k)
    PROVE  UNCHANGED Seen
<1>0. UNCHANGED <<active, resume, now, unattended, unattendedElevated>>
  BY DEF Incoming, rules
<1>1. CASE UNCHANGED task
  BY <1>0, <1>1, NothingSeen
<1>2. CASE ~busy /\ task' = [task EXCEPT ![i] = [Gone EXCEPT !.pc = "link", !.viewer = v, !.auth = auth,
                                                             !.wants = P, !.knows = k]]
  <2>1. active = {} /\ \A j \in Tasks : task[j].pc = "gone"
    BY <1>2 DEF TypeInv, HostOK, BusyIffServed, At
  <2>2. Asked = {} /\ Asked' = {}
    BY <1>2, <2>1 DEF Asked, At, Gone, TypeInv, HostOK
  <2>. QED  BY <1>0, <2>1, <2>2, SessionSame, ConsentSame, OthersSame DEF Seen
<1>. QED  BY <1>1, <1>2 DEF Incoming, Gate

LEMMA HandshakeSeen ==
    ASSUME TypeInv, NEW i \in Tasks,
           LinkUp(i) \/ NoLink(i) \/ LookUp(i) \/ HandshakeFails(i) \/ BadPassword(i) \/ GoodPassword(i)
              \/ Rotate(i) \/ Leave(i)
    PROVE  UNCHANGED Seen
<1>1. task[i] \in TaskRecord /\ task[i].pc \in {"link", "hello", "confirm", "rotate", "leave"}
  BY DEF LinkUp, NoLink, LookUp, HandshakeFails, BadPassword, GoodPassword, Rotate, Leave, At, TypeInv,
     HostOK
<1>2. UNCHANGED <<active, resume, now, unattended, unattendedElevated>>
  BY DEF LinkUp, NoLink, LookUp, HandshakeFails, BadPassword, GoodPassword, Rotate, Leave, rules, clock
<1>3. ASSUME NEW pc \in {"hello", "leave"}, Goto(i, pc)
      PROVE  UNCHANGED Seen
  <2>1. task' = [task EXCEPT ![i] = [task[i] EXCEPT !.pc = pc]]
    BY <1>3 DEF Goto, TypeInv, HostOK
  <2>2. [task[i] EXCEPT !.pc = pc].pc = pc
    BY <1>1 DEF TaskRecord
  <2>. QED  BY <1>1, <1>2, <2>1, <2>2, TaskGoesOn
<1>4. CASE Release(i)
  BY <1>1, <1>2, <1>4, GoneType, TaskGoesOn DEF Release
<1>5. CASE \E x : task' = [task EXCEPT ![i].pc = "confirm", ![i].offered = x]
  <2>1. PICK x : task' = [task EXCEPT ![i].pc = "confirm", ![i].offered = x]
    BY <1>5
  <2> DEFINE r == [task[i] EXCEPT !.pc = "confirm", !.offered = x]
  <2>2. task' = [task EXCEPT ![i] = r] /\ r.pc = "confirm"
    BY <1>1, <2>1 DEF TypeInv, HostOK, TaskRecord
  <2>. QED  BY <1>1, <1>2, <2>2, TaskGoesOn
<1>6. CASE task' = [task EXCEPT ![i].pc = "decide", ![i].knows = Wrong]
  <2> DEFINE r == [task[i] EXCEPT !.pc = "decide", !.knows = Wrong]
  <2>1. task' = [task EXCEPT ![i] = r] /\ r.pc = "decide"
    BY <1>1, <1>6 DEF TypeInv, HostOK, TaskRecord
  <2>. QED  BY <1>1, <1>2, <2>1, TaskGoesOn
<1>. QED  BY <1>3, <1>4, <1>5, <1>6 DEF LinkUp, NoLink, LookUp, HandshakeFails, BadPassword, GoodPassword,
             Rotate, Leave

\* The owner's rules for others, and the passwords, are nothing the policy sees.
LEMMA OwnerSeen ==
    ASSUME TypeInv, \/ Regenerate \/ FindExpired \/ Expire \/ UNCHANGED vars
                    \/ \E on : SetIncoming(on)
    PROVE  UNCHANGED Seen
BY NothingSeen DEF Regenerate, FindExpired, Expire, SetIncoming, Changing, access, rules, clock, vars

\* A viewer comes in: with what it is entitled to, and never while another one is served.
LEMMA EnterAdmits ==
    ASSUME TypeInv, NEW i \in Tasks, task[i].pc \in {"decide", "prompt"}, NEW P \in Permissions,
           Enter(i, P), P \cap Standard # {}, Policy!Entitled(task[i].viewer, P),
           UNCHANGED <<resume, now, unattended, unattendedElevated>>
    PROVE  Policy!Next
<1>1. active = {} /\ \A j \in Tasks \ {i} : task[j].pc = "gone"
  BY OneTask DEF TypeInv
<1>2. task[i] \in TaskRecord /\ task[i].viewer \in Viewers
  BY DEF TypeInv, HostOK, ShapeOf, Busy
<1>3. PICK Q \in {P, P \ {Elevated}} :
            task' = [task EXCEPT ![i].pc = "session", ![i].wants = {}, ![i].answer = NoAnswer,
                                 ![i].granted = P, ![i].max = Q, ![i].perms = Q]
  BY DEF Enter
<1>4. active' = {i}
  BY DEF Enter
<1>5. /\ task'[i].pc = "session" /\ task'[i].viewer = task[i].viewer /\ task'[i].granted = P
      /\ task'[i].max = Q /\ task'[i].perms = Q
  BY <1>2, <1>3 DEF TypeInv, HostOK, TaskRecord
<1>6. Serving = Nobody /\ Serving' = task[i].viewer /\ Granted' = P /\ Given' = Q /\ Holds' = Q
  BY <1>1, <1>4, <1>5, SessionIs, SessionIsNext
<1>7. Asked' = {}
  BY <1>1, <1>3, <1>5 DEF Asked, At, TypeInv, HostOK
<1>8. Consent' = [viewer |-> Nobody, to |-> {}]
  BY <1>7, ConsentIsNext
<1>9. Policy!Admit(task[i].viewer, P)
  BY <1>6, <1>8, OthersSame DEF Policy!Admit, Policy!NoConsent
<1>. QED  BY <1>2, <1>9 DEF Policy!Next, Policy!Permissions, Permissions

\* The task leaves: with it goes what the owner may have answered.
LEMMA EnterWithdraws ==
    ASSUME TypeInv, NEW i \in Tasks, task[i].pc \in {"decide", "prompt"}, Goto(i, "leave"), active' = active,
           UNCHANGED <<resume, now, unattended, unattendedElevated>>
    PROVE  Policy!Next
<1>1. active = {} /\ \A j \in Tasks \ {i} : task[j].pc = "gone"
  BY OneTask DEF TypeInv
<1>2. Asked' = {}
  BY <1>1 DEF Asked, At, Goto, TypeInv, HostOK, TaskRecord
<1>3. Consent' = [viewer |-> Nobody, to |-> {}]
  BY <1>2, ConsentIsNext
<1>4. UNCHANGED <<Serving, Granted, Given, Holds>>
  BY <1>1, SessionSame
<1>. QED  BY <1>3, <1>4, OthersSame DEF Policy!Next, Policy!Withdraw, Policy!NoConsent

\* What Decide lets in without a question is open, or was the viewer's a short time ago.
LEMMA EntitledUnasked ==
    ASSUME TypeInv, NEW i \in Tasks, task[i].viewer \in Viewers,
           (task[i].auth = "permanent" /\ unattended) \/ Fresh(task[i].viewer)
    PROVE  Policy!Entitled(task[i].viewer, Entitlement(i))
<1>1. task[i].wants \in Permissions
  BY DEF TypeInv, HostOK, TaskRecord
<1>2. CASE task[i].auth = "permanent" /\ unattended
  <2>1. Entitlement(i) \subseteq Open
    BY <1>1, <1>2 DEF Entitlement, Open, Permissions
  <2>. QED  BY <2>1 DEF Policy!Entitled
<1>3. CASE ~(task[i].auth = "permanent" /\ unattended)
  <2>1. Returns[task[i].viewer] = resume[task[i].viewer].perms
    BY <1>3 DEF Returns
  <2>2. Entitlement(i) \subseteq Returns[task[i].viewer] /\ Elevated \notin Entitlement(i)
    BY <1>3, <2>1 DEF Entitlement
  <2>. QED  BY <2>2 DEF Policy!Entitled
<1>. QED  BY <1>2, <1>3

LEMMA DecideRefines ==
    ASSUME TypeInv, NEW i \in Tasks, Decide(i)
    PROVE  Policy!Next \/ UNCHANGED Seen
<1>1. /\ task[i].pc = "decide" /\ task[i] \in TaskRecord /\ task[i].viewer \in Viewers
      /\ task[i].answer = NoAnswer
  BY DEF Decide, At, TypeInv, HostOK, ShapeOf, Busy
<1>2. UNCHANGED <<resume, now, unattended, unattendedElevated>>
  BY DEF Decide, rules, clock
<1>3. CASE ((task[i].auth = "permanent" /\ unattended) \/ Fresh(task[i].viewer))
           /\ Enter(i, Entitlement(i))
  <2>1. CASE Entitlement(i) \cap Standard = {}
    BY <1>1, <1>2, <1>3, <2>1, EnterWithdraws DEF Enter
  <2>2. CASE Entitlement(i) \cap Standard # {}
    BY <1>1, <1>2, <1>3, <2>2, EnterAdmits, EntitledUnasked, EntitlementType
  <2>. QED  BY <2>1, <2>2
<1>4. CASE Goto(i, "prompt") /\ UNCHANGED active
  <2>1. active = {} /\ \A j \in Tasks \ {i} : task[j].pc = "gone"
    BY <1>1, OneTask DEF TypeInv
  <2>2. Asked = {}
    BY <1>1, <2>1 DEF Asked, At
  <2>3. task'[i].answer = NoAnswer /\ \A j \in Tasks \ {i} : task'[j] = task[j]
    BY <1>1, <1>4 DEF Goto, TypeInv, HostOK, TaskRecord
  <2>4. Asked' = {}
    BY <2>1, <2>3 DEF Asked, At, NoAnswer
  <2>. QED  BY <1>2, <1>4, <2>1, <2>2, <2>4, SessionSame, ConsentSame, OthersSame DEF Seen
<1>. QED  BY <1>3, <1>4 DEF Decide

LEMMA RespondRefines ==
    ASSUME TypeInv, NEW i \in Tasks, NEW P \in Answers, Respond(i, P)
    PROVE  Policy!Next
<1>1. task[i].pc = "prompt" /\ task[i] \in TaskRecord /\ task[i].viewer \in Viewers
  BY DEF Respond, At, TypeInv, HostOK, ShapeOf, Busy
<1>2. active = {} /\ \A j \in Tasks \ {i} : task[j].pc = "gone"
  BY <1>1, OneTask DEF TypeInv
<1>3. task' = [task EXCEPT ![i].answer = [given |-> TRUE, to |-> P]]
  BY DEF Respond
<1>4. /\ task'[i].pc = "prompt" /\ task'[i].answer = [given |-> TRUE, to |-> P]
      /\ task'[i].viewer = task[i].viewer /\ \A j \in Tasks \ {i} : task'[j] = task[j]
  BY <1>1, <1>3 DEF TypeInv, HostOK, TaskRecord
<1>5. Asked' = {i}
  BY <1>2, <1>4 DEF Asked, At
<1>6. Consent' = [viewer |-> task[i].viewer, to |-> P]
  BY <1>4, <1>5, ConsentIsNext
<1>7. Serving = Nobody /\ UNCHANGED <<Serving, Granted, Given, Holds, Returns, Open>>
  <2>1. UNCHANGED <<active, resume, now, unattended, unattendedElevated>>
    BY DEF Respond, rules, clock
  <2>. QED  BY <1>2, <2>1, SessionIs, SessionSame, OthersSame
<1>8. Policy!Answer(task[i].viewer, P)
  BY <1>6, <1>7 DEF Policy!Answer
<1>. QED  BY <1>1, <1>8, RequestsAssumption DEF Policy!Next, Policy!Permissions, Permissions

LEMMA PromptEndsRefines ==
    ASSUME TypeInv, NEW i \in Tasks, PromptEnds(i)
    PROVE  Policy!Next
<1> DEFINE P == IF task[i].answer.given THEN task[i].answer.to \cap task[i].wants ELSE {}
<1>1. task[i].pc = "prompt" /\ task[i] \in TaskRecord
  BY DEF PromptEnds, At, TypeInv, HostOK
<1>2. UNCHANGED <<resume, now, unattended, unattendedElevated>> /\ Enter(i, P)
  BY DEF PromptEnds, rules, clock
<1>3. P \in Permissions
  BY <1>1, PermissionsClosed, EmptyPermissions DEF TaskRecord
<1>4. CASE P \cap Standard = {}
  BY <1>1, <1>2, <1>4, EnterWithdraws DEF Enter
<1>5. CASE P \cap Standard # {}
  <2>1. task[i].answer.given
    BY <1>5
  <2>2. \A j \in Tasks \ {i} : task[j].pc = "gone"
    BY <1>1, OneTask DEF TypeInv
  <2>3. Asked = {i}
    BY <1>1, <2>1, <2>2 DEF Asked, At
  <2>4. Consent = [viewer |-> task[i].viewer, to |-> task[i].answer.to]
    BY <2>3, ConsentIs
  <2>5. Policy!Entitled(task[i].viewer, P)
    BY <2>1, <2>4 DEF Policy!Entitled
  <2>. QED  BY <1>1, <1>2, <1>3, <1>5, <2>5, EnterAdmits
<1>. QED  BY <1>4, <1>5

\* The permissions change within what the session may have.
LEMMA ChangeRefines ==
    ASSUME TypeInv, NEW i \in Tasks, active = {i}, active' = active, NEW Q, NEW R, Q \subseteq R,
           R \in {task[i].max, task[i].max \ {Elevated}},
           task' = [task EXCEPT ![i].perms = Q, ![i].max = R],
           UNCHANGED <<resume, now, unattended, unattendedElevated>>
    PROVE  Policy!Next
<1>1. task[i].pc = "session" /\ task[i] \in TaskRecord /\ task[i].viewer \in Viewers
  BY OneSession DEF TypeInv, HostOK, ShapeOf, Busy
<1>2. /\ task'[i].pc = "session" /\ task'[i].viewer = task[i].viewer /\ task'[i].granted = task[i].granted
      /\ task'[i].perms = Q /\ task'[i].max = R /\ \A j \in Tasks \ {i} : task'[j] = task[j]
  BY <1>1 DEF TypeInv, HostOK, TaskRecord
<1>3. Asked = {} /\ Asked' = {}
  BY <1>1, <1>2, OneTask DEF Asked, At, TypeInv
<1>4. /\ Serving = task[i].viewer /\ Serving' = Serving /\ Granted' = Granted
      /\ Given = task[i].max /\ Given' = R /\ Holds' = Q
  BY <1>2, SessionIs, SessionIsNext
<1>5. Serving # Nobody
  BY <1>1, <1>4, ViewersAssumption
<1>6. Policy!Change
  BY <1>3, <1>4, <1>5, ConsentSame, OthersSame DEF Policy!Change
<1>. QED  BY <1>6 DEF Policy!Next

LEMMA PermissionsRefine ==
    ASSUME TypeInv, NEW P, SetPermissions(P) \/ ElevatedLost
    PROVE  Policy!Next
<1>1. UNCHANGED <<active, resume, now, unattended, unattendedElevated>>
  BY DEF SetPermissions, ElevatedLost, rules, clock
<1>2. active # {}
  BY DEF SetPermissions, ElevatedLost
<1>3. PICK i \in Tasks : active = {i} /\ task[i].pc = "session"
  BY <1>2, OneSession
<1>4. task[i] \in TaskRecord /\ task[i].perms \subseteq task[i].max
  BY DEF TypeInv, HostOK, ShapeOf
<1>5. CASE SetPermissions(P)
  <2>1. PICK Q : /\ Q \in {P \cap task[i].max, (P \cap task[i].max) \ ({Elevated} \ task[i].perms)}
                 /\ task' = [task EXCEPT ![i].perms = Q]
    BY <1>3, <1>5 DEF SetPermissions
  <2>2. task' = [task EXCEPT ![i].perms = Q, ![i].max = task[i].max]
    BY <1>4, <2>1 DEF TypeInv, HostOK, TaskRecord
  <2>3. Q \subseteq task[i].max
    BY <2>1
  <2>. QED  BY <1>1, <1>3, <2>2, <2>3, ChangeRefines
<1>6. CASE ElevatedLost
  <2>1. task' = [task EXCEPT ![i].perms = @ \ {Elevated}, ![i].max = @ \ {Elevated}]
    BY <1>3, <1>6 DEF ElevatedLost
  <2>2. task' = [task EXCEPT ![i].perms = task[i].perms \ {Elevated}, ![i].max = task[i].max \ {Elevated}]
    BY <1>4, <2>1 DEF TypeInv, HostOK, TaskRecord
  <2>3. task[i].perms \ {Elevated} \subseteq task[i].max \ {Elevated}
    BY <1>4
  <2>. QED  BY <1>1, <1>3, <2>2, <2>3, ChangeRefines
<1>. QED  BY <1>5, <1>6

\* Only the viewer of the session may come back, with what the session was begun with.
LEMMA SessionEndsRefines ==
    ASSUME TypeInv, NEW i \in Tasks, NEW lost \in BOOLEAN, SessionEnds(i, lost)
    PROVE  Policy!Next
<1>0. PICK v \in Viewers : v = task[i].viewer
  BY DEF SessionEnds, Over, At, TypeInv, HostOK, ShapeOf, Busy
<1>1. task[i].pc = "session" /\ task[i] \in TaskRecord /\ active = {i} /\ active' = {}
  BY OneTask DEF SessionEnds, Over, At, TypeInv, HostOK
<1>2. /\ Serving = v /\ Granted = task[i].granted /\ Serving' = Nobody
      /\ Granted' = {} /\ Given' = {} /\ Holds' = {} /\ v # Nobody
  BY <1>0, <1>1, SessionIs, SessionIsNext, ViewersAssumption
<1>3. Asked = {} /\ Asked' = {}
  <2>1. \A j \in Tasks \ {i} : task[j].pc = "gone"
    BY <1>1, OneTask DEF TypeInv
  <2>2. task' = [task EXCEPT ![i] = [Gone EXCEPT !.pc = IF ~lost /\ RotateAfter THEN "rotate" ELSE "leave"]]
    BY DEF SessionEnds, Over
  <2>. QED  BY <1>1, <2>1, <2>2 DEF Asked, At, Gone, TypeInv, HostOK
<1>4. now' = now /\ UNCHANGED <<unattended, unattendedElevated>> /\ now \in Nat
  BY DEF SessionEnds, Over, rules, clock, TypeInv, RestOK
<1>5. resume' = [resume EXCEPT ![v] = IF lost THEN [valid |-> TRUE, perms |-> task[i].granted, at |-> now]
                                              ELSE NoGrant]
  BY <1>0 DEF SessionEnds, Over
<1>6. Returns'[v] \in {{}, Granted}
  BY <1>2, <1>5 DEF Returns, NoGrant, Fresh, TypeInv, RestOK
<1>7. \A u \in Viewers \ {v} : Returns'[u] = Returns[u]
  BY <1>4, <1>5 DEF Returns, Fresh, TypeInv, RestOK
<1>8. Returns' = [Returns EXCEPT ![Serving] = Returns'[v]]
  BY <1>2, <1>7 DEF Returns
<1>9. Policy!Leave
  BY <1>2, <1>3, <1>4, <1>6, <1>8, ConsentSame, OthersSame DEF Policy!Leave
<1>. QED  BY <1>9 DEF Policy!Next

\* As time goes on, lost sessions are forgotten, and none comes back.
LEMMA TickRefines ==
    ASSUME TypeInv, Tick
    PROVE  Policy!Next
<1>1. UNCHANGED <<active, task, resume, unattended, unattendedElevated>> /\ now' = now + 1 /\ now \in Nat
  BY DEF Tick, access, rules, TypeInv, RestOK
<1>2. UNCHANGED <<Serving, Granted, Given, Holds, Consent, Open>>
  <2>1. Asked' = Asked
    BY <1>1 DEF Asked, At
  <2>. QED  BY <1>1, <2>1, SessionSame, ConsentSame, OthersSame
<1> DEFINE late == {v \in Viewers : ~Fresh(v)'}
<1>3. ASSUME NEW v \in Viewers, Fresh(v)'
      PROVE  Fresh(v)
  <2>1. resume[v].at \in Nat /\ resume'[v] = resume[v]
    BY <1>1 DEF TypeInv, RestOK
  <2>. QED  BY <1>1, <1>3, <2>1, NumbersAssumption DEF Fresh
<1>4. Returns' = [v \in Viewers |-> IF v \in late THEN {} ELSE Returns[v]]
  BY <1>1, <1>3 DEF Returns
<1>5. Policy!Forget
  BY <1>2, <1>4 DEF Policy!Forget
<1>. QED  BY <1>5 DEF Policy!Next

LEMMA ConfigureRefines ==
    ASSUME TypeInv, NEW on, NEW ids, SetUnattended(on, ids) \/ SetUnattendedElevated(on)
    PROVE  Policy!Next
<1>1. UNCHANGED <<active, task, resume, now>>
  BY DEF SetUnattended, SetUnattendedElevated, Changing, access
<1>2. Asked' = Asked
  BY <1>1 DEF Asked, At
<1>3. Open' \in Policy!Permissions
  BY DEF Open, Policy!Permissions
<1>4. Policy!Configure
  BY <1>1, <1>2, <1>3, SessionSame, ConsentSame, OthersSame DEF Policy!Configure
<1>. QED  BY <1>4 DEF Policy!Next

LEMMA PolicyStep == TypeInv /\ [Next]_vars => [Policy!Next]_(Policy!vars)
<1>. SUFFICES ASSUME TypeInv, [Next]_vars PROVE Policy!Next \/ UNCHANGED Seen
  BY DEF Seen, Policy!vars
<1>1. CASE \E i \in Tasks, v \in Viewers, P \in Requests :
               \/ \E k \in {Wrong, temp, temp - 1} : Incoming(i, v, "temporary", P, k)
               \/ \E k \in {Wrong, Permanent} : Incoming(i, v, "permanent", P, k)
  BY <1>1, IncomingSeen
<1>2. CASE \E i \in Tasks : \/ LinkUp(i) \/ NoLink(i) \/ LookUp(i) \/ HandshakeFails(i)
                            \/ BadPassword(i) \/ GoodPassword(i)
                            \/ Decide(i) \/ PromptEnds(i)
                            \/ Rotate(i) \/ Leave(i)
  BY <1>2, HandshakeSeen, DecideRefines, PromptEndsRefines
<1>3. CASE \E i \in Tasks, P \in Answers : Respond(i, P)
  BY <1>3, RespondRefines
<1>4. CASE \E i \in Tasks, lost \in BOOLEAN : SessionEnds(i, lost)
  BY <1>4, SessionEndsRefines
<1>5. CASE ElevatedLost \/ \E P \in Answers : SetPermissions(P)
  BY <1>5, PermissionsRefine
<1>6. CASE \/ \E on \in BOOLEAN : SetUnattendedElevated(on)
           \/ \E on \in BOOLEAN, ids \in SUBSET Viewers : SetUnattended(on, ids)
  BY <1>6, ConfigureRefines
<1>7. CASE Regenerate \/ FindExpired \/ Expire \/ UNCHANGED vars \/ \E on \in BOOLEAN : SetIncoming(on)
  BY <1>7, OwnerSeen
<1>8. CASE Tick
  BY <1>8, TickRefines
<1>9. CASE Owner
  BY <1>5, <1>6, <1>7, <1>9 DEF Owner
<1>. QED  BY <1>1, <1>2, <1>3, <1>4, <1>5, <1>7, <1>8, <1>9 DEF Next

\* The host implements AccessPolicy: one viewer at a time, who came in by the owner's answer
\* to its own request, by the rule for unattended access or because its session was lost a
\* short time ago, with elevated control from the first two only.
THEOREM PolicyHolds == Spec => ImplementsPolicy
<1>1. Init => Policy!Init
  <2>. SUFFICES ASSUME Init PROVE Policy!Init
    OBVIOUS
  <2>1. Asked = {}
    BY DEF Init, Asked, At, Gone
  <2>2. Returns = [v \in Viewers |-> {}]
    BY DEF Init, Returns, Fresh, NoGrant
  <2>. QED  BY <2>1, <2>2, SessionIs, ConsentIs DEF Init, Open, Policy!Init, Policy!NoConsent
<1>. QED  BY <1>1, PolicyStep, TypeHolds, PTL DEF Spec, ImplementsPolicy, Policy!Spec
=============================================================================
