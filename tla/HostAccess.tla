----------------------------- MODULE HostAccess -----------------------------
(***************************************************************************)
(* How a viewer gets into a host: handle_incoming with its busy flag, the  *)
(* host's half of the handshake, the lockout after wrong passwords, the    *)
(* temporary password and its rotation, the question to the owner, the     *)
(* permissions of the session, and the viewers that may resume.            *)
(*                                                                         *)
(* A task is one run of handle_incoming.  A task that was refused, or that *)
(* has released the host, changes nothing any more and is gone.  What the  *)
(* viewer sends is open: it may know the password or not, and may fall     *)
(* silent at any point.  A password is a number: 0 is a wrong one, 1 the   *)
(* permanent one, and temporary ones count up from 2.  update_config is    *)
(* left out: the configuration stays what it is.                           *)
(***************************************************************************)
EXTENDS Naturals, Sequences, FiniteSets

CONSTANTS
    Viewers,       \* device ids
    Standard,      \* the permissions that make a session
    Elevated,      \* the permission for elevated control
    Nobody,        \* no viewer
    Requests,      \* sets of permissions viewers ask for
    Answers,       \* sets of permissions owners grant
    Tasks,         \* bound: tasks that hold or wait for the host at a time
    MaxFailures,   \* of one viewer, until it is locked out (5 in the code)
    MaxGlobal,     \* of all, until the password is rotated (10)
    Window,        \* in which failures count (600 s, as all times: in ticks)
    Lockout,       \* how long a viewer is locked out (1800 s)
    ResumeWindow,  \* how long a lost viewer may resume (300 s)
    RotateAfter,   \* EngineConfig.rotate_after_session
    MaxIncoming,   \* bound: announced sessions
    MaxChanges,    \* bound: changes of rules, passwords rotated by the owner or by age
    MaxTime        \* bound: ticks

Permissions == SUBSET (Standard \cup {Elevated})
Wrong == 0
Permanent == 1

ASSUME ViewersAssumption == Nobody \notin Viewers /\ Elevated \notin Standard
ASSUME RequestsAssumption == Requests \subseteq Permissions /\ Answers \subseteq Permissions
ASSUME NumbersAssumption ==
    /\ MaxFailures \in Nat \ {0} /\ MaxGlobal \in Nat \ {0}
    /\ Window \in Nat \ {0} /\ Lockout \in Nat /\ Window <= Lockout /\ ResumeWindow \in Nat
    /\ RotateAfter \in BOOLEAN
    /\ MaxIncoming \in Nat /\ MaxChanges \in Nat /\ MaxTime \in Nat

VARIABLES
    busy, active,        \* HostState: the flag, and the task whose session takes commands
    task,                \* what each task is at
    temp,                \* the temporary password
    expiring,            \* password_expiry found the password old, and will rotate it
    failures, until,     \* per_viewer_failures: times of failures, end of a lockout
    allFailures,         \* global_failures
    resume,              \* resume_grants
    unattended, authorized, unattendedElevated,   \* rules for the permanent password
    incoming,            \* incoming_enabled
    now, announced, changes,   \* the clock; sessions announced and changes made so far
    wrong,               \* history: the wrong passwords that were looked at
    spent                \* history: temporary passwords whose session is over

access == <<busy, active, task>>
limits == <<failures, until, allFailures>>
rules == <<unattended, authorized, unattendedElevated, incoming>>
clock == <<now, announced, changes>>
history == <<wrong, spent>>
vars == <<busy, active, task, temp, expiring, failures, until, allFailures, resume,
          unattended, authorized, unattendedElevated, incoming, now, announced, changes, wrong, spent>>

NoAnswer == [given |-> FALSE, to |-> {}]
NoGrant == [valid |-> FALSE, perms |-> {}, at |-> 0]
Gone == [pc |-> "gone", viewer |-> Nobody, auth |-> "temporary", wants |-> {}, knows |-> Wrong,
         offered |-> Wrong, answer |-> NoAnswer, granted |-> {}, max |-> {}, perms |-> {}]

Init == /\ busy = FALSE /\ active = {} /\ task = [i \in Tasks |-> Gone]
        /\ temp = 2 /\ expiring = FALSE
        /\ failures = [v \in Viewers |-> <<>>] /\ until = [v \in Viewers |-> 0] /\ allFailures = <<>>
        /\ resume = [v \in Viewers |-> NoGrant]
        /\ unattended = FALSE /\ authorized = {} /\ unattendedElevated = FALSE /\ incoming = TRUE
        /\ now = 0 /\ announced = 0 /\ changes = 0 /\ wrong = <<>> /\ spent = {}

At(pc) == {i \in Tasks : task[i].pc = pc}
Goto(i, pc) == task' = [task EXCEPT ![i].pc = pc]

\* ReleaseBusy: the host is free, and what the task still does concerns nobody.
Release(i) == busy' = FALSE /\ task' = [task EXCEPT ![i] = Gone]

-----------------------------------------------------------------------------
(* A session is announced, and gets a connection *)

\* Mutant: whether the host is busy is not asked.
AdmitAny(i, v, auth, P, k) ==
    /\ busy' = TRUE
    /\ task' = [task EXCEPT ![i] = [Gone EXCEPT !.pc = "link", !.viewer = v, !.auth = auth,
                                                !.wants = P, !.knows = k]]

\* The gate of handle_incoming, under the lock of the host's state.
Gate(i, v, auth, P, k) ==
    IF incoming /\ ~busy
    THEN /\ busy' = TRUE
         /\ task' = [task EXCEPT ![i] = [Gone EXCEPT !.pc = "link", !.viewer = v, !.auth = auth,
                                                     !.wants = P, !.knows = k]]
    ELSE UNCHANGED <<busy, task>>

Incoming(i, v, auth, P, k) ==
    /\ announced < MaxIncoming /\ announced' = announced + 1
    /\ i \in At("gone") /\ Gate(i, v, auth, P, k)
    /\ UNCHANGED <<active, temp, expiring, limits, resume, rules, now, changes, history>>

\* await_link: a direct connection or the first relayed frame, within 20 s.
LinkUp(i) == /\ i \in At("link") /\ Goto(i, "hello")
             /\ UNCHANGED <<busy, active, temp, expiring, limits, resume, rules, clock, history>>

NoLink(i) == /\ i \in At("link") /\ Goto(i, "leave")
             /\ UNCHANGED <<busy, active, temp, expiring, limits, resume, rules, clock, history>>

-----------------------------------------------------------------------------
(* AttemptLimiter *)

Locked(v) == until[v] > now

\* locked() forgets a lockout that is over.
Forgiven(v) == until[v] # 0 /\ ~Locked(v)

\* Mutant: a failure as old as the window counts no more, nor does a younger one.
RecentShort(q) == SubSeq(q, Cardinality({k \in DOMAIN q : now - q[k] + 1 >= Window}) + 1, Len(q))
\* Failures are recorded as they happen, so that those which are not retained come first.
Recent(q) == SubSeq(q, Cardinality({k \in DOMAIN q : now - q[k] >= Window}) + 1, Len(q))

\* record_failure for a viewer, and for all of them together.
RecordFailure(v) ==
    LET q == Append(Recent(failures[v]), now)
        locks == Len(q) >= MaxFailures
    IN /\ failures' = [failures EXCEPT ![v] = IF locks THEN <<>> ELSE q]
       /\ until' = IF locks THEN [until EXCEPT ![v] = now + Lockout] ELSE until

RecordForAll ==
    LET q == Append(Recent(allFailures), now)
    IN IF Len(q) >= MaxGlobal THEN allFailures' = <<>> /\ temp' = temp + 1
                              ELSE allFailures' = q /\ UNCHANGED temp

-----------------------------------------------------------------------------
(* The handshake *)

\* Hello: the password of that kind is looked up, unless the viewer is locked out.
LookUp(i) ==
    LET v == task[i].viewer
        pw == IF task[i].auth = "temporary" THEN temp ELSE Permanent
        allowed == task[i].auth = "temporary" \/ (unattended /\ v \in authorized)
    IN /\ i \in At("hello")
       /\ until' = IF Forgiven(v) THEN [until EXCEPT ![v] = 0] ELSE until
       /\ failures' = IF Forgiven(v) THEN [failures EXCEPT ![v] = <<>>] ELSE failures
       /\ IF ~Locked(v) /\ allowed
          THEN /\ task' = [task EXCEPT ![i].pc = "confirm", ![i].offered = pw]
               /\ UNCHANGED busy
          ELSE Release(i)
       /\ UNCHANGED <<active, temp, expiring, allFailures, resume, rules, clock, history>>

\* The viewer falls silent, or what it sends is not what is due.
HandshakeFails(i) ==
    /\ i \in At("hello") \cup At("confirm") /\ Release(i)
    /\ UNCHANGED <<active, temp, expiring, limits, resume, rules, clock, history>>

\* Confirm of a viewer that does not know the password: it counts, and with too many
\* failures of all viewers the password is burnt.
BadPassword(i) ==
    LET v == task[i].viewer
    IN /\ i \in At("confirm") /\ task[i].knows # task[i].offered
       /\ wrong' = Append(wrong, [by |-> v, at |-> now, pw |-> task[i].offered])
       /\ RecordFailure(v) /\ RecordForAll
       /\ Release(i)
       /\ UNCHANGED <<active, expiring, resume, rules, clock, spent>>

GoodPassword(i) ==
    LET v == task[i].viewer
    IN /\ i \in At("confirm") /\ task[i].knows = task[i].offered
       /\ failures' = [failures EXCEPT ![v] = <<>>] /\ until' = [until EXCEPT ![v] = 0]
       /\ wrong' = [k \in DOMAIN wrong |-> IF wrong[k].by = v THEN [wrong[k] EXCEPT !.by = Nobody]
                                                              ELSE wrong[k]]
       /\ task' = [task EXCEPT ![i].pc = "decide", ![i].knows = Wrong]
       /\ UNCHANGED <<busy, active, temp, expiring, allFailures, resume, rules, clock, spent>>

-----------------------------------------------------------------------------
(* Consent *)

\* A session with at least one standard permission; elevated control is left out when
\* the service is not there.
Enter(i, P) ==
    IF P \cap Standard = {} THEN Goto(i, "leave") /\ UNCHANGED active
    ELSE /\ active' = {i}
         /\ \E Q \in {P, P \ {Elevated}} :
              task' = [task EXCEPT ![i].pc = "session", ![i].wants = {}, ![i].answer = NoAnswer,
                                     ![i].granted = P, ![i].max = Q, ![i].perms = Q]

Fresh(v) == resume[v].valid /\ now - resume[v].at < ResumeWindow

\* Mutant: a lost session comes back with all it had.
EntitlementAll(i) ==
    IF task[i].auth = "permanent" /\ unattended
    THEN IF unattendedElevated THEN task[i].wants ELSE task[i].wants \ {Elevated}
    ELSE task[i].wants \cap resume[task[i].viewer].perms

\* What needs no question: unattended access, or the permissions of a lost session,
\* without elevated control.
Entitlement(i) ==
    IF task[i].auth = "permanent" /\ unattended
    THEN IF unattendedElevated THEN task[i].wants ELSE task[i].wants \ {Elevated}
    ELSE (task[i].wants \cap resume[task[i].viewer].perms) \ {Elevated}

Decide(i) ==
    /\ i \in At("decide")
    /\ IF (task[i].auth = "permanent" /\ unattended) \/ Fresh(task[i].viewer)
       THEN Enter(i, Entitlement(i))
       ELSE Goto(i, "prompt") /\ UNCHANGED active
    /\ UNCHANGED <<busy, temp, expiring, limits, resume, rules, clock, history>>

\* respond_incoming: the owner answers the request that is shown, once.
Respond(i, P) ==
    /\ i \in At("prompt") /\ ~task[i].answer.given
    /\ task' = [task EXCEPT ![i].answer = [given |-> TRUE, to |-> P]]
    /\ UNCHANGED <<busy, active, temp, expiring, limits, resume, rules, clock, history>>

\* The task takes the answer, or the time for one is over.
PromptEnds(i) ==
    /\ i \in At("prompt")
    /\ Enter(i, IF task[i].answer.given THEN task[i].answer.to \cap task[i].wants ELSE {})
    /\ UNCHANGED <<busy, temp, expiring, limits, resume, rules, clock, history>>

-----------------------------------------------------------------------------
(* The session *)

\* SetPermissions of the owner: never more than at the start.
SetPermissions(P) ==
    /\ \E i \in active :
         \E Q \in {P \cap task[i].max, (P \cap task[i].max) \ ({Elevated} \ task[i].perms)} :
            task' = [task EXCEPT ![i].perms = Q]
    /\ UNCHANGED <<busy, active, temp, expiring, limits, resume, rules, clock, history>>

\* The service ended its grant: elevated control is gone for good.
ElevatedLost ==
    /\ \E i \in active : /\ Elevated \in task[i].perms
                         /\ task' = [task EXCEPT ![i].perms = @ \ {Elevated}, ![i].max = @ \ {Elevated}]
    /\ UNCHANGED <<busy, active, temp, expiring, limits, resume, rules, clock, history>>

\* host::run returns.  A viewer that was lost may come back with what it was given at
\* the start; one that left or was thrown out may not.
Over(i, lost) ==
    LET v == task[i].viewer
        rotates == ~lost /\ RotateAfter
    IN /\ i \in At("session") /\ active' = {}
       /\ resume' = [resume EXCEPT ![v] = IF lost THEN [valid |-> TRUE, perms |-> task[i].granted, at |-> now]
                                                  ELSE NoGrant]
       /\ spent' = IF rotates /\ task[i].auth = "temporary" THEN spent \cup {task[i].offered} ELSE spent
       /\ task' = [task EXCEPT ![i] = [Gone EXCEPT !.pc = IF rotates THEN "rotate" ELSE "leave"]]
       /\ UNCHANGED <<temp, expiring, limits, rules, clock, wrong>>

\* Mutant: the host is free as soon as the session is over.
SessionEndsFree(i, lost) == Over(i, lost) /\ busy' = FALSE

SessionEnds(i, lost) == Over(i, lost) /\ UNCHANGED busy

\* After EndSession went out: rotate_after_session, with the host still busy.
Rotate(i) == /\ i \in At("rotate") /\ temp' = temp + 1
             /\ Goto(i, "leave")
             /\ UNCHANGED <<busy, active, expiring, limits, resume, rules, clock, history>>

\* The end of handle_incoming: the guard is dropped.
Leave(i) == /\ i \in At("leave") /\ Release(i)
            /\ UNCHANGED <<active, temp, expiring, limits, resume, rules, clock, history>>

-----------------------------------------------------------------------------
(* The owner, and time *)

Changing == changes < MaxChanges /\ changes' = changes + 1 /\ UNCHANGED <<now, announced>>

\* regenerate_password.
Regenerate == /\ Changing /\ temp' = temp + 1
              /\ UNCHANGED <<access, expiring, limits, resume, rules, history>>

\* password_expiry looks whether the host is busy, and rotates after that.
FindExpired == /\ Changing /\ ~busy /\ ~expiring /\ expiring' = TRUE
               /\ UNCHANGED <<access, temp, limits, resume, rules, history>>

Expire == /\ expiring /\ expiring' = FALSE /\ temp' = temp + 1
          /\ UNCHANGED <<access, limits, resume, rules, clock, history>>

\* set_unattended with the ids it lets in (all of them with any_device), and
\* revoke_authorization, which removes some.
SetUnattended(on, ids) ==
    /\ Changing /\ unattended' = on /\ authorized' = ids
    /\ UNCHANGED <<access, temp, expiring, limits, resume, unattendedElevated, incoming, history>>

SetUnattendedElevated(on) ==
    /\ Changing /\ unattendedElevated' = on
    /\ UNCHANGED <<access, temp, expiring, limits, resume, unattended, authorized, incoming, history>>

SetIncoming(on) ==
    /\ Changing /\ incoming' = on
    /\ UNCHANGED <<access, temp, expiring, limits, resume, unattended, authorized, unattendedElevated,
                   history>>

Tick == /\ now < MaxTime /\ now' = now + 1
        /\ UNCHANGED <<access, temp, expiring, limits, resume, rules, announced, changes, history>>

Owner == \/ Regenerate
         \/ \E P \in Answers : SetPermissions(P)
         \/ \E on \in BOOLEAN : SetIncoming(on) \/ SetUnattendedElevated(on)
         \/ \E on \in BOOLEAN, ids \in SUBSET Viewers : SetUnattended(on, ids)

Next == \/ \E i \in Tasks, v \in Viewers, P \in Requests :
              \/ \E k \in {Wrong, temp, temp - 1} : Incoming(i, v, "temporary", P, k)
              \/ \E k \in {Wrong, Permanent} : Incoming(i, v, "permanent", P, k)
        \/ \E i \in Tasks : \/ LinkUp(i) \/ NoLink(i) \/ LookUp(i) \/ HandshakeFails(i)
                            \/ BadPassword(i) \/ GoodPassword(i)
                            \/ Decide(i) \/ PromptEnds(i)
                            \/ Rotate(i) \/ Leave(i)
        \/ \E i \in Tasks, P \in Answers : Respond(i, P)
        \/ \E i \in Tasks, lost \in BOOLEAN : SessionEnds(i, lost)
        \/ ElevatedLost \/ FindExpired \/ Expire \/ Owner \/ Tick

Spec == Init /\ [][Next]_vars

-----------------------------------------------------------------------------
(* Properties *)

Places == {"gone", "link", "hello", "confirm", "decide", "prompt", "session", "rotate", "leave"}

TypeOK ==
    /\ busy \in BOOLEAN /\ active \subseteq Tasks
    /\ task \in [Tasks -> [pc : Places, viewer : Viewers \cup {Nobody}, auth : {"temporary", "permanent"},
                           wants : Permissions, knows : Nat, offered : Nat,
                           answer : [given : BOOLEAN, to : Permissions],
                           granted : Permissions, max : Permissions, perms : Permissions]]
    /\ temp \in Nat /\ expiring \in BOOLEAN
    /\ failures \in [Viewers -> Seq(Nat)] /\ until \in [Viewers -> Nat] /\ allFailures \in Seq(Nat)
    /\ resume \in [Viewers -> [valid : BOOLEAN, perms : Permissions, at : Nat]]
    /\ unattended \in BOOLEAN /\ authorized \subseteq Viewers
    /\ unattendedElevated \in BOOLEAN /\ incoming \in BOOLEAN
    /\ now \in Nat /\ announced \in Nat /\ changes \in Nat
    /\ wrong \in Seq([by : Viewers \cup {Nobody}, at : Nat, pw : Nat]) /\ spent \subseteq Nat

\* The host is busy exactly while one task has it, and commands of the owner go to that
\* task's session: no way out leaves the host busy for ever, and none frees it twice.
BusyIffServed ==
    /\ busy <=> \E i \in Tasks : i \notin At("gone")
    /\ \A i, j \in Tasks : i \notin At("gone") /\ j \notin At("gone") => i = j
    /\ active = At("session")

Consistent == TypeOK /\ BusyIffServed

\* Each of these guesses is one of at most n in the window that ends with it.
Before(k, S) == {j \in S : j <= k /\ wrong[k].at - wrong[j].at < Window}
Paced(S, n) == \A k \in S : Cardinality(Before(k, S)) <= n

GuessesOf(v) == {k \in DOMAIN wrong : wrong[k].by = v}
GuessesAt(p) == {k \in DOMAIN wrong : wrong[k].pw = p}

\* The guesses of one viewer since it last knew the password: no more than allowed
\* within the window, whatever the lockout and the clock do.
GuessesArePaced == \A v \in Viewers : Paced(GuessesOf(v), MaxFailures)

\* A temporary password dies in time: it is not guessed at more often within the window
\* than allowed for all viewers together, whoever guesses, and once a session it opened
\* was closed it opens no other.
PasswordIsBurnt ==
    \A p \in {wrong[k].pw : k \in DOMAIN wrong} \ {Permanent} : Paced(GuessesAt(p), MaxGlobal)
UsedPasswordIsDead ==
    \A i \in At("confirm") \cup At("decide") \cup At("prompt") \cup At("session") :
        task[i].auth = "temporary" => task[i].offered \notin spent
PasswordDies == PasswordIsBurnt /\ UsedPasswordIsDead

\* What the policy sees of the host: the one task with a session, the one with an answer.
Served == CHOOSE i \in Tasks : i \in active
Asked == {i \in At("prompt") : task[i].answer.given}
Serving == IF active = {} THEN Nobody ELSE task[Served].viewer
Granted == IF active = {} THEN {} ELSE task[Served].granted
Given == IF active = {} THEN {} ELSE task[Served].max
Holds == IF active = {} THEN {} ELSE task[Served].perms
Consent == IF Asked = {} THEN [viewer |-> Nobody, to |-> {}]
           ELSE LET i == CHOOSE j \in Asked : TRUE
                IN [viewer |-> task[i].viewer, to |-> task[i].answer.to]
Returns == [v \in Viewers |-> IF Fresh(v) THEN resume[v].perms ELSE {}]
Open == IF ~unattended THEN {}
        ELSE IF unattendedElevated THEN Standard \cup {Elevated} ELSE Standard

\* The host keeps to the policy.
Policy == INSTANCE AccessPolicy WITH
    serving <- Serving, granted <- Granted, given <- Given, holds <- Holds,
    consent <- Consent, returns <- Returns, open <- Open
ImplementsPolicy == Policy!Spec
=============================================================================
