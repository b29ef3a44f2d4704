----------------------------- MODULE Signaling -----------------------------
(***************************************************************************)
(* The task that keeps a device connected to the server: it registers when *)
(* it has no identity, authenticates, serves the connection, and after     *)
(* each failure sleeps and tries again.  Of the server: the identities it  *)
(* knows and its copy of the switch "incoming connections".                *)
(*                                                                         *)
(* The queue of outgoing frames belongs to the task and outlives the       *)
(* connections.  Time is not modelled: a wait may end by a reply or not.   *)
(***************************************************************************)
EXTENDS Naturals, Sequences

CONSTANTS
    OutRoom,      \* frames the queue holds (16 in the code)
    LastStep,     \* last index of BACKOFF_STEPS (5)
    MaxMishaps,   \* bound: times the server loses its database or wrongs an identity
    MaxIds,       \* bound: identities it issues that arrive
    MaxEras,      \* bound: connections that are numbered
    MaxChanges    \* bound: changes of the switch on their way

ASSUME BoundsAssumption ==
    /\ OutRoom \in Nat /\ LastStep \in Nat
    /\ MaxMishaps \in Nat /\ MaxIds \in Nat /\ MaxEras \in Nat /\ MaxChanges \in Nat \ {0}

VARIABLES
    phase,        \* connect, register, auth, serve or sleep
    creds,        \* the stored identity, or 0
    resetUsed,    \* reset_used: the identity was thrown away since the last success
    step,         \* index of the next sleep in BACKOFF_STEPS
    failures,     \* failed attempts in a row
    shown,        \* the last ServerState that was emitted
    out,          \* queued frames, each with the connection it was queued in, or 0
    era,          \* number of connections so far
    incoming,     \* the switch of the user
    unseen,       \* the task has not read its last change
    wire,         \* values of the switch that were sent and not yet received
    known,        \* identities the server knows
    issued,       \* how many it issued
    mishaps,      \* how often it lost them, or refused one that it knows
    fresh,        \* history: identities it issued since the device was last online
    accepts       \* the server's copy of the switch

task == <<phase, creds, resetUsed, step, failures, shown, era>>
switch == <<incoming, unseen, wire, accepts>>
service == <<known, issued, mishaps, fresh>>
vars == <<task, out, switch, service>>

Init == /\ phase = "connect" /\ creds = 0 /\ resetUsed = FALSE /\ step = 0 /\ failures = 0
        /\ shown = "connecting" /\ out = <<>> /\ era = 0
        /\ incoming \in BOOLEAN /\ unseen = FALSE /\ wire = <<>>
        /\ known = {} /\ issued = 0 /\ mishaps = 0 /\ fresh = 0 /\ accepts = FALSE

-----------------------------------------------------------------------------
(* connect and authenticate *)

\* Mutant: the identification carries a default instead of the switch.
AuthFlagDefault == TRUE
AuthFlag == incoming

Identify == phase' = "auth" /\ wire' = <<AuthFlag>>

Connect == /\ phase = "connect"
           /\ IF creds = 0 THEN phase' = "register" /\ UNCHANGED wire ELSE Identify
           /\ UNCHANGED <<creds, resetUsed, step, failures, shown, era, out,
                          incoming, unseen, accepts, service>>

\* What is emitted after a failure; a single one while it was online is not shown.
Shown(why) == IF why = "rejected" THEN "rejected"
              ELSE IF era = 0 \/ failures >= 1 THEN "unreachable" ELSE shown

\* Everything queued so far is dropped, then the task sleeps.
DropQueued == out' = <<>>

Fails(why) ==
    /\ phase' = "sleep" /\ DropQueued /\ shown' = Shown(why)
    /\ step' = IF step <= LastStep THEN step + 1 ELSE step
    /\ failures' = IF failures < 2 THEN failures + 1 ELSE failures
    /\ UNCHANGED <<resetUsed, era>>

ConnectFails == /\ phase = "connect" /\ Fails("failed")
                /\ UNCHANGED <<creds, switch, service>>

Registered == /\ phase = "register" /\ issued < MaxIds
              /\ known' = known \cup {issued + 1} /\ issued' = issued + 1 /\ fresh' = fresh + 1
              /\ creds' = issued + 1 /\ Identify
              /\ UNCHANGED <<out, resetUsed, step, failures, shown, era, mishaps,
                             incoming, unseen, accepts>>

\* Refused, or no reply; the identity that a lost reply named is nobody's.
NotRegistered == /\ phase = "register" /\ (\E why \in {"rejected", "failed"} : Fails(why))
                 /\ UNCHANGED <<creds, switch, service>>

AuthOk == /\ phase = "auth" /\ creds \in known
          /\ phase' = "serve" /\ resetUsed' = FALSE /\ failures' = 0 /\ shown' = "online"
          /\ era' = IF era < MaxEras THEN era + 1 ELSE era
          /\ accepts' = Head(wire) /\ wire' = <<>>
          /\ fresh' = 0
          /\ UNCHANGED <<creds, step, out, incoming, unseen, known, issued, mishaps>>

Refused == {"identity", "rejected", "failed"}

\* Mutants: the identity is thrown away at every refusal, or never.
ClearsAgain(why) == why = "identity"
ClearsNever(why) == FALSE
Clears(why) == why = "identity" /\ ~resetUsed

\* A refusal, or no answer.  An identity that was refused is thrown away once, and the task
\* registers again at once.
AuthFails(why) ==
    /\ phase = "auth" /\ wire' = <<>>
    /\ IF Clears(why)
       THEN /\ creds' = 0 /\ resetUsed' = TRUE /\ phase' = "connect" /\ shown' = "connecting"
            /\ UNCHANGED <<out, step, failures, era>>
       ELSE Fails(why) /\ UNCHANGED creds
    /\ UNCHANGED <<incoming, unseen, accepts, known, issued, fresh>>

\* The server says "invalid credentials" of an identity that it does not know; and also of one
\* that it knows, when its database fails or what came with the identity is not well-formed.
UnknownRefused == AuthFails("identity") /\ creds \notin known /\ UNCHANGED mishaps
KnownRefused == /\ AuthFails("identity") /\ creds \in known
                /\ mishaps < MaxMishaps /\ mishaps' = mishaps + 1
NotAuthenticated == \E why \in Refused \ {"identity"} : AuthFails(why) /\ UNCHANGED mishaps

Wake == /\ phase = "sleep" /\ phase' = "connect" /\ shown' = "reconnecting"
        /\ UNCHANGED <<creds, resetUsed, step, failures, era, out, switch, service>>

-----------------------------------------------------------------------------
(* serve *)

Transmit == /\ phase = "serve" /\ out # <<>> /\ out' = Tail(out)
            /\ UNCHANGED <<task, switch, service>>

\* incoming_enabled.changed(): the task sends what the switch says now.
SendSwitch == /\ phase = "serve" /\ unseen /\ Len(wire) < MaxChanges
              /\ unseen' = FALSE /\ wire' = Append(wire, incoming)
              /\ UNCHANGED <<task, out, incoming, accepts, service>>

\* step_after_session: back to the start after a connection that lasted.
StepAfterSession(lasted) == IF lasted THEN 0 ELSE step

\* Closed, silent for a minute, or a send failed.
ServeEnds == /\ phase = "serve" /\ phase' = "sleep" /\ shown' = "reconnecting"
             /\ \E lasted \in BOOLEAN : step' = StepAfterSession(lasted)
             /\ DropQueued /\ wire' = <<>>
             /\ UNCHANGED <<creds, resetUsed, failures, era, incoming, unseen, accepts, service>>

-----------------------------------------------------------------------------
(* The other tasks, the user and the server *)

Queue == /\ Len(out) < OutRoom
         /\ out' = Append(out, IF phase = "serve" THEN era ELSE 0)
         /\ UNCHANGED <<task, switch, service>>

SetIncoming == /\ incoming' = ~incoming /\ unseen' = TRUE
               /\ UNCHANGED <<task, out, wire, accepts, service>>

Receive == /\ phase = "serve" /\ wire # <<>>
           /\ accepts' = Head(wire) /\ wire' = Tail(wire)
           /\ UNCHANGED <<task, out, incoming, unseen, service>>

ResetDatabase == /\ mishaps < MaxMishaps /\ mishaps' = mishaps + 1 /\ known' = {}
                 /\ UNCHANGED <<task, out, switch, issued, fresh>>

Next == \/ Connect \/ ConnectFails \/ Registered \/ NotRegistered \/ AuthOk \/ Wake
        \/ UnknownRefused \/ KnownRefused \/ NotAuthenticated
        \/ Transmit \/ SendSwitch \/ ServeEnds \/ Queue \/ SetIncoming \/ Receive \/ ResetDatabase

Spec == Init /\ [][Next]_vars

\* The task runs, and a service that can be reached now and again answers in the end.
Fairness == /\ WF_vars(Wake) /\ SF_vars(Connect) /\ SF_vars(Registered)
            /\ SF_vars(AuthOk) /\ SF_vars(UnknownRefused)

FairSpec == Spec /\ Fairness

-----------------------------------------------------------------------------
(* Properties *)

TypeOK ==
    /\ phase \in {"connect", "register", "auth", "serve", "sleep"}
    /\ creds \in 0..MaxIds /\ resetUsed \in BOOLEAN
    /\ step \in 0..(LastStep + 1) /\ failures \in 0..2
    /\ shown \in {"connecting", "reconnecting", "online", "rejected", "unreachable"}
    /\ out \in Seq(0..MaxEras) /\ Len(out) <= OutRoom /\ era \in 0..MaxEras
    /\ incoming \in BOOLEAN /\ unseen \in BOOLEAN /\ accepts \in BOOLEAN
    /\ wire \in Seq(BOOLEAN) /\ Len(wire) <= MaxChanges
    /\ known \subseteq 1..MaxIds /\ issued \in 0..MaxIds /\ mishaps \in 0..MaxMishaps
    /\ fresh \in 0..MaxIds

\* The server believes what the user chose, as soon as nothing is on its way: a change
\* made while the device identifies itself, or between two connections, is not lost.
IncomingAgrees == phase = "serve" /\ wire = <<>> /\ ~unseen => accepts = incoming

\* The user is told "online" exactly while the connection is served.
SwitchAgrees == TypeOK /\ IncomingAgrees /\ (shown = "online" <=> phase = "serve")

\* What the comment says: nothing that was queued while offline goes out at all.
NothingStaleGoesOut == phase = "serve" => \A i \in 1..Len(out) : out[i] = era

\* However often the server refuses a device, wrongly or not, it registers at most once between
\* two connections, and twice before its first: it neither floods the server with registrations,
\* which follow a refusal without a pause, nor leaves one identity after the other behind.
RegistersSparingly == fresh <= IF era = 0 THEN 2 ELSE 1

\* What the comment says: an identity is thrown away when "the service no longer knows this
\* device".
IdentityIsKept == [][creds # 0 /\ creds' = 0 => creds \notin known]_vars

\* A device comes back online, unless it was refused a second time before it got there:
\* then it keeps an identity that nobody knows.
Stranded == resetUsed /\ creds # 0 /\ creds \notin known
ComesBack == []<>(phase = "serve" \/ Stranded)
=============================================================================
