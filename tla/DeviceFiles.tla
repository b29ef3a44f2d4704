---------------------------- MODULE DeviceFiles ----------------------------
(***************************************************************************)
(* What a device keeps over a restart: the settings, the book of trusted   *)
(* devices, the unattended password and the identity, each a file; the     *)
(* copies in memory, in the engine and in the page; the entry that starts  *)
(* the program with Windows; and the commands of the page and the tray     *)
(* that change them.                                                       *)
(*                                                                         *)
(* Commands run one at a time on the main thread, each as the list of      *)
(* steps "todo".  A step on a file may fail, and the process may die       *)
(* between any two steps; a loss of power is not modelled.                 *)
(***************************************************************************)
EXTENDS Naturals, Sequences

CONSTANTS
    Devices,        \* devices that may be trusted
    MaxCommands,    \* bound: commands of the user
    MaxTrouble      \* bound: steps that fail and deaths of the process

Files == {"settings", "book", "secret", "identity"}
Torn == <<"torn", "torn">>  \* a file whose writing has begun

\* The switches of Settings that something outside the page follows, as Settings::default has
\* them; startup is start_with_windows.
NoSwitches == [incoming |-> TRUE, unattended |-> FALSE, startup |-> FALSE]

\* What stands for an absent, unreadable or corrupt file.
Default(f) == CASE f = "settings" -> NoSwitches
                [] f = "book" -> {}
                [] OTHER -> "none"

VARIABLES
    up,             \* the process runs
    todo,           \* steps left of the running command
    mem,            \* per file: the value in memory (of the secret: none is kept)
    file, tmp,      \* per file: its content and that of its .tmp, <<>> when absent
    autostart,      \* Windows starts the program
    engine,         \* what the engine goes by: [incoming, unattended, authorized]
    page,           \* the settings as the page has them
    saves,          \* settings_save calls of the page that have not been run
    told,           \* settings-changed was emitted and the page has not asked yet
    kept,           \* history: per file, the value it must hold, <<>> when unknown
    gone,           \* history: devices whose revocation was answered
    behind,         \* history: what the page was told last is that its save failed
    commands, trouble

memory == <<todo, mem, engine, page, saves, told>>
history == <<kept, gone, behind>>
bounds == <<commands, trouble>>
vars == <<up, memory, file, tmp, autostart, history, bounds>>

None == <<>>
Value(f) == IF Len(file[f]) = 1 THEN file[f][1] ELSE Default(f)

-----------------------------------------------------------------------------
(* Start and death *)

Off == [incoming |-> TRUE, unattended |-> FALSE, authorized |-> {}]
Apply(m, secret) == [incoming |-> m.settings.incoming,
                     unattended |-> m.settings.unattended /\ secret # "none",
                     authorized |-> m.book]


Init == /\ up = FALSE /\ todo = <<>> /\ saves = <<>> /\ told = FALSE
        /\ mem = [f \in Files |-> Default(f)] /\ page = NoSwitches /\ engine = Off
        /\ file = [f \in Files |-> None] /\ tmp = [f \in Files |-> None]
        /\ kept = [f \in Files |-> <<Default(f)>>] /\ gone = {} /\ behind = FALSE
        /\ autostart = FALSE
        /\ commands = 0 /\ trouble = 0

\* lib.rs setup, the engine's start and the page's first get_bootstrap; what cannot
\* be parsed goes to .bak.
Start ==
    /\ ~up /\ up' = TRUE
    /\ mem' = [f \in Files |-> Value(f)]
    /\ engine' = Apply(mem', Value("secret")) /\ page' = mem'.settings
    /\ file' = [f \in Files |-> IF f \in {"settings", "book"} /\ file[f] = Torn
                                THEN None ELSE file[f]]
    /\ behind' = FALSE
    /\ UNCHANGED <<todo, saves, told, tmp, autostart, kept, gone, bounds>>

Die == /\ up /\ trouble < MaxTrouble /\ trouble' = trouble + 1
       /\ up' = FALSE /\ todo' = <<>> /\ saves' = <<>> /\ told' = FALSE
       /\ UNCHANGED <<mem, engine, page, file, tmp, autostart, history, commands>>

-----------------------------------------------------------------------------
(* Commands *)

Write(f, v) == <<[do |-> "open", f |-> f, v |-> v], [do |-> "write", f |-> f, v |-> v],
                 [do |-> "rename", f |-> f, v |-> v]>>
Do(x) == [do |-> x]
Revoked(ds) == [do |-> "revoked", devs |-> ds]
Idle == up /\ todo = <<>>
Command == Idle /\ commands < MaxCommands /\ commands' = commands + 1

\* The page sends its whole copy with one switch changed, or those of the first run; what
\* else it sends before the answer begins with the same copy.
FirstRun == [incoming : BOOLEAN, unattended : {FALSE}, startup : BOOLEAN]
Patched == {[page EXCEPT ![k] = b] : k \in DOMAIN page, b \in BOOLEAN}
PageSaves ==
    /\ up /\ commands < MaxCommands /\ commands' = commands + 1
    /\ \E s \in Patched \cup FirstRun : saves' = Append(saves, s)
    /\ UNCHANGED <<up, todo, mem, engine, page, told, file, tmp, autostart, history, trouble>>

\* What follows a save: the entry of Windows is touched only when its switch has changed.
Effects(changed) == IF changed
                    THEN <<Do("incoming"), Do("apply"), Do("autostart"), Do("answer")>>
                    ELSE <<Do("incoming"), Do("apply"), Do("answer")>>

SettingsSave ==
    /\ Idle /\ saves # <<>>
    /\ mem' = [mem EXCEPT !.settings = Head(saves)] /\ saves' = Tail(saves)
    /\ todo' = Write("settings", mem'.settings)
                 \o Effects(mem'.settings.startup # mem.settings.startup)
    /\ UNCHANGED <<up, engine, page, told, file, tmp, autostart, history, bounds>>

\* Mutant: the tray does not tell the page.
TrayTellsNobody(b) == b
TrayTells(b) == TRUE

\* tray.rs "incoming".
TrayToggle ==
    /\ Command
    /\ mem' = [mem EXCEPT !.settings.incoming = ~@]
    /\ todo' = Write("settings", mem'.settings) \o <<Do("incoming")>>
    /\ told' = TrayTells(told)
    /\ UNCHANGED <<up, engine, page, saves, file, tmp, autostart, history, trouble>>

\* settings-changed: the page asks for everything again (get_bootstrap).
PageAsks ==
    /\ Idle /\ told /\ told' = FALSE /\ page' = mem.settings /\ behind' = FALSE
    /\ UNCHANGED <<up, todo, mem, engine, saves, file, tmp, autostart, kept, gone, bounds>>

\* book_trust, and respond_incoming with trust.
Trust ==
    /\ Command
    /\ \E d \in Devices : mem' = [mem EXCEPT !.book = @ \cup {d}] /\ gone' = gone \ {d}
    /\ todo' = Write("book", mem'.book) \o <<Do("apply")>>
    /\ UNCHANGED <<up, engine, page, saves, told, file, tmp, autostart, kept, behind, trouble>>

\* book_revoke and book_revoke_all.
Revoke ==
    /\ Command
    /\ \E ds \in {{d} : d \in Devices} \cup {Devices} :
         /\ mem' = [mem EXCEPT !.book = @ \ ds]
         /\ todo' = Write("book", mem'.book) \o <<Do("apply"), Revoked(ds)>>
    /\ UNCHANGED <<up, engine, page, saves, told, file, tmp, autostart, history, trouble>>

\* connect, book_upsert and the like change the book in ways left out here and save it.
Touch ==
    /\ Command /\ todo' = Write("book", mem.book)
    /\ UNCHANGED <<up, mem, engine, page, saves, told, file, tmp, autostart, history, trouble>>

\* unattended_set_password and unattended_clear_password.
SetPassword ==
    /\ Command /\ todo' = Write("secret", "set") \o <<Do("apply")>>
    /\ UNCHANGED <<up, mem, engine, page, saves, told, file, tmp, autostart, history, trouble>>

ClearPassword ==
    /\ Command /\ todo' = <<[do |-> "remove", f |-> "secret"], Do("apply")>>
    /\ UNCHANGED <<up, mem, engine, page, saves, told, file, tmp, autostart, history, trouble>>

-----------------------------------------------------------------------------
(* Steps *)

Next1 == Head(todo)
OnFile == /\ up /\ todo # <<>> /\ todo' = Tail(todo)
          /\ UNCHANGED <<up, mem, engine, page, saves, told, autostart, gone, behind, bounds>>

\* Mutant: the file is written in place.
OpenInPlace(f) == file' = [file EXCEPT ![f] = Torn] /\ UNCHANGED tmp
Open(f) == tmp' = [tmp EXCEPT ![f] = Torn] /\ UNCHANGED file

StepOpen == OnFile /\ Next1.do = "open" /\ Open(Next1.f) /\ UNCHANGED kept

StepWrite == /\ OnFile /\ Next1.do = "write"
             /\ tmp' = [tmp EXCEPT ![Next1.f] = <<Next1.v>>] /\ UNCHANGED <<file, kept>>

StepRename == /\ OnFile /\ Next1.do = "rename"
              /\ file' = [file EXCEPT ![Next1.f] = tmp[Next1.f]]
              /\ tmp' = [tmp EXCEPT ![Next1.f] = None]
              /\ kept' = [kept EXCEPT ![Next1.f] = <<Next1.v>>]

StepRemove == /\ OnFile /\ Next1.do = "remove"
              /\ file' = [file EXCEPT ![Next1.f] = None] /\ UNCHANGED tmp
              /\ kept' = [kept EXCEPT ![Next1.f] = <<Default(Next1.f)>>]

\* Steps of the file that x belongs to, from x on.
Left(x) == CASE x.do = "open" -> 3 [] x.do = "write" -> 2 [] OTHER -> 1

\* A failed save of the settings or the book is logged and the command goes on with what
\* follows it; one of the secret ends the command.  A failed removal is not looked at.
StepFails ==
    LET x == Next1
    IN /\ up /\ todo # <<>> /\ x.do \in {"open", "write", "rename", "remove"}
       /\ trouble < MaxTrouble /\ trouble' = trouble + 1
       /\ IF x.f = "secret" /\ x.do # "remove"
          THEN todo' = <<>> /\ UNCHANGED kept
          ELSE /\ todo' = SubSeq(todo, Left(x) + 1, Len(todo))
               /\ kept' = [kept EXCEPT ![x.f] = None]
       /\ UNCHANGED <<up, mem, engine, page, saves, told, file, tmp, autostart, gone, behind, commands>>

\* set_incoming_enabled and apply_unattended, the entry of Windows; then what the page and
\* the user learn.  A revocation counts as answered here only if the book was saved.
StepEngine ==
    /\ up /\ todo # <<>> /\ Next1.do \in {"incoming", "apply", "autostart", "answer", "revoked"}
    /\ todo' = Tail(todo)
    /\ engine' = CASE Next1.do = "incoming" -> [engine EXCEPT !.incoming = mem.settings.incoming]
                   [] Next1.do = "apply" -> [Apply(mem, Value("secret"))
                                               EXCEPT !.incoming = engine.incoming]
                   [] OTHER -> engine
    /\ autostart' = IF Next1.do = "autostart" THEN mem.settings.startup ELSE autostart
    /\ page' = IF Next1.do = "answer" THEN mem.settings ELSE page
    /\ behind' = (behind /\ Next1.do # "answer")
    /\ gone' = IF Next1.do = "revoked" /\ kept["book"] # None
               THEN gone \cup Next1.devs ELSE gone
    /\ UNCHANGED <<up, mem, saves, told, file, tmp, kept, bounds>>

\* Windows refuses the entry: the command ends with an error, and all that it did before stays
\* done; the page, which waits for the settings, gets none and keeps its own.
AutostartFails ==
    /\ up /\ todo # <<>> /\ Next1.do = "autostart"
    /\ trouble < MaxTrouble /\ trouble' = trouble + 1
    /\ todo' = <<>> /\ behind' = TRUE
    /\ UNCHANGED <<up, mem, engine, page, saves, told, file, tmp, autostart, kept, gone, commands>>

-----------------------------------------------------------------------------
(* DpapiCredentialStore, used by the signaling task while commands run *)

\* save: the file, if that works, and the cache in any case.
IdentitySave ==
    /\ up /\ commands < MaxCommands /\ commands' = commands + 1
    /\ mem' = [mem EXCEPT !.identity = "set"]
    /\ \/ /\ file' = [file EXCEPT !.identity = <<"set">>]
          /\ kept' = [kept EXCEPT !.identity = <<"set">>] /\ UNCHANGED trouble
       \/ /\ trouble < MaxTrouble /\ trouble' = trouble + 1
          /\ kept' = [kept EXCEPT !.identity = None] /\ UNCHANGED file
    /\ UNCHANGED <<up, todo, engine, page, saves, told, tmp, autostart, gone, behind>>

\* clear; load reads the file again when nothing is cached.
IdentityClear ==
    /\ up /\ mem.identity # "none" /\ commands < MaxCommands /\ commands' = commands + 1
    /\ \/ /\ file' = [file EXCEPT !.identity = None] /\ mem' = [mem EXCEPT !.identity = "none"]
          /\ kept' = [kept EXCEPT !.identity = <<"none">>] /\ UNCHANGED trouble
       \/ /\ trouble < MaxTrouble /\ trouble' = trouble + 1 /\ UNCHANGED file
          /\ mem' = [mem EXCEPT !.identity = Value("identity")]
          /\ kept' = [kept EXCEPT !.identity = None]
    /\ UNCHANGED <<up, todo, engine, page, saves, told, tmp, autostart, gone, behind>>

Next == \/ Start \/ Die \/ PageSaves \/ SettingsSave \/ TrayToggle \/ PageAsks
        \/ Trust \/ Revoke \/ Touch \/ SetPassword \/ ClearPassword
        \/ StepOpen \/ StepWrite \/ StepRename \/ StepRemove \/ StepFails \/ StepEngine
        \/ AutostartFails
        \/ IdentitySave \/ IdentityClear

Spec == Init /\ [][Next]_vars

-----------------------------------------------------------------------------
(* Properties *)

\* Between two commands the engine goes by what is in memory and by the password on
\* the disk, also after a restart and after commands that failed half way; the page shows the
\* settings or is about to ask, unless the last it heard is that its save failed; and a device
\* the user revoked is not authorized until it is trusted again, wherever the process died in
\* between.
RevokedStaysOut == up => gone \cap engine.authorized = {}
EverybodyFollows ==
    /\ RevokedStaysOut
    /\ Idle => /\ engine = Apply(mem, Value("secret"))
               /\ told \/ saves # <<>> \/ behind \/ page = mem.settings

\* What one expects: with nothing under way the page shows the settings that are in force.
PageShowsSettings == Idle /\ ~told /\ saves = <<>> => page = mem.settings

\* What one expects: when the page has heard that all it asked for is done, Windows starts the
\* program if the switch says so.
StartsWithWindows == Idle /\ saves = <<>> /\ ~behind => autostart = mem.settings.startup

\* store.rs write_atomic: a process that dies while it saves loses nothing that was
\* saved before; between two commands memory and file agree unless a save failed.
SavedIsKept ==
    /\ \A f \in Files : kept[f] # None => Value(f) = kept[f][1]
    /\ Idle => \A f \in Files \ {"secret"} : kept[f] # None => mem[f] = kept[f][1]
=============================================================================
