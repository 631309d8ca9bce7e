------------------------------ MODULE CommandLine ------------------------------
(***************************************************************************)
(* The command line front end (cli/main, runner, shell, context, options,  *)
(* errors) with the guardrails of core/safety: how one command, alone or   *)
(* as a line of the shell, gets its options, its session and the           *)
(* operator's consent, and what is left when the tool ends.                *)
(*                                                                         *)
(* Requests are abstracted to their outcome: RcbSession, ControlSequence,  *)
(* WriteRestoreLog and SettingGroupEdit say what they do.  `write` stands  *)
(* for every command that asks confirm_write, `operate` for those that ask *)
(* confirm_dangerous.  Exit codes go by name: ok 0, failed 1, usage 2,     *)
(* connect 3, refused 4, interrupted 130.                                  *)
(***************************************************************************)
EXTENDS FiniteSets

CONSTANTS
    Devices, NoDevice,
    Cats,          \* originator categories
    NormalCats,    \* those that standard mode allows (orCat 1 to 3)
    NoCat,
    Faults

FaultKinds ==
    { "loss",                      \* an association drops
      "interrupt",                 \* Ctrl-C or SIGTERM while a command runs or its result is shown
      "interrupt-in-connect",      \* the same between the device's acceptance and the client object that holds it
      "interrupt-in-exit",         \* the same while a one-shot command is being undone
      "interrupt-in-switch",       \* the same while `connect` closes the session of another device
      "interrupt-between-lines",   \* the same while a shell that reads a script waits for its next line
      "interrupt-in-shutdown" }    \* the same while the shell is undoing on its way out

ASSUME CommandLineAssumption ==
    /\ NormalCats \subseteq Cats /\ NoCat \notin Cats /\ NoDevice \notin Devices
    /\ Faults \subseteq FaultKinds

VARIABLES
    shell, tty, safety,   \* the run: a shell? a terminal on stdin? the inventory's safety profile
    options, line,        \* session-wide options, and those of the running line
    session,              \* the session the tool holds
    closing,              \* a session that close_session has taken away and is still closing
    assoc,                \* the devices an association is open with: two with one device count once
    cmd, pc,              \* the command and where it is
    exit,                 \* exit code of the tool
    consent,              \* ghost: what the operator has confirmed within this command
    struck,               \* ghost: has an interrupt hit this command?
    cut                   \* ghost: has an interrupt cut short a close or an opening, and has the operator been told?

run == <<shell, tty, safety>>
ghosts == <<consent, struck, cut>>
vars == <<run, options, line, session, closing, assoc, cmd, pc, exit, ghosts>>

Line == [yes : BOOLEAN, json : BOOLEAN, orcat : Cats \cup {NoCat}]
Options == [yes : BOOLEAN, json : BOOLEAN, orcat : Cats \cup {NoCat}, expert : BOOLEAN]
NoLine == [yes |-> FALSE, json |-> FALSE, orcat |-> NoCat]

NoSession == [device |-> NoDevice, client |-> "none", expert |-> FALSE, yes |-> FALSE, ui |-> "mute", orcat |-> NoCat]
HasSession == session.device # NoDevice
Connected == session.client = "up"

NeedsNothing == {"set-mode", "set-orcat", "exit"}
NeedsSession == {"watch", "write", "operate"}
Commands ==
    [word : {"set-mode"}, arg : {"standard", "expert"}] \cup [word : {"set-orcat"}, arg : Cats]
        \cup [word : {"connect"}, arg : Devices \cup {NoDevice}]
        \cup [word : NeedsSession \cup {"disconnect", "exit"}, arg : {NoDevice}]
NoCommand == [word |-> "none", arg |-> NoDevice, result |-> "none", cat |-> NoCat, switched |-> FALSE]

(* A stopped watch is a success of the command and, one-shot, an interrupted run. *)
Codes == {"ok", "failed", "usage", "connect", "refused", "interrupted"}
Results == Codes \cup {"stopped"}

(* Between these steps call() catches KeyboardInterrupt. *)
Handling == {"prepare", "handler", "opening", "connecting", "accepted", "browse", "origin", "choosing", "confirm", "asking", "sending"}

Sessions ==
    [device : Devices \cup {NoDevice}, client : {"none", "up", "lost", "told"}, expert : BOOLEAN,
     yes : BOOLEAN, ui : {"mute", "prompt"}, orcat : Cats \cup {NoCat}]
RunningCommands ==
    [word : {"none"} \cup NeedsNothing \cup NeedsSession \cup {"connect", "disconnect"},
     arg : {"standard", "expert"} \cup Cats \cup Devices \cup {NoDevice},
     result : Results \cup {"none"}, cat : Cats \cup {NoCat}, switched : BOOLEAN]

TypeOK ==
    /\ shell \in BOOLEAN /\ tty \in BOOLEAN /\ safety \in {"lab", "strict"}
    /\ options \in Options
    /\ line \in Line
    /\ session \in Sessions /\ closing \in Sessions /\ cmd \in RunningCommands
    /\ pc \in Handling \cup {"start", "closing", "emit", "check", "prompt", "shutdown", "end"}
    /\ exit \in Codes \cup {"running"}
    /\ consent \in {"none", "yes", "typed"} /\ struck \in BOOLEAN
    /\ cut \in {"no", "reported", "silent"} /\ assoc \subseteq Devices

Init ==
    /\ shell \in BOOLEAN /\ tty \in BOOLEAN /\ safety \in {"lab", "strict"}
    /\ options \in Options
    /\ line = NoLine /\ session = NoSession /\ closing = NoSession
    /\ cmd = NoCommand /\ pc = (IF shell THEN "check" ELSE "start") /\ exit = "running"
    /\ consent = "none" /\ struck = FALSE /\ cut = "no" /\ assoc = {}
-----------------------------------------------------------------------------
(* CliContext.opt, CliContext.ui and the guardrails of the mode *)

Yes == line.yes \/ options.yes
Json == line.json \/ options.json
Ui == IF Json \/ ~tty THEN "mute" ELSE "prompt"
CatAllowed(c, expert) == c \in NormalCats \/ expert

(* orcat_override: the line's --orcat, else, one-shot, the tool's. *)
Override == IF line.orcat = NoCat /\ ~shell THEN options.orcat ELSE line.orcat

(* The end of call(): what _command_overrides undoes on the session it started with, and the result. *)
Ends(r) ==
    /\ session' = IF HasSession /\ ~cmd.switched THEN [session EXCEPT !.yes = options.yes] ELSE session
    /\ cmd' = [cmd EXCEPT !.result = r]
    /\ pc' = IF shell THEN "emit" ELSE "shutdown"
    /\ UNCHANGED <<run, options, line, closing, assoc, exit>>
Finish(r) == Ends(r) /\ UNCHANGED ghosts

(* Seeded bug: the interaction stays the one the session was made with. *)
OverriddenYes == IF HasSession THEN [session EXCEPT !.yes = Yes] ELSE session

(* _command_overrides: this command's interaction and --yes, on the session there is. *)
Overridden == IF HasSession THEN [session EXCEPT !.ui = Ui, !.yes = Yes] ELSE session

Goto(p) == pc' = p /\ UNCHANGED <<run, options, line, session, closing, assoc, cmd, exit, ghosts>>
-----------------------------------------------------------------------------
(* Starting: a session is made (not connected) for a one-shot command with a device, or by `connect`. *)

NewSession(d) ==
    [device |-> d, client |-> "none", expert |-> options.expert, yes |-> options.yes, ui |-> Ui, orcat |-> options.orcat]

SessionRefused == options.orcat # NoCat /\ ~CatAllowed(options.orcat, options.expert)

(* Inventory, protocol, the client of --as and the file of the log come first; then the orCat of the options. *)
RefusalCodes == {"refused", "usage", "failed"}

(* What a line that is no command ends with: a parser that never exits the process. *)
NoCommandCodes == {"usage", "ok"}

(* run_oneshot up to call(): usage errors and refused sessions end the run before a command starts. *)
Launch ==
    /\ pc = "start"
    /\ UNCHANGED <<run, options, line, closing, assoc, ghosts>>
    /\ \/ /\ pc' = "end" /\ exit' \in NoCommandCodes   \* a bad command line, or --help
          /\ UNCHANGED <<session, cmd>>
       \/ \E c \in Commands, d \in Devices :
            /\ c.word # "exit"                           \* shell_only
            /\ c.word = "connect" => c.arg = d
            /\ \/ /\ c.word \in NeedsNothing \/ ~SessionRefused
                  /\ cmd' = [NoCommand EXCEPT !.word = c.word, !.arg = c.arg]
                  /\ session' = IF c.word \in NeedsNothing THEN NoSession ELSE NewSession(d)
                  /\ pc' = "prepare" /\ exit' = exit
               \/ /\ c.word \notin NeedsNothing
                  /\ pc' = "end" /\ exit' \in RefusalCodes
                  /\ UNCHANGED <<session, cmd>>

(* run_line: a line that is not a command is answered at once and leaves no trace in the session. *)
ReadLine ==
    /\ pc = "prompt"
    /\ \/ pc' \in {"check", "shutdown"} /\ UNCHANGED <<line, cmd>>   \* a typo, or the end of the input
       \/ \E c \in Commands, l \in Line :
            /\ l.orcat # NoCat => c.word = "operate"   \* nothing else reads it
            /\ line' = l
            /\ cmd' = [NoCommand EXCEPT !.word = c.word, !.arg = c.arg]
            /\ pc' = "prepare"
    /\ UNCHANGED <<run, options, session, closing, assoc, exit, ghosts>>

(* call: overrides, then what the command needs. *)
Prepare ==
    /\ pc = "prepare"
    /\ IF shell /\ cmd.word \in NeedsSession /\ ~Connected
       THEN /\ cmd' = [cmd EXCEPT !.result = "connect"] /\ pc' = "emit"   \* require_session
            /\ session' = IF HasSession THEN [session EXCEPT !.ui = Ui, !.yes = options.yes] ELSE session
       ELSE /\ session' = Overridden /\ cmd' = cmd
            /\ pc' = IF cmd.word \notin NeedsSession THEN "handler" ELSE IF shell THEN "browse" ELSE "connecting"
    /\ UNCHANGED <<run, options, line, closing, assoc, exit, ghosts>>
-----------------------------------------------------------------------------
(* Commands about the session *)

(* connect: another device closes this session first; a one-shot session has just been made. *)
Connect ==
    /\ pc = "handler" /\ cmd.word = "connect"
    /\ CASE shell /\ ~HasSession /\ cmd.arg = NoDevice -> Finish("usage")
         [] shell /\ ~HasSession /\ cmd.arg # NoDevice -> Goto("opening")
         [] shell /\ HasSession /\ cmd.arg \notin {NoDevice, session.device} ->
              /\ closing' = session /\ session' = NoSession
              /\ cmd' = [cmd EXCEPT !.switched = TRUE] /\ pc' = "closing"
              /\ UNCHANGED <<run, options, line, assoc, exit, ghosts>>
         [] OTHER -> IF Connected THEN Finish("ok") ELSE Goto("connecting")

(* Seeded bug: the log of the other session is closed, its association is not. *)
CloseOtherLog ==
    /\ pc = "closing"
    /\ closing' = NoSession /\ pc' = "opening"
    /\ UNCHANGED <<run, options, line, session, assoc, cmd, exit, ghosts>>

(* What is open after a session has released its association, if it holds one. *)
Without(s) == IF s.client = "up" THEN assoc \ {s.device} ELSE assoc

(* close_session: cleanup, release, end of the log. *)
CloseOther ==
    /\ pc = "closing"
    /\ closing' = NoSession /\ assoc' = Without(closing) /\ pc' = "opening"
    /\ UNCHANGED <<run, options, line, session, cmd, exit, ghosts>>

(* make_session; the file of the inventory, the client of --as or the protocol may be refused too. *)
OpenSession ==
    /\ pc = "opening"
    /\ \/ /\ ~SessionRefused
          /\ session' = NewSession(cmd.arg)
          /\ cmd' = [cmd EXCEPT !.switched = TRUE] /\ pc' = "connecting"
          /\ UNCHANGED <<run, options, line, closing, assoc, exit, ghosts>>
       \/ \E r \in RefusalCodes : Finish(r)

(* CliContext.connect: what is left of a lost association goes first; then IedConnection_connect returns. *)
OpenAssociation ==
    /\ pc = "connecting"
    /\ \/ /\ session' = [session EXCEPT !.client = "none"]
          /\ assoc' = assoc \cup {session.device} /\ pc' = "accepted"
          /\ UNCHANGED <<run, options, line, closing, cmd, exit, ghosts>>
       \/ \E r \in {"connect", "refused"} :   \* ConnectError, or the address to bind is missing
            /\ session' = [session EXCEPT !.client = "none", !.yes = IF cmd.switched THEN @ ELSE options.yes]
            /\ assoc' = assoc
            /\ cmd' = [cmd EXCEPT !.result = r] /\ pc' = IF shell THEN "emit" ELSE "shutdown"
            /\ UNCHANGED <<run, options, line, closing, exit, ghosts>>

(* The client object takes the association, the session the client; a loss before that is told to nobody. *)
HoldAssociation ==
    /\ pc = "accepted"
    /\ session' = [session EXCEPT !.client = IF session.device \in assoc THEN "up" ELSE "told"]
    /\ pc' = "browse"
    /\ UNCHANGED <<run, options, line, closing, assoc, cmd, exit, ghosts>>

(* ensure_model, and what the handler reads before it asks. *)
Browse ==
    /\ pc = "browse"
    /\ \/ Connected /\ cmd.word = "connect" /\ Finish("ok")
       \/ Connected /\ cmd.word = "watch" /\ Finish("ok")
       \/ Connected /\ cmd.word = "write" /\ Goto("confirm")
       \/ Connected /\ cmd.word = "operate" /\ Goto("origin")
       \/ Connected /\ Finish("failed")
       \/ ~Connected /\ Finish("connect")

Disconnect ==
    /\ pc = "handler" /\ cmd.word = "disconnect"
    /\ assoc' = IF shell THEN Without(session) ELSE assoc
    /\ session' = IF shell THEN [session EXCEPT !.client = "none", !.yes = IF HasSession THEN options.yes ELSE @]
                           ELSE [session EXCEPT !.yes = options.yes]
    /\ cmd' = [cmd EXCEPT !.result = "ok"] /\ pc' = IF shell THEN "emit" ELSE "shutdown"
    /\ UNCHANGED <<run, options, line, closing, exit, ghosts>>

(* Seeded bug: set mode leaves the orCat alone. *)
CatKept(c, expert) == c

(* Leaving expert mode forgets an orCat that standard mode does not allow. *)
CatAfter(c, expert) == IF expert \/ c \in NormalCats THEN c ELSE NoCat

(* set mode *)
SetMode ==
    /\ pc = "handler" /\ cmd.word = "set-mode" /\ shell
    /\ LET expert == cmd.arg = "expert"
       IN  /\ options' = [options EXCEPT !.expert = expert]
           /\ session' = IF ~HasSession THEN session
                         ELSE [session EXCEPT !.expert = expert, !.yes = options.yes,
                                              !.orcat = CatAfter(@, expert)]
    /\ cmd' = [cmd EXCEPT !.result = "ok"] /\ pc' = "emit"
    /\ UNCHANGED <<run, line, closing, assoc, exit, ghosts>>

(* set orcat: for the session, or, before there is one, for the sessions to come. *)
SetOrCat ==
    /\ pc = "handler" /\ cmd.word = "set-orcat" /\ shell
    /\ IF CatAllowed(cmd.arg, IF HasSession THEN session.expert ELSE options.expert)
       THEN /\ session' = IF HasSession THEN [session EXCEPT !.orcat = cmd.arg, !.yes = options.yes] ELSE session
            /\ options' = IF HasSession THEN options ELSE [options EXCEPT !.orcat = cmd.arg]
            /\ cmd' = [cmd EXCEPT !.result = "ok"] /\ pc' = "emit"
            /\ UNCHANGED <<run, line, closing, assoc, exit, ghosts>>
       ELSE Finish("refused")

(* exit, and settings of a one-shot run, which only tells of the equivalent option. *)
NothingToDo ==
    /\ pc = "handler"
    /\ cmd.word = "exit" \/ (cmd.word \in {"set-mode", "set-orcat"} /\ ~shell)
    /\ Finish("ok")
-----------------------------------------------------------------------------
(* Commands that change the device: the originator, the consent, the request *)

WithCat(c) ==
    /\ cmd' = [cmd EXCEPT !.cat = c] /\ pc' = "confirm"
    /\ UNCHANGED <<run, options, line, session, closing, assoc, exit, ghosts>>

(* ensure_or_cat: no silent default. *)
EnsureOrCat ==
    /\ pc = "origin"
    /\ CASE Override # NoCat -> IF CatAllowed(Override, session.expert) THEN WithCat(Override) ELSE Finish("refused")
         [] Override = NoCat /\ session.orcat # NoCat -> WithCat(session.orcat)
         [] OTHER -> IF session.ui = "mute" THEN Finish("refused") ELSE Goto("choosing")

ChooseOrCat ==
    /\ pc = "choosing"
    /\ \/ \E c \in IF session.expert THEN Cats ELSE NormalCats :
            /\ session' = [session EXCEPT !.orcat = c]
            /\ cmd' = [cmd EXCEPT !.cat = c] /\ pc' = "confirm"
            /\ UNCHANGED <<run, options, line, closing, assoc, exit, ghosts>>
       \/ Finish("refused")

(* Policy.confirm_write: --yes, or the operator's y. *)
ConfirmWrite ==
    /\ pc = "confirm" /\ cmd.word = "write"
    /\ CASE session.yes -> Goto("sending")
         [] ~session.yes /\ session.ui = "mute" -> Finish("refused")
         [] OTHER -> Goto("asking")

(* Policy.confirm_dangerous: always the operator, with the object's name in the strict profile. *)
ConfirmDangerous ==
    /\ pc = "confirm" /\ cmd.word = "operate"
    /\ IF session.ui = "mute" THEN Finish("refused") ELSE Goto("asking")

Answer ==
    /\ pc = "asking"
    /\ \/ /\ consent' = IF cmd.word = "operate" /\ safety = "strict" THEN "typed" ELSE "yes"
          /\ pc' = "sending"
          /\ UNCHANGED <<run, options, line, session, closing, assoc, cmd, exit, struck, cut>>
       \/ Finish("refused")

Send ==
    /\ pc = "sending"
    /\ IF Connected THEN \E r \in {"ok", "failed"} : Finish(r) ELSE Finish("connect")
-----------------------------------------------------------------------------
(* The result is shown, the association looked at, the next line read; or the run ends. *)

Emit ==
    /\ pc = "emit"
    /\ line' = NoLine /\ pc' = "check"
    /\ UNCHANGED <<run, options, session, closing, assoc, cmd, exit, ghosts>>

(* Shell.check_connection tells of each lost association once. *)
CheckConnection ==
    /\ pc = "check"
    /\ session' = IF session.client = "lost" THEN [session EXCEPT !.client = "told"] ELSE session
    /\ pc' = IF cmd.word = "exit" /\ cmd.result = "ok" THEN "shutdown" ELSE "prompt"
    /\ cmd' = IF pc' = "prompt" THEN NoCommand ELSE cmd
    /\ consent' = "none" /\ struck' = FALSE
    /\ UNCHANGED <<run, options, line, closing, assoc, exit, cut>>

(* Seeded bug: a watch that Ctrl-C has stopped counts as a finished one. *)
ExitCodeOfResult == IF shell \/ cmd.result = "stopped" THEN "ok" ELSE cmd.result

(* close_session at the end: of the shell, whose code is 0, or of a one-shot command. *)
ExitCode == IF shell THEN "ok" ELSE IF cmd.result = "stopped" THEN "interrupted" ELSE cmd.result

Shutdown ==
    /\ pc = "shutdown"
    /\ session' = NoSession /\ assoc' = Without(session)
    /\ pc' = "end" /\ exit' = ExitCode
    /\ UNCHANGED <<run, options, line, closing, cmd, ghosts>>
-----------------------------------------------------------------------------
(* The network and KeyboardInterrupt *)

Loss ==
    /\ "loss" \in Faults
    /\ \E d \in assoc :
         /\ assoc' = assoc \ {d}
         /\ session' = IF session.device = d /\ Connected THEN [session EXCEPT !.client = "lost"] ELSE session
         /\ closing' = IF closing.device = d /\ closing.client = "up" THEN [closing EXCEPT !.client = "lost"] ELSE closing
    /\ UNCHANGED <<run, options, line, cmd, pc, exit, ghosts>>

(* call catches it; watch takes it for the end of the watch, which makes a one-shot run an interrupted one. *)
InterruptCommand ==
    /\ "interrupt" \in Faults /\ pc \in Handling \ {"accepted"}
    /\ struck' = TRUE /\ UNCHANGED <<consent, cut>>
    /\ \/ Ends("interrupted")
       \/ pc = "browse" /\ cmd.word = "watch" /\ Connected /\ Ends(IF shell THEN "ok" ELSE "stopped")

(* Any time before IedConnection_connect returns counts as after it: the interrupt waits for the call.  While      *)
(* connect still has to note the handle in the client, or open and Session.connect the client in the session,     *)
(* nobody closes the association (close() finds no handle) and the operator reads "Cancelled."; in between,        *)
(* ProtocolModule.open closes it.                                                                                  *)
InterruptConnect ==
    /\ pc = "accepted" /\ struck' = TRUE
    /\ \/ "interrupt" \in Faults /\ assoc' = assoc \ {session.device} /\ cut' = cut
       \/ /\ "interrupt-in-connect" \in Faults /\ assoc' = assoc
          /\ cut' = IF session.device \in assoc THEN "silent" ELSE cut
    /\ session' = [session EXCEPT !.yes = IF cmd.switched THEN @ ELSE options.yes]
    /\ cmd' = [cmd EXCEPT !.result = "interrupted"] /\ pc' = IF shell THEN "emit" ELSE "shutdown"
    /\ UNCHANGED <<run, options, line, closing, exit, consent>>

(* `connect` has taken the session out of the context: nobody will ever close it. *)
InterruptSwitch ==
    /\ "interrupt-in-switch" \in Faults /\ pc = "closing"
    /\ closing' = NoSession /\ struck' = TRUE /\ cut' = "silent"
    /\ cmd' = [cmd EXCEPT !.result = "interrupted"] /\ pc' = "emit"
    /\ UNCHANGED <<run, options, line, session, assoc, exit, consent>>

(* Shell.run_line keeps the shell; an `exit` interrupted here does not leave it. *)
InterruptEmit ==
    /\ "interrupt" \in Faults /\ pc = "emit"
    /\ line' = NoLine /\ cmd' = [cmd EXCEPT !.result = "interrupted"] /\ pc' = "check"
    /\ UNCHANGED <<run, options, session, closing, assoc, exit, ghosts>>

(* run_oneshot notes a cleanup that was cut short; an interrupt of the output behind it only sets the code. *)
InterruptOneShot ==
    /\ pc = "shutdown" /\ ~shell
    /\ \/ "interrupt-in-exit" \in Faults /\ assoc' = assoc /\ cut' = IF cut = "no" THEN "reported" ELSE cut
       \/ "interrupt" \in Faults /\ assoc' = Without(session) /\ cut' = cut
    /\ session' = NoSession /\ pc' = "end" /\ exit' = "interrupted" /\ struck' = TRUE
    /\ UNCHANGED <<run, options, line, closing, cmd, consent>>

(* Nothing around the loop of Shell.run: main ends the tool.  prompt_toolkit only drops the line. *)
InterruptShell ==
    /\ shell
    /\ \/ "interrupt-between-lines" \in Faults /\ pc \in {"check", "prompt"} /\ (pc = "prompt" => ~tty)
       \/ "interrupt-in-shutdown" \in Faults /\ pc = "shutdown"
    /\ session' = NoSession /\ pc' = "end" /\ exit' = "interrupted"
    /\ struck' = TRUE /\ cut' = "silent"
    /\ UNCHANGED <<run, options, line, closing, assoc, cmd, consent>>

Ended == pc = "end" /\ UNCHANGED vars

Next ==
    \/ Launch \/ ReadLine \/ Prepare
    \/ Connect \/ CloseOther \/ OpenSession \/ OpenAssociation \/ HoldAssociation \/ Browse \/ Disconnect
    \/ SetMode \/ SetOrCat \/ NothingToDo
    \/ EnsureOrCat \/ ChooseOrCat \/ ConfirmWrite \/ ConfirmDangerous \/ Answer \/ Send
    \/ Emit \/ CheckConnection \/ Shutdown
    \/ Loss
    \/ InterruptCommand \/ InterruptConnect \/ InterruptSwitch \/ InterruptEmit \/ InterruptOneShot \/ InterruptShell
    \/ Ended

Spec == Init /\ [][Next]_vars
-----------------------------------------------------------------------------
(* SAF-2, SAF-3, RW-4 (docs/safety-and-scope.md:38-40): a request that changes the device is sent      *)
(* only with consent given in this very command: a write with the operator's y or with a --yes of this *)
(* line or of the tool, a control with the operator's own answer, typed in the strict profile; and     *)
(* nothing is asked where nobody can answer (--json, no terminal).  The session keeps `yes` and `ui`   *)
(* from one command to the next, and `connect` may replace it in the middle of one.                    *)
ConsentIsTheOperators ==
    /\ pc \in {"asking", "choosing"} => tty /\ ~Json
    /\ pc = "sending" /\ cmd.word = "write" => Yes \/ consent = "yes"
    /\ pc = "sending" /\ cmd.word = "operate" => consent = IF safety = "strict" THEN "typed" ELSE "yes"

(* ORG-1, ORG-2 (MOD-2, MOD-3): a control carries an originator category that somebody has chosen and *)
(* that the mode in force allows, however the mode has changed since it was chosen.                    *)
OriginAllowed ==
    pc = "sending" /\ cmd.word = "operate" => cmd.cat \in Cats /\ CatAllowed(cmd.cat, options.expert)

(* RPT-7: every open association belongs to the session the tool holds or is closing, or is about to, through     *)
(* reconnects, switches and ends of every kind: the registry that can undo its changes is at hand.  Only an         *)
(* interrupt can end this: one that comes while a new association is not yet in the hands of the session, one that   *)
(* cuts a close short, or one that nobody catches.  Each of them is a fault of its own (Cutting), and of each `cut`  *)
(* says whether the operator has been told.                                                                         *)
Held ==
    assoc \subseteq {s.device : s \in {t \in {session, closing} : t.client = "up"}}
                  \cup (IF pc = "accepted" THEN {session.device} ELSE {})
NothingLeftBehind == Held \/ cut # "no"

(* The interrupts that leave an association behind; a plain "interrupt" never does. *)
Cutting ==
    {"interrupt-in-connect", "interrupt-in-exit", "interrupt-in-switch", "interrupt-between-lines",
     "interrupt-in-shutdown"}

(* docs/safety-and-scope.md:43-44, "everything the tool enabled, reserved or re-parameterised is      *)
(* undone when you unsubscribe, leave the shell, press Ctrl-C, or the process receives SIGTERM".       *)
InterruptsCleanUp == Held \/ cut = "reported"

(* The exit code (docs/architecture.md:79-81): a one-shot run that ends with 0 has done its command and *)
(* its cleanup and was not interrupted; any other code is that of the command or of an interrupt.       *)
ExitTells ==
    pc = "end" /\ ~shell /\ cmd.word # "none" =>
        /\ exit = "ok" => cmd.result = "ok" /\ ~struck /\ assoc = {}
        /\ exit \in {cmd.result, "interrupted"} /\ (exit = "interrupted" <=> struck)

-----------------------------------------------------------------------------
(* What is behind them, step by step *)

(* Which command is where, in which kind of run, and what it has by then. *)
Asks == {"browse", "origin", "choosing", "confirm", "asking", "sending"}
Places ==
    /\ pc \in {"emit", "check", "prompt", "opening", "closing"} => shell
    /\ pc = "start" => ~shell /\ session = NoSession /\ cmd.word = "none"
    /\ pc \in {"origin", "choosing"} => cmd.word = "operate"
    /\ pc \in {"confirm", "asking", "sending"} => cmd.word \in {"write", "operate"}
    /\ pc \in {"opening", "closing"} => cmd.word = "connect" /\ cmd.arg # NoDevice
    /\ cmd.word = "connect" => cmd.arg \in Devices \cup {NoDevice}
    /\ cmd.word = "set-orcat" => cmd.arg \in Cats
    /\ session.client # "none" \/ pc \in Asks \cup {"connecting", "accepted"} => HasSession
    /\ pc \in {"prepare", "handler"} /\ ~shell /\ cmd.word \notin NeedsNothing => HasSession
    /\ pc = "shutdown" /\ ~shell => cmd.result \in Results

(* The session is in the mode of the tool, and an orCat it remembers is allowed there. *)
ModeInv ==
    /\ HasSession => session.expert = options.expert
    /\ session.orcat # NoCat => CatAllowed(session.orcat, session.expert)

(* From where a command has its session to where it sends, the session has this command's interaction and *)
(* --yes, and a control the originator that was chosen.                                                    *)
AskInv ==
    /\ pc \in Asks \cup {"connecting", "accepted"} /\ cmd.word \in NeedsSession => session.ui = Ui /\ session.yes = Yes
    /\ pc \in {"choosing", "asking"} => Ui = "prompt"
    /\ pc \in {"confirm", "asking", "sending"} /\ cmd.word = "operate" =>
           cmd.cat \in Cats /\ CatAllowed(cmd.cat, options.expert)

(* An association is opened only by a session that has none, and none is being closed outside a switch. *)
HeldInv ==
    /\ cut = "no" => Held
    /\ pc # "closing" => closing.client # "up"
    /\ pc \in {"opening", "connecting", "accepted", "closing"} \/ (pc = "prepare" /\ ~shell) => ~Connected

(* One-shot, the result says whether an interrupt has struck; nothing is cut short before one has. *)
OneShotInv ==
    ~shell => /\ pc # "end" => cut = "no" \/ struck
              /\ pc \in Handling \cup {"start"} => ~struck
              /\ pc = "shutdown" => (struck <=> cmd.result \in {"interrupted", "stopped"})
=============================================================================
