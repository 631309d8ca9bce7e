---------------------------- MODULE CommandLineProofs ----------------------------
(***************************************************************************)
(* Proofs about CommandLine, for any devices, originator categories and    *)
(* faults.                                                                 *)
(***************************************************************************)
EXTENDS CommandLine, TLAPS

-----------------------------------------------------------------------------
(* Types *)

LEMMA SessionTypes ==
    /\ NoSession \in Sessions
    /\ TypeOK => \A d \in Devices : NewSession(d) \in Sessions
    /\ \A s \in Sessions, b \in BOOLEAN : [s EXCEPT !.yes = b] \in Sessions
    /\ \A s \in Sessions, c \in Cats \cup {NoCat} : [s EXCEPT !.orcat = c] \in Sessions
    /\ \A s \in Sessions, u \in {"mute", "prompt"}, b \in BOOLEAN : [s EXCEPT !.ui = u, !.yes = b] \in Sessions
    /\ \A s \in Sessions, l \in {"none", "up", "lost", "told"} : [s EXCEPT !.client = l] \in Sessions
<1>1. NoSession \in Sessions
  BY DEF Sessions, NoSession
<1>2. TypeOK => \A d \in Devices : NewSession(d) \in Sessions
  BY DEF TypeOK, Options, Sessions, NewSession, Ui, Yes, Line
<1>3. QED
  BY <1>1, <1>2 DEF Sessions

LEMMA CommandTypes ==
    /\ NoCommand \in RunningCommands
    /\ \A c \in Commands : [NoCommand EXCEPT !.word = c.word, !.arg = c.arg] \in RunningCommands
    /\ \A c \in RunningCommands, r \in Results : [c EXCEPT !.result = r] \in RunningCommands
    /\ \A c \in RunningCommands : [c EXCEPT !.switched = TRUE] \in RunningCommands
    /\ \A c \in RunningCommands, k \in Cats \cup {NoCat} : [c EXCEPT !.cat = k] \in RunningCommands
<1>1. \A c \in Commands : /\ c.word \in NeedsNothing \cup NeedsSession \cup {"connect", "disconnect"}
                           /\ c.arg \in {"standard", "expert"} \cup Cats \cup Devices \cup {NoDevice}
  BY DEF Commands, NeedsNothing, NeedsSession
<1>2. QED
  BY <1>1 DEF RunningCommands, NoCommand

LEMMA YesUi == TypeOK => Yes \in BOOLEAN /\ Ui \in {"mute", "prompt"} /\ options.yes \in BOOLEAN
BY DEF TypeOK, Options, Yes, Ui, Line

LEMMA EndsType ==
    ASSUME TypeOK, NEW r \in Results, Ends(r)
    PROVE  session' \in Sessions /\ cmd' \in RunningCommands
BY SessionTypes, CommandTypes, YesUi DEF TypeOK, Ends

LEMMA Blank == NoLine \in Line /\ NoSession \in Sessions /\ NoCommand \in RunningCommands
BY SessionTypes, CommandTypes DEF NoLine, Line

(* A command that ends leaves everything well typed. *)
LEMMA FinishType ==
    ASSUME TypeOK, NEW r \in Results, Finish(r)
    PROVE  TypeOK'
<1>1. Ends(r) /\ UNCHANGED ghosts
  BY DEF Finish
<1>2. session' \in Sessions /\ cmd' \in RunningCommands
  BY <1>1, EndsType
<1>3. UNCHANGED <<run, options, line, closing, assoc, exit>> /\ pc' \in {"emit", "shutdown"}
  BY <1>1 DEF Ends
<1>4. QED
  BY <1>1, <1>2, <1>3 DEF TypeOK, run, ghosts, Handling

LEMMA GotoType ==
    ASSUME TypeOK, NEW p \in Handling, Goto(p)
    PROVE  TypeOK'
BY DEF TypeOK, Goto, run, ghosts

LEMMA SetModeTypes ==
    ASSUME TypeOK, NEW e \in BOOLEAN
    PROVE  [session EXCEPT !.expert = e, !.yes = options.yes, !.orcat = CatAfter(@, e)] \in Sessions
<1>1. session \in Sessions /\ options.yes \in BOOLEAN
  BY YesUi DEF TypeOK
<1>2. CatAfter(session.orcat, e) \in Cats \cup {NoCat}
  BY <1>1 DEF CatAfter, Sessions
<1>3. QED
  BY <1>1, <1>2 DEF Sessions

LEMMA DisconnectTypes ==
    ASSUME TypeOK
    PROVE  /\ [session EXCEPT !.client = "none", !.yes = IF HasSession THEN options.yes ELSE @] \in Sessions
           /\ [session EXCEPT !.yes = options.yes] \in Sessions
BY YesUi DEF TypeOK, Sessions

LEMMA OpenedTypes ==
    ASSUME TypeOK
    PROVE  /\ [session EXCEPT !.client = "none"] \in Sessions
           /\ [session EXCEPT !.client = "none", !.yes = IF cmd.switched THEN @ ELSE options.yes] \in Sessions
BY YesUi DEF TypeOK, Sessions

-----------------------------------------------------------------------------
(* What the larger actions come to *)

LEMMA LaunchPrepares ==
    ASSUME Launch, pc' = "prepare"
    PROVE  \E c \in Commands, d \in Devices :
             /\ cmd' = [NoCommand EXCEPT !.word = c.word, !.arg = c.arg]
             /\ session' = IF c.word \in NeedsNothing THEN NoSession ELSE NewSession(d)
BY DEF Launch

(* A request to open that fails leaves the session as it was, but for its yes. *)
LEMMA OpenAssociationDoes ==
    ASSUME TypeOK, OpenAssociation
    PROVE  /\ pc = "connecting" /\ pc' \in {"accepted", "emit", "shutdown"}
           /\ UNCHANGED <<run, options, line, closing, exit, ghosts>>
           /\ cmd'.word = cmd.word /\ cmd'.arg = cmd.arg
           /\ session'.device = session.device /\ session'.expert = session.expert /\ session'.orcat = session.orcat
           /\ (pc' = "emit" => shell)
           /\ (pc' = "shutdown" => cmd'.result \in Results)
<1>1. /\ cmd' = cmd \/ \E r \in {"connect", "refused"} : cmd' = [cmd EXCEPT !.result = r]
      /\ \/ session' = [session EXCEPT !.client = "none"]
         \/ session' = [session EXCEPT !.client = "none", !.yes = IF cmd.switched THEN @ ELSE options.yes]
      /\ pc = "connecting" /\ pc' \in {"accepted", "emit", "shutdown"} /\ (pc' = "emit" => shell)
      /\ pc' = "shutdown" => \E r \in {"connect", "refused"} : cmd' = [cmd EXCEPT !.result = r]
      /\ UNCHANGED <<run, options, line, closing, exit, ghosts>>
  BY DEF OpenAssociation
<1>2. cmd \in RunningCommands /\ session \in Sessions
  BY DEF TypeOK
<1>3. cmd'.word = cmd.word /\ cmd'.arg = cmd.arg
  BY <1>1, <1>2 DEF RunningCommands
<1>4. session'.device = session.device /\ session'.expert = session.expert /\ session'.orcat = session.orcat
  BY <1>1, <1>2 DEF Sessions
<1>5. pc' = "shutdown" => cmd'.result \in Results
  BY <1>1, <1>2 DEF RunningCommands, Results, Codes
<1>6. QED
  BY <1>1, <1>3, <1>4, <1>5

(* `set orcat` changes the category of the session, if its mode allows it, or of the options. *)
LEMMA SetOrCatDoes ==
    ASSUME TypeOK, SetOrCat
    PROVE  /\ shell /\ pc = "handler" /\ pc' = "emit"
           /\ UNCHANGED <<run, line, closing, assoc, exit, ghosts>>
           /\ cmd'.word = cmd.word /\ cmd'.arg = cmd.arg
           /\ session'.device = session.device /\ session'.client = session.client /\ session'.expert = session.expert
           /\ options'.expert = options.expert
           /\ session'.orcat = session.orcat \/ (session'.orcat = cmd.arg /\ CatAllowed(cmd.arg, session.expert))
<1>1. /\ \/ session' = session
         \/ session' = [session EXCEPT !.yes = options.yes]
         \/ /\ session' = [session EXCEPT !.orcat = cmd.arg, !.yes = options.yes]
            /\ CatAllowed(cmd.arg, session.expert)
      /\ options' = options \/ options' = [options EXCEPT !.orcat = cmd.arg]
      /\ \E r \in {"ok", "refused"} : cmd' = [cmd EXCEPT !.result = r]
      /\ shell /\ pc = "handler" /\ pc' = "emit"
      /\ UNCHANGED <<run, line, closing, assoc, exit, ghosts>>
  BY DEF SetOrCat, Finish, Ends
<1>2. cmd \in RunningCommands /\ session \in Sessions /\ options \in Options
  BY DEF TypeOK
<1>3. cmd'.word = cmd.word /\ cmd'.arg = cmd.arg
  BY <1>1, <1>2 DEF RunningCommands
<1>4. session'.device = session.device /\ session'.client = session.client /\ session'.expert = session.expert
  BY <1>1, <1>2 DEF Sessions
<1>5. session'.orcat = session.orcat \/ (session'.orcat = cmd.arg /\ CatAllowed(cmd.arg, session.expert))
  BY <1>1, <1>2 DEF Sessions
<1>6. options'.expert = options.expert
  BY <1>1, <1>2 DEF Options
<1>7. QED
  BY <1>1, <1>3, <1>4, <1>5, <1>6

LEMMA TypeStep ==
    ASSUME TypeOK, Places, [Next]_vars
    PROVE  TypeOK'
<1>1. CASE Launch
  <2>1. session' \in Sessions
    BY <1>1, SessionTypes, YesUi, EndsType DEF Launch, TypeOK, Finish, Goto, Results, Codes
  <2>2. cmd' \in RunningCommands
    BY <1>1, CommandTypes, EndsType DEF Launch, TypeOK, Finish, Goto, Results, Codes, RefusalCodes
  <2>3. UNCHANGED <<run, options, line, closing, assoc, ghosts>> /\ pc' \in {"end", "prepare"}
    BY <1>1 DEF Launch
  <2>4. exit' \in Codes \cup {"running"}
    BY <1>1 DEF Launch, TypeOK, RefusalCodes, NoCommandCodes, Codes
  <2>5. QED
    BY <2>1, <2>2, <2>3, <2>4 DEF TypeOK, run, ghosts, Handling
<1>2. CASE ReadLine
  <2>1. line' \in Line /\ pc' \in Handling \cup {"check", "shutdown"}
    BY <1>2 DEF ReadLine, TypeOK, Handling
  <2>2. cmd' \in RunningCommands
    BY <1>2, CommandTypes DEF ReadLine, TypeOK
  <2>3. UNCHANGED <<run, options, session, closing, assoc, exit, ghosts>>
    BY <1>2 DEF ReadLine
  <2>4. QED
    BY <2>1, <2>2, <2>3 DEF TypeOK, run, ghosts, Handling, Codes
<1>3. CASE Prepare
  <2>1. session' \in Sessions
    BY <1>3, SessionTypes, YesUi DEF Prepare, Overridden, TypeOK
  <2>2. cmd' \in RunningCommands
    <3>1. cmd' = cmd \/ cmd' = [cmd EXCEPT !.result = "connect"]
      BY <1>3 DEF Prepare
    <3>2. QED
      BY <3>1 DEF TypeOK, RunningCommands, Results, Codes
  <2>3. pc' \in Handling \cup {"emit"} /\ UNCHANGED <<run, options, line, closing, assoc, exit, ghosts>>
    BY <1>3 DEF Prepare, Handling
  <2>4. QED
    BY <2>1, <2>2, <2>3 DEF TypeOK, run, ghosts, Handling, Codes
<1>4. CASE Connect
  <2>1. CASE UNCHANGED <<run, options, line, assoc, exit, ghosts>> /\ closing' = session /\ session' = NoSession
             /\ cmd' = [cmd EXCEPT !.switched = TRUE] /\ pc' = "closing"
    <3>1. cmd' \in RunningCommands /\ session' \in Sessions
      BY <2>1, CommandTypes, Blank DEF TypeOK
    <3>2. QED
      BY <2>1, <3>1 DEF TypeOK, run, ghosts
  <2>2. CASE Finish("usage") \/ Finish("ok") \/ Goto("opening") \/ Goto("connecting")
    BY <2>2, FinishType, GotoType DEF Results, Codes, Handling
  <2>3. QED
    BY <1>4, <2>1, <2>2 DEF Connect
<1>5. CASE CloseOther
  BY <1>5, Blank
     DEF vars, CloseOther, Without, TypeOK, run, ghosts, Finish, Ends, Goto, Results, Codes, Handling, ExitCode
<1>6. CASE OpenSession
  <2>1. CASE \E r \in RefusalCodes : Finish(r)
    BY <2>1, FinishType DEF RefusalCodes, Results, Codes
  <2>2. CASE /\ session' = NewSession(cmd.arg)
             /\ cmd' = [cmd EXCEPT !.switched = TRUE] /\ pc' = "connecting"
             /\ UNCHANGED <<run, options, line, closing, assoc, exit, ghosts>>
    <3>1. cmd.arg \in Devices
      BY <1>6 DEF OpenSession, Places
    <3>2. session' \in Sessions /\ cmd' \in RunningCommands
      BY <2>2, <3>1, SessionTypes, CommandTypes DEF TypeOK
    <3>3. QED
      BY <2>2, <3>2 DEF TypeOK, run, ghosts, Handling
  <2>3. QED
    BY <1>6, <2>1, <2>2 DEF OpenSession
<1>7. CASE OpenAssociation
  <2>1. session.device \in Devices
    BY <1>7 DEF OpenAssociation, Places, HasSession, TypeOK, Sessions
  <2>2. session' \in Sessions
    BY <1>7, OpenedTypes DEF OpenAssociation
  <2>3. cmd' \in RunningCommands
    <3>1. cmd' = cmd \/ \E r \in {"connect", "refused"} : cmd' = [cmd EXCEPT !.result = r]
      BY <1>7 DEF OpenAssociation
    <3>2. QED
      BY <3>1 DEF TypeOK, RunningCommands, Results, Codes
  <2>4. assoc' \subseteq Devices /\ pc' \in {"accepted", "emit", "shutdown"}
    BY <1>7, <2>1 DEF OpenAssociation, TypeOK
  <2>5. UNCHANGED <<run, options, line, closing, exit, ghosts>>
    BY <1>7 DEF OpenAssociation
  <2>6. QED
    BY <2>2, <2>3, <2>4, <2>5 DEF TypeOK, run, ghosts, Handling
<1>7a. CASE HoldAssociation
  <2>1. session' \in Sessions
    BY <1>7a, SessionTypes DEF HoldAssociation, TypeOK
  <2>2. pc' = "browse" /\ UNCHANGED <<run, options, line, closing, assoc, cmd, exit, ghosts>>
    BY <1>7a DEF HoldAssociation
  <2>3. QED
    BY <2>1, <2>2 DEF TypeOK, run, ghosts, Handling
<1>8. CASE Browse
  BY <1>8, FinishType, GotoType DEF Browse, Results, Codes, Handling
<1>9. CASE Disconnect
  <2>1. session' \in Sessions /\ cmd' \in RunningCommands
    BY <1>9, DisconnectTypes, CommandTypes DEF Disconnect, TypeOK, Results, Codes
  <2>2. assoc' \subseteq Devices /\ pc' \in {"emit", "shutdown"} /\ UNCHANGED <<run, options, line, closing, exit, ghosts>>
    BY <1>9 DEF Disconnect, Without, TypeOK
  <2>3. QED
    BY <2>1, <2>2 DEF TypeOK, run, ghosts, Handling, Codes
<1>10. CASE SetMode
  <2>1. session' \in Sessions
    BY <1>10, SetModeTypes DEF SetMode, TypeOK
  <2>2. options' \in Options
    BY <1>10 DEF SetMode, TypeOK, Options
  <2>3. cmd' \in RunningCommands
    BY <1>10, CommandTypes DEF SetMode, TypeOK, Results, Codes
  <2>4. pc' = "emit" /\ UNCHANGED <<run, line, closing, assoc, exit, ghosts>>
    BY <1>10 DEF SetMode
  <2>5. QED
    BY <2>1, <2>2, <2>3, <2>4 DEF TypeOK, run, ghosts
<1>11. CASE SetOrCat
  <2>1. CASE Finish("refused")
    BY <2>1, FinishType DEF Results, Codes
  <2>2. CASE /\ session' = IF HasSession THEN [session EXCEPT !.orcat = cmd.arg, !.yes = options.yes] ELSE session
             /\ options' = IF HasSession THEN options ELSE [options EXCEPT !.orcat = cmd.arg]
             /\ cmd' = [cmd EXCEPT !.result = "ok"] /\ pc' = "emit"
             /\ UNCHANGED <<run, line, closing, assoc, exit, ghosts>>
    <3>1. cmd.arg \in Cats
      BY <1>11 DEF SetOrCat, Places
    <3>2. session' \in Sessions
      BY <2>2, <3>1, YesUi DEF TypeOK, Sessions
    <3>3. options' \in Options
      BY <2>2, <3>1 DEF TypeOK, Options
    <3>4. cmd' \in RunningCommands
      BY <2>2, CommandTypes DEF TypeOK, Results, Codes
    <3>5. QED
      BY <2>2, <3>2, <3>3, <3>4 DEF TypeOK, run, ghosts
  <2>3. QED
    BY <1>11, <2>1, <2>2 DEF SetOrCat
<1>12. CASE NothingToDo
  BY <1>12, FinishType DEF NothingToDo, Results, Codes
<1>13. CASE EnsureOrCat
  <2>1. ASSUME NEW c \in Cats \cup {NoCat}, WithCat(c)
        PROVE  TypeOK'
    <3>1. cmd' \in RunningCommands
      BY <2>1, CommandTypes DEF WithCat, TypeOK
    <3>2. QED
      BY <2>1, <3>1 DEF WithCat, TypeOK, run, ghosts, Handling
  <2>2. Override \in Cats \cup {NoCat} /\ session.orcat \in Cats \cup {NoCat}
    BY DEF Override, TypeOK, Line, Options, Sessions
  <2>3. WithCat(Override) \/ WithCat(session.orcat) \/ Finish("refused") \/ Goto("choosing")
    BY <1>13 DEF EnsureOrCat
  <2>4. QED
    BY <2>1, <2>2, <2>3, FinishType, GotoType DEF Results, Codes, Handling
<1>14. CASE ChooseOrCat
  <2>1. CASE Finish("refused")
    BY <2>1, FinishType DEF Results, Codes
  <2>2. ASSUME NEW c \in Cats,
               /\ session' = [session EXCEPT !.orcat = c]
               /\ cmd' = [cmd EXCEPT !.cat = c] /\ pc' = "confirm"
               /\ UNCHANGED <<run, options, line, closing, assoc, exit, ghosts>>
        PROVE  TypeOK'
    <3>1. session' \in Sessions /\ cmd' \in RunningCommands
      BY <2>2, SessionTypes, CommandTypes DEF TypeOK
    <3>2. QED
      BY <2>2, <3>1 DEF TypeOK, run, ghosts, Handling
  <2>3. QED
    BY <1>14, <2>1, <2>2, CommandLineAssumption DEF ChooseOrCat
<1>15. CASE ConfirmWrite
  BY <1>15, FinishType, GotoType DEF ConfirmWrite, Results, Codes, Handling
<1>16. CASE ConfirmDangerous
  BY <1>16, FinishType, GotoType DEF ConfirmDangerous, Results, Codes, Handling
<1>17. CASE Answer
  <2>1. CASE Finish("refused")
    BY <2>1, FinishType DEF Results, Codes
  <2>2. CASE ~Finish("refused")
    BY <1>17, <2>2 DEF Answer, TypeOK, run, Handling
  <2>3. QED
    BY <2>1, <2>2
<1>18. CASE Send
  BY <1>18, FinishType DEF Send, Results, Codes
<1>19. CASE Emit
  BY <1>19, Blank
     DEF vars, Emit, TypeOK, run, ghosts, Finish, Ends, Goto, Results, Codes, Handling, ExitCode
<1>20. CASE CheckConnection
  <2>1. session' \in Sessions
    BY <1>20, SessionTypes, YesUi, EndsType DEF CheckConnection, TypeOK, Finish, Goto, Results, Codes
  <2>2. cmd' \in RunningCommands
    BY <1>20, CommandTypes, EndsType DEF CheckConnection, TypeOK, Finish, Goto, Results, Codes, RefusalCodes
  <2>3. QED
    BY <1>20, <2>1, <2>2 DEF CheckConnection, TypeOK, run, ghosts, Finish, Ends, Goto, Codes, Handling, RefusalCodes, NoCommandCodes, NeedsNothing, NeedsSession, NoLine
<1>21. CASE Shutdown
  <2>1. session' \in Sessions
    BY <1>21, Blank DEF Shutdown
  <2>2. assoc' \subseteq Devices /\ pc' = "end" /\ UNCHANGED <<run, options, line, closing, cmd, ghosts>>
    BY <1>21 DEF Shutdown, Without, TypeOK
  <2>3. exit' \in Codes
    BY <1>21 DEF Shutdown, ExitCode, Places, Results, Codes
  <2>4. QED
    BY <2>1, <2>2, <2>3 DEF TypeOK, run, ghosts, Handling, Codes
<1>22. CASE Loss
  <2>1. session' \in Sessions /\ closing' \in Sessions
    BY <1>22, SessionTypes DEF Loss, TypeOK
  <2>2. assoc' \subseteq Devices
    BY <1>22 DEF Loss, TypeOK
  <2>3. UNCHANGED <<run, options, line, cmd, pc, exit, ghosts>>
    BY <1>22 DEF Loss
  <2>4. QED
    BY <2>1, <2>2, <2>3 DEF TypeOK, run, ghosts, Handling, Codes
<1>23. CASE InterruptCommand
  <2>1. session' \in Sessions
    BY <1>23, SessionTypes, YesUi, EndsType DEF InterruptCommand, TypeOK, Finish, Goto, Results, Codes
  <2>2. cmd' \in RunningCommands
    BY <1>23, CommandTypes, EndsType DEF InterruptCommand, TypeOK, Finish, Goto, Results, Codes, RefusalCodes
  <2>3. QED
    BY <1>23, <2>1, <2>2 DEF InterruptCommand, TypeOK, run, ghosts, Finish, Ends, Goto, Codes, Handling, RefusalCodes, NoCommandCodes, NeedsNothing, NeedsSession, NoLine
<1>23a. CASE InterruptConnect
  <2>1. session' \in Sessions
    BY <1>23a, YesUi DEF InterruptConnect, TypeOK, Sessions
  <2>2. cmd' \in RunningCommands
    BY <1>23a, CommandTypes DEF InterruptConnect, TypeOK, Results, Codes
  <2>3. assoc' \subseteq Devices /\ cut' \in {"no", "reported", "silent"}
    BY <1>23a DEF InterruptConnect, TypeOK
  <2>4. struck' = TRUE /\ pc' \in {"emit", "shutdown"} /\ UNCHANGED <<run, options, line, closing, exit, consent>>
    BY <1>23a DEF InterruptConnect
  <2>5. QED
    BY <2>1, <2>2, <2>3, <2>4 DEF TypeOK, run, ghosts, Handling
<1>24. CASE InterruptSwitch
  <2>1. closing' \in Sessions /\ cmd' \in RunningCommands
    BY <1>24, Blank, CommandTypes DEF InterruptSwitch, TypeOK, Results, Codes
  <2>2. struck' \in BOOLEAN /\ cut' = "silent" /\ pc' = "emit" /\ UNCHANGED <<run, options, line, session, assoc, exit, consent>>
    BY <1>24 DEF InterruptSwitch
  <2>3. QED
    BY <2>1, <2>2 DEF TypeOK, run, ghosts, Handling, Codes
<1>25. CASE InterruptEmit
  <2>1. line' \in Line /\ cmd' \in RunningCommands
    BY <1>25, Blank, CommandTypes DEF InterruptEmit, TypeOK, Results, Codes
  <2>2. pc' = "check" /\ UNCHANGED <<run, options, session, closing, assoc, exit, ghosts>>
    BY <1>25 DEF InterruptEmit
  <2>3. QED
    BY <2>1, <2>2 DEF TypeOK, run, ghosts, Handling, Codes
<1>26. CASE InterruptOneShot
  BY <1>26, Blank
     DEF vars, InterruptOneShot, Without, TypeOK, run, ghosts, Finish, Ends, Goto, Results, Codes, Handling, ExitCode
<1>27. CASE InterruptShell
  BY <1>27, Blank
     DEF vars, InterruptShell, TypeOK, run, ghosts, Finish, Ends, Goto, Results, Codes, Handling, ExitCode
<1>28. CASE Ended
  BY <1>28 DEF Ended, vars, TypeOK, run, ghosts, Finish, Ends, Goto, Results, Codes, Handling, ExitCode
<1>29. CASE UNCHANGED vars
  BY <1>29 DEF vars, TypeOK, run, ghosts
<1>30. QED
  BY <1>1, <1>2, <1>3, <1>4, <1>5, <1>6, <1>7, <1>7a, <1>8, <1>9, <1>10, <1>11, <1>12, <1>13, <1>14, <1>15, <1>16, <1>17, <1>18, <1>19, <1>20, <1>21, <1>22, <1>23, <1>23a, <1>24, <1>25, <1>26, <1>27, <1>28, <1>29 DEF Next

LEMMA CommandArgs ==
    /\ \A c \in Commands :
          (c.word = "connect" => c.arg \in Devices \cup {NoDevice}) /\ (c.word = "set-orcat" => c.arg \in Cats)
    /\ NoCommand.word = "none"
BY DEF Commands, NeedsSession, NoCommand

LEMMA Begins ==
    ASSUME NEW c \in Commands, cmd' = [NoCommand EXCEPT !.word = c.word, !.arg = c.arg]
    PROVE  /\ cmd'.word = "connect" => cmd'.arg \in Devices \cup {NoDevice}
           /\ cmd'.word = "set-orcat" => cmd'.arg \in Cats
           /\ cmd'.word = c.word
<1>1. cmd'.word = c.word /\ cmd'.arg = c.arg
  BY DEF NoCommand
<1>2. (c.word = "connect" => c.arg \in Devices \cup {NoDevice}) /\ (c.word = "set-orcat" => c.arg \in Cats)
  BY DEF Commands, NeedsSession
<1>3. QED
  BY <1>1, <1>2

LEMMA NewDevice == \A d \in Devices : NewSession(d).device = d /\ d # NoDevice /\ NewSession(d).client = "none"
BY CommandLineAssumption DEF NewSession

LEMMA PlacesStep ==
    ASSUME TypeOK, Places, [Next]_vars
    PROVE  Places'
<1> USE DEF TypeOK, Places, run, HasSession, Sessions, RunningCommands, Asks, NeedsNothing, NeedsSession, Results, Codes, Finish, Ends, Goto
<1>1. CASE Launch
  <2>1. CASE pc' = "end"
    BY <1>1, <2>1, CommandArgs DEF Launch
  <2>2. CASE pc' = "prepare"
    <3>1. PICK c \in Commands, d \in Devices :
             /\ cmd' = [NoCommand EXCEPT !.word = c.word, !.arg = c.arg]
             /\ session' = IF c.word \in NeedsNothing THEN NoSession ELSE NewSession(d)
      BY <1>1, <2>2, LaunchPrepares
    <3>2. /\ cmd'.word = "connect" => cmd'.arg \in Devices \cup {NoDevice}
          /\ cmd'.word = "set-orcat" => cmd'.arg \in Cats
          /\ cmd'.word = c.word
      BY <3>1, Begins
    <3>3. cmd'.word \notin NeedsNothing => session'.device # NoDevice
      BY <3>1, <3>2, NewDevice
    <3>4. session'.client = "none"
      BY <3>1, NewDevice DEF NoSession
    <3>5. QED
      BY <2>2, <3>2, <3>3, <3>4
  <2>3. QED
    BY <1>1, <2>1, <2>2 DEF Launch
<1>2. CASE ReadLine
  <2>1. CASE UNCHANGED cmd /\ pc' \in {"check", "shutdown"}
    BY <1>2, <2>1 DEF ReadLine
  <2>2. ASSUME NEW c \in Commands, cmd' = [NoCommand EXCEPT !.word = c.word, !.arg = c.arg], pc' = "prepare"
        PROVE  Places'
    <3>1. /\ cmd'.word = "connect" => cmd'.arg \in Devices \cup {NoDevice}
          /\ cmd'.word = "set-orcat" => cmd'.arg \in Cats
      BY <2>2, Begins
    <3>2. shell' = TRUE /\ session' = session
      BY <1>2 DEF ReadLine
    <3>3. QED
      BY <2>2, <3>1, <3>2
  <2>3. QED
    BY <1>2, <2>1, <2>2 DEF ReadLine
<1>3. CASE Prepare
  <2>1. session'.device = session.device /\ session'.client = session.client
    BY <1>3 DEF Prepare, Overridden
  <2>2. cmd'.word = cmd.word /\ cmd'.arg = cmd.arg
    BY <1>3 DEF Prepare
  <2>3. shell' = shell /\ pc' \in {"emit", "handler", "browse", "connecting"}
    BY <1>3 DEF Prepare
  <2>4. ~shell /\ cmd.word \notin NeedsNothing => HasSession
    BY <1>3 DEF Prepare
  <2>5. pc' = "emit" => shell
    BY <1>3 DEF Prepare
  <2>6. pc' = "browse" => session.client = "up"
    BY <1>3 DEF Prepare, Connected
  <2>7. pc' = "connecting" => ~shell /\ cmd.word \notin NeedsNothing
    BY <1>3 DEF Prepare
  <2>8. QED
    BY <2>1, <2>2, <2>3, <2>4, <2>5, <2>6, <2>7
<1>4. CASE Connect
  BY <1>4 DEF Connect, NoSession
<1>5. CASE CloseOther
  BY <1>5 DEF CloseOther
<1>6. CASE OpenSession
  <2>1. cmd.arg \in Devices /\ shell
    BY <1>6 DEF OpenSession
  <2>2. CASE session' = NewSession(cmd.arg) /\ cmd' = [cmd EXCEPT !.switched = TRUE] /\ pc' = "connecting"
    BY <1>6, <2>1, <2>2, NewDevice DEF OpenSession
  <2>3. CASE \E r \in RefusalCodes : Finish(r)
    BY <1>6, <2>1, <2>3 DEF OpenSession
  <2>4. QED
    BY <1>6, <2>2, <2>3 DEF OpenSession
<1>7. CASE OpenAssociation
  BY <1>7, OpenAssociationDoes
<1>7a. CASE HoldAssociation
  BY <1>7a DEF HoldAssociation
<1>8. CASE Browse
  BY <1>8 DEF Browse
<1>9. CASE Disconnect
  BY <1>9 DEF Disconnect
<1>10. CASE SetMode
  BY <1>10 DEF SetMode, CatAfter
<1>11. CASE SetOrCat
  BY <1>11, SetOrCatDoes
<1>12. CASE NothingToDo
  BY <1>12 DEF NothingToDo
<1>13. CASE EnsureOrCat
  BY <1>13 DEF EnsureOrCat, WithCat
<1>14. CASE ChooseOrCat
  BY <1>14 DEF ChooseOrCat
<1>15. CASE ConfirmWrite
  BY <1>15 DEF ConfirmWrite
<1>16. CASE ConfirmDangerous
  BY <1>16 DEF ConfirmDangerous
<1>17. CASE Answer
  BY <1>17 DEF Answer
<1>18. CASE Send
  BY <1>18 DEF Send
<1>19. CASE Emit
  BY <1>19 DEF Emit
<1>20. CASE CheckConnection
  <2>1. shell' /\ pc' \in {"shutdown", "prompt"}
    BY <1>20 DEF CheckConnection
  <2>2. cmd' = cmd \/ (cmd' = NoCommand /\ pc' = "prompt")
    BY <1>20 DEF CheckConnection
  <2>3. session'.device = session.device /\ (session'.client # "none" => session.client # "none")
    BY <1>20 DEF CheckConnection
  <2>4. QED
    BY <2>1, <2>2, <2>3, CommandArgs
<1>21. CASE Shutdown
  BY <1>21 DEF Shutdown, NoSession
<1>22. CASE Loss
  <2>1. PICK d \in assoc : session' = IF session.device = d /\ Connected THEN [session EXCEPT !.client = "lost"] ELSE session
    BY <1>22 DEF Loss
  <2>4. session'.device = session.device /\ (session.device = d => HasSession)
    BY <2>1, CommandLineAssumption
  <2>5. session' = session \/ (session.device = d /\ session # NoSession)
    BY <2>1, <2>4 DEF NoSession
  <2>2. UNCHANGED <<run, cmd, pc>>
    BY <1>22 DEF Loss
  <2>3. QED
    BY <2>2, <2>4, <2>5
<1>23. CASE InterruptCommand
  BY <1>23 DEF InterruptCommand
<1>23a. CASE InterruptConnect
  BY <1>23a DEF InterruptConnect
<1>24. CASE InterruptSwitch
  BY <1>24 DEF InterruptSwitch
<1>25. CASE InterruptEmit
  BY <1>25 DEF InterruptEmit
<1>26. CASE InterruptOneShot
  BY <1>26 DEF InterruptOneShot, NoSession
<1>27. CASE InterruptShell
  BY <1>27 DEF InterruptShell, NoSession
<1>28. CASE Ended
  BY <1>28 DEF Ended, vars
<1>29. CASE UNCHANGED vars
  BY <1>29 DEF vars
<1>30. QED
  BY <1>1, <1>2, <1>3, <1>4, <1>5, <1>6, <1>7, <1>7a, <1>8, <1>9, <1>10, <1>11, <1>12, <1>13, <1>14, <1>15, <1>16, <1>17, <1>18, <1>19, <1>20, <1>21, <1>22, <1>23, <1>23a, <1>24, <1>25, <1>26, <1>27, <1>28, <1>29 DEF Next

LEMMA ModeStep ==
    ASSUME TypeOK, Places, ModeInv, [Next]_vars
    PROVE  ModeInv'
<1> USE DEF TypeOK, run, ghosts, HasSession, Sessions, RunningCommands, NoSession, Finish, Ends, Goto, Places, Asks, ModeInv, CatAllowed, Options
<1>1. CASE Launch
  <2>1. session' \in {session, NoSession} \/ (~SessionRefused /\ \E d \in Devices : session' = NewSession(d))
    BY <1>1 DEF Launch
  <2>2. UNCHANGED options
    BY <1>1 DEF Launch
  <2>3. QED
    BY <2>1, <2>2 DEF NewSession, SessionRefused
<1>2. CASE ReadLine
  BY <1>2 DEF ReadLine
<1>3. CASE Prepare
  <2>1. session'.device = session.device /\ session'.expert = session.expert /\ session'.orcat = session.orcat
    <3>1. session' = session \/ \E u \in {"mute", "prompt"}, y \in BOOLEAN : session' = [session EXCEPT !.ui = u, !.yes = y]
      BY <1>3, YesUi DEF Prepare, Overridden
    <3>2. QED
      BY <3>1
  <2>2. UNCHANGED options
    BY <1>3 DEF Prepare
  <2>3. QED
    BY <2>1, <2>2
<1>4. CASE Connect
  BY <1>4 DEF Connect
<1>5. CASE CloseOther
  BY <1>5 DEF CloseOther
<1>6. CASE OpenSession
  <2>1. (~SessionRefused /\ session' = NewSession(cmd.arg)) \/ \E r \in RefusalCodes : Ends(r)
    BY <1>6 DEF OpenSession
  <2>2. UNCHANGED options
    BY <1>6 DEF OpenSession
  <2>3. QED
    BY <2>1, <2>2 DEF NewSession, SessionRefused
<1>7. CASE OpenAssociation
  BY <1>7, OpenAssociationDoes
<1>7a. CASE HoldAssociation
  BY <1>7a DEF HoldAssociation
<1>8. CASE Browse
  BY <1>8 DEF Browse
<1>9. CASE Disconnect
  BY <1>9 DEF Disconnect
<1>10. CASE SetMode
  BY <1>10 DEF SetMode, CatAfter
<1>11. CASE SetOrCat
  BY <1>11, SetOrCatDoes
<1>12. CASE NothingToDo
  BY <1>12 DEF NothingToDo
<1>13. CASE EnsureOrCat
  BY <1>13 DEF EnsureOrCat, WithCat
<1>14. CASE ChooseOrCat
  BY <1>14 DEF ChooseOrCat
<1>15. CASE ConfirmWrite
  BY <1>15 DEF ConfirmWrite
<1>16. CASE ConfirmDangerous
  BY <1>16 DEF ConfirmDangerous
<1>17. CASE Answer
  BY <1>17 DEF Answer
<1>18. CASE Send
  BY <1>18 DEF Send
<1>19. CASE Emit
  BY <1>19 DEF Emit
<1>20. CASE CheckConnection
  BY <1>20 DEF CheckConnection
<1>21. CASE Shutdown
  BY <1>21 DEF Shutdown
<1>22. CASE Loss
  BY <1>22 DEF Loss
<1>23. CASE InterruptCommand
  BY <1>23 DEF InterruptCommand
<1>23a. CASE InterruptConnect
  BY <1>23a DEF InterruptConnect
<1>24. CASE InterruptSwitch
  BY <1>24 DEF InterruptSwitch
<1>25. CASE InterruptEmit
  BY <1>25 DEF InterruptEmit
<1>26. CASE InterruptOneShot
  BY <1>26 DEF InterruptOneShot
<1>27. CASE InterruptShell
  BY <1>27 DEF InterruptShell
<1>28. CASE Ended
  BY <1>28 DEF Ended, vars
<1>29. CASE UNCHANGED vars
  BY <1>29 DEF vars
<1>30. QED
  BY <1>1, <1>2, <1>3, <1>4, <1>5, <1>6, <1>7, <1>7a, <1>8, <1>9, <1>10, <1>11, <1>12, <1>13, <1>14, <1>15, <1>16, <1>17, <1>18, <1>19, <1>20, <1>21, <1>22, <1>23, <1>23a, <1>24, <1>25, <1>26, <1>27, <1>28, <1>29 DEF Next

LEMMA AskStep ==
    ASSUME TypeOK, Places, ModeInv, AskInv, [Next]_vars
    PROVE  AskInv'
<1> USE DEF TypeOK, run, ghosts, HasSession, Sessions, RunningCommands, NoSession, Finish, Ends, Goto, Places, Asks, ModeInv, AskInv, CatAllowed, Options, Ui, Yes, Json, Line, NeedsSession
<1>1. CASE Launch
  BY <1>1 DEF Launch
<1>2. CASE ReadLine
  BY <1>2 DEF ReadLine
<1>3. CASE Prepare
  <2>1. pc' \in {"emit", "handler", "browse", "connecting"} /\ UNCHANGED <<run, options, line>>
    BY <1>3 DEF Prepare
  <2>2. pc' = "connecting" => ~shell /\ cmd.word \in NeedsSession
    BY <1>3 DEF Prepare
  <2>3. pc' = "browse" => Connected
    BY <1>3 DEF Prepare
  <2>4. pc' \in {"browse", "connecting"} => HasSession
    BY <1>3, <2>2, <2>3 DEF Connected, Prepare, NeedsNothing
  <2>5. pc' # "emit" /\ HasSession => session'.ui = Ui /\ session'.yes = Yes
    BY <1>3 DEF Prepare, Overridden
  <2>6. QED
    BY <2>1, <2>4, <2>5
<1>4. CASE Connect
  BY <1>4 DEF Connect
<1>5. CASE CloseOther
  BY <1>5 DEF CloseOther
<1>6. CASE OpenSession
  BY <1>6 DEF OpenSession, NewSession
<1>7. CASE OpenAssociation
  BY <1>7 DEF OpenAssociation
<1>7a. CASE HoldAssociation
  BY <1>7a DEF HoldAssociation
<1>8. CASE Browse
  BY <1>8 DEF Browse
<1>9. CASE Disconnect
  BY <1>9 DEF Disconnect
<1>10. CASE SetMode
  BY <1>10 DEF SetMode, CatAfter
<1>11. CASE SetOrCat
  BY <1>11 DEF SetOrCat
<1>12. CASE NothingToDo
  BY <1>12 DEF NothingToDo
<1>13. CASE EnsureOrCat
  <2>1. session.ui = Ui /\ session.yes = Yes /\ session.expert = options.expert /\ cmd.word = "operate"
    BY <1>13 DEF EnsureOrCat
  <2>2. ASSUME NEW c \in Cats, CatAllowed(c, options.expert), WithCat(c)
        PROVE  AskInv'
    BY <2>1, <2>2 DEF WithCat
  <2>3. CASE Override # NoCat /\ WithCat(Override) /\ CatAllowed(Override, session.expert)
    <3>1. Override \in Cats
      BY <2>3 DEF Override
    <3>2. QED
      BY <2>1, <2>2, <2>3, <3>1
  <2>4. CASE session.orcat # NoCat /\ WithCat(session.orcat)
    <3>1. session.orcat \in Cats /\ CatAllowed(session.orcat, options.expert)
      BY <2>1, <2>4
    <3>2. QED
      BY <2>2, <2>4, <3>1
  <2>5. CASE Finish("refused")
    BY <2>5
  <2>6. CASE session.ui # "mute" /\ Goto("choosing")
    BY <2>1, <2>6
  <2>7. QED
    BY <1>13, <2>3, <2>4, <2>5, <2>6 DEF EnsureOrCat
<1>14. CASE ChooseOrCat
  <2>1. session.ui = Ui /\ session.yes = Yes /\ session.expert = options.expert /\ cmd.word = "operate"
    BY <1>14 DEF ChooseOrCat
  <2>2. ASSUME NEW c \in Cats, CatAllowed(c, session.expert),
               /\ session' = [session EXCEPT !.orcat = c]
               /\ cmd' = [cmd EXCEPT !.cat = c] /\ pc' = "confirm"
               /\ UNCHANGED <<run, options, line, closing, assoc, exit, ghosts>>
        PROVE  AskInv'
    <3>1. session'.ui = session.ui /\ session'.yes = session.yes
      BY <2>2
    <3>2. cmd'.cat = c /\ cmd'.word = "operate"
      BY <2>1, <2>2
    <3>3. QED
      BY <2>1, <2>2, <3>1, <3>2
  <2>3. CASE Finish("refused")
    BY <2>3
  <2>4. \A c \in IF session.expert THEN Cats ELSE NormalCats : c \in Cats /\ (c \in NormalCats \/ session.expert)
    BY CommandLineAssumption
  <2>5. QED
    BY <1>14, <2>2, <2>3, <2>4 DEF ChooseOrCat
<1>15. CASE ConfirmWrite
  BY <1>15 DEF ConfirmWrite
<1>16. CASE ConfirmDangerous
  BY <1>16 DEF ConfirmDangerous
<1>17. CASE Answer
  BY <1>17 DEF Answer
<1>18. CASE Send
  BY <1>18 DEF Send
<1>19. CASE Emit
  BY <1>19 DEF Emit
<1>20. CASE CheckConnection
  BY <1>20 DEF CheckConnection
<1>21. CASE Shutdown
  BY <1>21 DEF Shutdown
<1>22. CASE Loss
  BY <1>22 DEF Loss
<1>23. CASE InterruptCommand
  BY <1>23 DEF InterruptCommand
<1>23a. CASE InterruptConnect
  BY <1>23a DEF InterruptConnect
<1>24. CASE InterruptSwitch
  BY <1>24 DEF InterruptSwitch
<1>25. CASE InterruptEmit
  BY <1>25 DEF InterruptEmit
<1>26. CASE InterruptOneShot
  BY <1>26 DEF InterruptOneShot
<1>27. CASE InterruptShell
  BY <1>27 DEF InterruptShell
<1>28. CASE Ended
  BY <1>28 DEF Ended, vars
<1>29. CASE UNCHANGED vars
  BY <1>29 DEF vars
<1>30. QED
  BY <1>1, <1>2, <1>3, <1>4, <1>5, <1>6, <1>7, <1>7a, <1>8, <1>9, <1>10, <1>11, <1>12, <1>13, <1>14, <1>15, <1>16, <1>17, <1>18, <1>19, <1>20, <1>21, <1>22, <1>23, <1>23a, <1>24, <1>25, <1>26, <1>27, <1>28, <1>29 DEF Next

LEMMA KeepsHeld ==
    ASSUME assoc' = assoc, closing' = closing, session'.device = session.device, session'.client = session.client,
           pc # "accepted"
    PROVE  Held => Held'
BY DEF Held

LEMMA NoneHeld ==
    HeldInv /\ ~Connected /\ closing.client # "up" /\ pc # "accepted" => assoc = {} \/ cut # "no"
BY DEF HeldInv, Held, Connected

LEMMA HeldStep ==
    ASSUME TypeOK, Places, HeldInv, [Next]_vars
    PROVE  HeldInv'
<1> USE DEF TypeOK, run, ghosts, HasSession, Sessions, RunningCommands, NoSession, Finish, Ends, Goto, Places, Asks, HeldInv, Held, Connected
<1>1. CASE Launch
  <2>1. ~Connected /\ closing.client # "up" /\ pc # "accepted"
    <3>1. session = NoSession /\ pc = "start"
      BY <1>1 DEF Launch
    <3>2. QED
      BY <3>1
  <2>2. assoc = {} \/ cut # "no"
    BY <2>1, NoneHeld
  <2>3. UNCHANGED <<closing, assoc, cut>>
    BY <1>1 DEF Launch
  <2>4. pc' \in {"prepare", "end"}
    BY <1>1 DEF Launch
  <2>5. session' \in {session, NoSession} \/ \E d \in Devices : session' = NewSession(d)
    BY <1>1 DEF Launch
  <2>6. session'.client # "up"
    BY <2>1, <2>5, NewDevice
  <2>7. QED
    BY <2>1, <2>2, <2>3, <2>4, <2>6
<1>2. CASE ReadLine
  BY <1>2 DEF ReadLine
<1>3. CASE Prepare
  <2>1. session'.device = session.device /\ session'.client = session.client
    BY <1>3 DEF Prepare, Overridden
  <2>2. UNCHANGED <<closing, assoc, cut>> /\ pc' \notin {"prepare", "accepted", "closing", "opening"} /\ pc = "prepare"
    BY <1>3 DEF Prepare
  <2>3. pc' = "connecting" => ~Connected
    BY <1>3 DEF Prepare
  <2>4. QED
    BY <2>1, <2>2, <2>3, KeepsHeld
<1>4. CASE Connect
  BY <1>4 DEF Connect
<1>5. CASE CloseOther
  BY <1>5 DEF CloseOther, Without
<1>6. CASE OpenSession
  <2>1. ~Connected /\ closing.client # "up" /\ pc # "accepted"
    BY <1>6 DEF OpenSession
  <2>2. assoc = {} \/ cut # "no"
    BY <2>1, NoneHeld
  <2>3. UNCHANGED <<closing, assoc, cut>>
    BY <1>6 DEF OpenSession
  <2>4. (session' = NewSession(cmd.arg) /\ pc' = "connecting") \/ pc' \in {"emit", "shutdown"}
    BY <1>6 DEF OpenSession
  <2>5. session' = NewSession(cmd.arg) => session'.client # "up"
    BY DEF NewSession
  <2>6. QED
    BY <2>1, <2>2, <2>3, <2>4, <2>5
<1>7. CASE OpenAssociation
  BY <1>7 DEF OpenAssociation
<1>7a. CASE HoldAssociation
  BY <1>7a DEF HoldAssociation
<1>8. CASE Browse
  BY <1>8 DEF Browse
<1>9. CASE Disconnect
  BY <1>9 DEF Disconnect, Without
<1>10. CASE SetMode
  <2>1. session'.device = session.device /\ session'.client = session.client
    BY <1>10 DEF SetMode, CatAfter
  <2>2. /\ UNCHANGED <<closing, assoc, cut>> /\ pc \notin {"closing", "accepted"}
        /\ pc' \notin {"prepare", "closing", "opening", "connecting", "accepted"}
    BY <1>10 DEF SetMode, CatAfter
  <2>3. QED
    BY <2>1, <2>2, KeepsHeld
<1>11. CASE SetOrCat
  <2>1. session'.device = session.device /\ session'.client = session.client
    BY <1>11, SetOrCatDoes
  <2>2. /\ UNCHANGED <<closing, assoc, cut>> /\ pc \notin {"closing", "accepted"}
        /\ pc' \notin {"prepare", "closing", "opening", "connecting", "accepted"}
    BY <1>11, SetOrCatDoes
  <2>3. QED
    BY <2>1, <2>2, KeepsHeld
<1>12. CASE NothingToDo
  BY <1>12 DEF NothingToDo
<1>13. CASE EnsureOrCat
  BY <1>13 DEF EnsureOrCat, WithCat
<1>14. CASE ChooseOrCat
  BY <1>14 DEF ChooseOrCat
<1>15. CASE ConfirmWrite
  BY <1>15 DEF ConfirmWrite
<1>16. CASE ConfirmDangerous
  BY <1>16 DEF ConfirmDangerous
<1>17. CASE Answer
  BY <1>17 DEF Answer
<1>18. CASE Send
  BY <1>18 DEF Send
<1>19. CASE Emit
  BY <1>19 DEF Emit
<1>20. CASE CheckConnection
  BY <1>20 DEF CheckConnection
<1>21. CASE Shutdown
  BY <1>21 DEF Shutdown, Without
<1>22. CASE Loss
  BY <1>22 DEF Loss
<1>23. CASE InterruptCommand
  <2>1. session'.device = session.device /\ session'.client = session.client
    BY <1>23 DEF InterruptCommand
  <2>2. /\ UNCHANGED <<closing, assoc, cut>> /\ pc \notin {"closing", "accepted"}
        /\ pc' \notin {"prepare", "closing", "opening", "connecting", "accepted"}
    BY <1>23 DEF InterruptCommand, Handling
  <2>3. QED
    BY <2>1, <2>2, KeepsHeld
<1>23a. CASE InterruptConnect
  BY <1>23a DEF InterruptConnect
<1>24. CASE InterruptSwitch
  BY <1>24 DEF InterruptSwitch
<1>25. CASE InterruptEmit
  BY <1>25 DEF InterruptEmit
<1>26. CASE InterruptOneShot
  BY <1>26 DEF InterruptOneShot, Without
<1>27. CASE InterruptShell
  BY <1>27 DEF InterruptShell
<1>28. CASE Ended
  BY <1>28 DEF Ended, vars
<1>29. CASE UNCHANGED vars
  BY <1>29 DEF vars
<1>30. QED
  BY <1>1, <1>2, <1>3, <1>4, <1>5, <1>6, <1>7, <1>7a, <1>8, <1>9, <1>10, <1>11, <1>12, <1>13, <1>14, <1>15, <1>16, <1>17, <1>18, <1>19, <1>20, <1>21, <1>22, <1>23, <1>23a, <1>24, <1>25, <1>26, <1>27, <1>28, <1>29 DEF Next

LEMMA OneShotStep ==
    ASSUME TypeOK, Places, OneShotInv, [Next]_vars
    PROVE  OneShotInv'
<1> USE DEF TypeOK, run, ghosts, HasSession, Sessions, RunningCommands, NoSession, Finish, Ends, Goto, Places, Asks, OneShotInv, Handling, Results, Codes, NoCommand
<1>1. CASE Launch
  BY <1>1 DEF Launch
<1>2. CASE ReadLine
  BY <1>2 DEF ReadLine
<1>3. CASE Prepare
  BY <1>3 DEF Prepare, Overridden
<1>4. CASE Connect
  BY <1>4 DEF Connect
<1>5. CASE CloseOther
  BY <1>5 DEF CloseOther
<1>6. CASE OpenSession
  BY <1>6 DEF OpenSession, NewSession
<1>7. CASE OpenAssociation
  BY <1>7 DEF OpenAssociation
<1>7a. CASE HoldAssociation
  BY <1>7a DEF HoldAssociation
<1>8. CASE Browse
  BY <1>8 DEF Browse
<1>9. CASE Disconnect
  BY <1>9 DEF Disconnect
<1>10. CASE SetMode
  BY <1>10 DEF SetMode, CatAfter
<1>11. CASE SetOrCat
  BY <1>11 DEF SetOrCat
<1>12. CASE NothingToDo
  BY <1>12 DEF NothingToDo
<1>13. CASE EnsureOrCat
  BY <1>13 DEF EnsureOrCat, WithCat
<1>14. CASE ChooseOrCat
  BY <1>14 DEF ChooseOrCat
<1>15. CASE ConfirmWrite
  BY <1>15 DEF ConfirmWrite
<1>16. CASE ConfirmDangerous
  BY <1>16 DEF ConfirmDangerous
<1>17. CASE Answer
  BY <1>17 DEF Answer
<1>18. CASE Send
  BY <1>18 DEF Send
<1>19. CASE Emit
  BY <1>19 DEF Emit
<1>20. CASE CheckConnection
  BY <1>20 DEF CheckConnection
<1>21. CASE Shutdown
  BY <1>21 DEF Shutdown
<1>22. CASE Loss
  BY <1>22 DEF Loss
<1>23. CASE InterruptCommand
  BY <1>23 DEF InterruptCommand
<1>23a. CASE InterruptConnect
  BY <1>23a DEF InterruptConnect
<1>24. CASE InterruptSwitch
  BY <1>24 DEF InterruptSwitch
<1>25. CASE InterruptEmit
  BY <1>25 DEF InterruptEmit
<1>26. CASE InterruptOneShot
  BY <1>26 DEF InterruptOneShot
<1>27. CASE InterruptShell
  BY <1>27 DEF InterruptShell
<1>28. CASE Ended
  BY <1>28 DEF Ended, vars
<1>29. CASE UNCHANGED vars
  BY <1>29 DEF vars
<1>30. QED
  BY <1>1, <1>2, <1>3, <1>4, <1>5, <1>6, <1>7, <1>7a, <1>8, <1>9, <1>10, <1>11, <1>12, <1>13, <1>14, <1>15, <1>16, <1>17, <1>18, <1>19, <1>20, <1>21, <1>22, <1>23, <1>23a, <1>24, <1>25, <1>26, <1>27, <1>28, <1>29 DEF Next

LEMMA ConsentStep ==
    ASSUME TypeOK, Places, AskInv, AskInv', ConsentIsTheOperators, [Next]_vars
    PROVE  ConsentIsTheOperators'
<1> USE DEF TypeOK, run, ghosts, HasSession, Sessions, RunningCommands, Finish, Ends, Goto, Places, ConsentIsTheOperators, AskInv, Ui, Yes, Json, Line, Options, NeedsSession, Asks
<1>1. CASE Launch
  BY <1>1 DEF Launch
<1>2. CASE ReadLine
  BY <1>2 DEF ReadLine
<1>3. CASE Prepare
  BY <1>3 DEF Prepare, Overridden
<1>4. CASE Connect
  BY <1>4 DEF Connect
<1>5. CASE CloseOther
  BY <1>5 DEF CloseOther
<1>6. CASE OpenSession
  BY <1>6 DEF OpenSession, NewSession
<1>7. CASE OpenAssociation
  BY <1>7 DEF OpenAssociation
<1>7a. CASE HoldAssociation
  BY <1>7a DEF HoldAssociation
<1>8. CASE Browse
  BY <1>8 DEF Browse
<1>9. CASE Disconnect
  BY <1>9 DEF Disconnect
<1>10. CASE SetMode
  BY <1>10 DEF SetMode, CatAfter
<1>11. CASE SetOrCat
  BY <1>11 DEF SetOrCat
<1>12. CASE NothingToDo
  BY <1>12 DEF NothingToDo
<1>13. CASE EnsureOrCat
  BY <1>13 DEF EnsureOrCat, WithCat
<1>14. CASE ChooseOrCat
  BY <1>14 DEF ChooseOrCat
<1>15. CASE ConfirmWrite
  BY <1>15 DEF ConfirmWrite
<1>16. CASE ConfirmDangerous
  BY <1>16 DEF ConfirmDangerous
<1>17. CASE Answer
  BY <1>17 DEF Answer
<1>18. CASE Send
  BY <1>18 DEF Send
<1>19. CASE Emit
  BY <1>19 DEF Emit
<1>20. CASE CheckConnection
  BY <1>20 DEF CheckConnection
<1>21. CASE Shutdown
  BY <1>21 DEF Shutdown
<1>22. CASE Loss
  BY <1>22 DEF Loss
<1>23. CASE InterruptCommand
  BY <1>23 DEF InterruptCommand
<1>23a. CASE InterruptConnect
  BY <1>23a DEF InterruptConnect
<1>24. CASE InterruptSwitch
  BY <1>24 DEF InterruptSwitch
<1>25. CASE InterruptEmit
  BY <1>25 DEF InterruptEmit
<1>26. CASE InterruptOneShot
  BY <1>26 DEF InterruptOneShot
<1>27. CASE InterruptShell
  BY <1>27 DEF InterruptShell
<1>28. CASE Ended
  BY <1>28 DEF Ended, vars
<1>29. CASE UNCHANGED vars
  BY <1>29 DEF vars
<1>30. QED
  BY <1>1, <1>2, <1>3, <1>4, <1>5, <1>6, <1>7, <1>7a, <1>8, <1>9, <1>10, <1>11, <1>12, <1>13, <1>14, <1>15, <1>16, <1>17, <1>18, <1>19, <1>20, <1>21, <1>22, <1>23, <1>23a, <1>24, <1>25, <1>26, <1>27, <1>28, <1>29 DEF Next

LEMMA TheLastIsHeld ==
    ASSUME HeldInv, pc = "shutdown", cut = "no"
    PROVE  Without(session) = {}
BY DEF HeldInv, Held, Without

LEMMA ExitStep ==
    ASSUME TypeOK, Places, OneShotInv, HeldInv, ExitTells, [Next]_vars
    PROVE  ExitTells'
<1> USE DEF TypeOK, run, ghosts, HasSession, Sessions, RunningCommands, Finish, Ends, Goto, Places, OneShotInv, ExitTells, Handling, Results, Codes, NoCommand, NoSession
<1>1. CASE Launch
  BY <1>1 DEF Launch
<1>2. CASE ReadLine
  BY <1>2 DEF ReadLine
<1>3. CASE Prepare
  BY <1>3 DEF Prepare, Overridden
<1>4. CASE Connect
  BY <1>4 DEF Connect
<1>5. CASE CloseOther
  BY <1>5 DEF CloseOther
<1>6. CASE OpenSession
  BY <1>6 DEF OpenSession, NewSession
<1>7. CASE OpenAssociation
  BY <1>7 DEF OpenAssociation
<1>7a. CASE HoldAssociation
  BY <1>7a DEF HoldAssociation
<1>8. CASE Browse
  BY <1>8 DEF Browse
<1>9. CASE Disconnect
  BY <1>9 DEF Disconnect
<1>10. CASE SetMode
  BY <1>10 DEF SetMode, CatAfter
<1>11. CASE SetOrCat
  BY <1>11 DEF SetOrCat
<1>12. CASE NothingToDo
  BY <1>12 DEF NothingToDo
<1>13. CASE EnsureOrCat
  BY <1>13 DEF EnsureOrCat, WithCat
<1>14. CASE ChooseOrCat
  BY <1>14 DEF ChooseOrCat
<1>15. CASE ConfirmWrite
  BY <1>15 DEF ConfirmWrite
<1>16. CASE ConfirmDangerous
  BY <1>16 DEF ConfirmDangerous
<1>17. CASE Answer
  BY <1>17 DEF Answer
<1>18. CASE Send
  BY <1>18 DEF Send
<1>19. CASE Emit
  BY <1>19 DEF Emit
<1>20. CASE CheckConnection
  BY <1>20 DEF CheckConnection
<1>21. CASE Shutdown
  <2>1. assoc' = Without(session) /\ UNCHANGED <<run, cmd, struck>> /\ exit' = ExitCode /\ pc = "shutdown"
    BY <1>21 DEF Shutdown
  <2>2. ~shell /\ ~struck => cut = "no"
    BY <2>1
  <2>3. ~shell /\ ~struck => assoc' = {}
    BY <2>1, <2>2, TheLastIsHeld
  <2>4. ~shell => cmd.result \in Results /\ (struck <=> cmd.result \in {"interrupted", "stopped"})
    BY <2>1
  <2>5. QED
    BY <2>1, <2>3, <2>4 DEF ExitCode
<1>22. CASE Loss
  BY <1>22 DEF Loss
<1>23. CASE InterruptCommand
  BY <1>23 DEF InterruptCommand
<1>23a. CASE InterruptConnect
  BY <1>23a DEF InterruptConnect
<1>24. CASE InterruptSwitch
  BY <1>24 DEF InterruptSwitch
<1>25. CASE InterruptEmit
  BY <1>25 DEF InterruptEmit
<1>26. CASE InterruptOneShot
  BY <1>26 DEF InterruptOneShot
<1>27. CASE InterruptShell
  BY <1>27 DEF InterruptShell
<1>28. CASE Ended
  BY <1>28 DEF Ended, vars
<1>29. CASE UNCHANGED vars
  BY <1>29 DEF vars
<1>30. QED
  BY <1>1, <1>2, <1>3, <1>4, <1>5, <1>6, <1>7, <1>7a, <1>8, <1>9, <1>10, <1>11, <1>12, <1>13, <1>14, <1>15, <1>16, <1>17, <1>18, <1>19, <1>20, <1>21, <1>22, <1>23, <1>23a, <1>24, <1>25, <1>26, <1>27, <1>28, <1>29 DEF Next

-----------------------------------------------------------------------------
(* The theorems *)

LEMMA CommandPlaces == Spec => [](TypeOK /\ Places)
<1>1. Init => TypeOK /\ Places
  <2>1. Init => TypeOK
    BY Blank DEF Init, TypeOK
  <2>2. Init => Places
    BY DEF Init, Places, HasSession, NoSession, NoCommand, Asks
  <2>3. QED
    BY <2>1, <2>2
<1>2. TypeOK /\ Places /\ [Next]_vars => (TypeOK /\ Places)'
  BY TypeStep, PlacesStep
<1>3. QED
  BY <1>1, <1>2, PTL DEF Spec

(* Every variable keeps its type, whatever fails. *)
THEOREM CommandLineTypes == Spec => []TypeOK
BY CommandPlaces, PTL

LEMMA AskedInMode == Spec => [](TypeOK /\ Places /\ ModeInv /\ AskInv)
<1>1. Init => ModeInv /\ AskInv
  BY DEF Init, ModeInv, AskInv, HasSession, NoSession, Asks
<1>2. TypeOK /\ Places /\ ModeInv /\ AskInv /\ [Next]_vars => (ModeInv /\ AskInv)'
  BY ModeStep, AskStep
<1>3. QED
  BY <1>1, <1>2, CommandPlaces, PTL DEF Spec

(* The operator's consent is this command's: what the session remembers of an earlier line is overwritten *)
(* before anything is asked or sent.                                                                      *)
THEOREM ConsentIsGiven == Spec => []ConsentIsTheOperators
<1>1. Init => ConsentIsTheOperators
  BY DEF Init, ConsentIsTheOperators
<1>2. TypeOK /\ Places /\ AskInv /\ AskInv' /\ ConsentIsTheOperators /\ [Next]_vars => ConsentIsTheOperators'
  BY ConsentStep
<1>3. QED
  BY <1>1, <1>2, AskedInMode, PTL DEF Spec

(* A control carries an originator the mode in force allows. *)
THEOREM ControlsCarryAnAllowedOrigin == Spec => []OriginAllowed
<1>1. AskInv => OriginAllowed
  BY DEF AskInv, OriginAllowed
<1>2. QED
  BY <1>1, AskedInMode, PTL

LEMMA AssociationsHeld == Spec => []HeldInv
<1>1. Init => HeldInv
  BY DEF Init, HeldInv, Held, Connected, NoSession
<1>2. TypeOK /\ Places /\ HeldInv /\ [Next]_vars => HeldInv'
  BY HeldStep
<1>3. QED
  BY <1>1, <1>2, CommandPlaces, PTL DEF Spec

(* No association is forgotten unless an interrupt has cut an opening or a close short, whatever is lost or *)
(* refused.                                                                                                 *)
THEOREM NothingIsLeftBehind == Spec => []NothingLeftBehind
<1>1. HeldInv => NothingLeftBehind
  BY DEF HeldInv, NothingLeftBehind
<1>2. QED
  BY <1>1, AssociationsHeld, PTL

LEMMA NothingIsCut ==
    ASSUME Faults \cap Cutting = {}, cut = "no", [Next]_vars
    PROVE  cut' = "no"
<1> USE DEF ghosts
<1>1. CASE Launch \/ ReadLine \/ Prepare
  BY <1>1 DEF Launch, ReadLine, Prepare
<1>2. CASE Connect \/ CloseOther \/ OpenSession \/ OpenAssociation \/ HoldAssociation \/ Browse \/ Disconnect
  BY <1>2 DEF Connect, CloseOther, OpenSession, OpenAssociation, HoldAssociation, Browse, Disconnect, Finish, Goto
<1>3. CASE SetMode \/ SetOrCat \/ NothingToDo
  BY <1>3 DEF SetMode, SetOrCat, NothingToDo, Finish
<1>4. CASE EnsureOrCat \/ ChooseOrCat \/ ConfirmWrite \/ ConfirmDangerous \/ Answer \/ Send
  BY <1>4 DEF EnsureOrCat, ChooseOrCat, ConfirmWrite, ConfirmDangerous, Answer, Send, WithCat, Finish, Goto
<1>5. CASE Emit \/ CheckConnection \/ Shutdown \/ Loss
  BY <1>5 DEF Emit, CheckConnection, Shutdown, Loss
<1>6. CASE InterruptCommand \/ InterruptEmit
  BY <1>6 DEF InterruptCommand, InterruptEmit
<1>7. CASE InterruptConnect \/ InterruptSwitch \/ InterruptOneShot \/ InterruptShell
  BY <1>7 DEF InterruptConnect, InterruptSwitch, InterruptOneShot, InterruptShell, Cutting
<1>8. CASE Ended \/ UNCHANGED vars
  BY <1>8 DEF Ended, vars
<1>9. QED
  BY <1>1, <1>2, <1>3, <1>4, <1>5, <1>6, <1>7, <1>8 DEF Next

(* Where no interrupt comes inside an opening, a close or the exit, every open association is in the tool's   *)
(* hands in every state: a Ctrl-C during a command, a loss and a refusal leave none behind.                    *)
THEOREM HeldThroughout == ASSUME Faults \cap Cutting = {} PROVE Spec => []Held
<1>1. Init => cut = "no"
  BY DEF Init
<1>2. cut = "no" /\ [Next]_vars => (cut = "no")'
  BY NothingIsCut
<1>3. HeldInv /\ cut = "no" => Held
  BY DEF HeldInv
<1>4. QED
  BY <1>1, <1>2, <1>3, AssociationsHeld, PTL DEF Spec

(* The exit code of a one-shot run tells what became of its command and of its cleanup. *)
THEOREM ExitCodeTells == Spec => []ExitTells
<1>1. Init => OneShotInv /\ ExitTells
  BY DEF Init, OneShotInv, ExitTells, Handling, NoCommand
<1>2. TypeOK /\ Places /\ OneShotInv /\ HeldInv /\ ExitTells /\ [Next]_vars => (OneShotInv /\ ExitTells)'
  BY OneShotStep, ExitStep
<1>3. QED
  BY <1>1, <1>2, CommandPlaces, AssociationsHeld, PTL DEF Spec

=============================================================================
