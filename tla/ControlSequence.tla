---------------------------- MODULE ControlSequence ----------------------------
(***************************************************************************)
(* The controls of one session: `operate`, `select`, `cancel` and          *)
(* `authority-probe` (core/controls.py), with the control objects of the   *)
(* MMS adapter (mms_protocol/adapter/client.py) that keep the ctlNum, the  *)
(* origin and the CommandTerminations that have arrived.                   *)
(*                                                                         *)
(* Two threads of the tool take part: the command, request by request, and *)
(* the connection thread, which records a CommandTermination and stores    *)
(* the LastApplError of a negative one in two steps, in either's time.     *)
(* The device may let another client select, drop a selection (sboTimeout),*)
(* refuse, and execute an operation of enhanced security in its own time.  *)
(*                                                                         *)
(* Values are left out: what the device makes of a ctlVal is its free      *)
(* choice to refuse. Reads (the plan, stVal) change nothing and appear     *)
(* only where their failure does.                                          *)
(***************************************************************************)
EXTENDS Naturals, SequencesExt

CONSTANTS
    Objects,    \* controllable data objects
    Model,      \* their ctlModel, 1..4
    Cats,       \* originator categories in use
    ProbeCats,  \* those authority-probe tries, in order
    Modulus,    \* of the ctlNum: 256 in the code
    Nothing,    \* no object, no selection, no error, no operation
    Faults      \* what may go wrong: a subset of FaultKinds

FaultKinds ==
    { "loss",              \* the association drops
      "loss-in-probe",     \* ... during authority-probe
      "loss-in-readback",  \* ... between `session.connected` and the read of stVal
      "lost-reply",        \* a select takes effect although the request reports an error
      "cancel-refused",    \* the device refuses to cancel a selection of this tool
      "slow-termination",  \* an operation takes longer than the tool waits
      "slow-error",        \* a LastApplError is stored after the grace time
      "wrap",              \* the ctlNum wraps: more than Modulus - 1 requests on one object
      "touch-selected",    \* `select` or `authority-probe` of an object the tool has selected
      "interrupt" }        \* Ctrl-C during a command

Nums == 0 .. Modulus - 1

ASSUME ConstantsAssumption ==
    /\ Model \in [Objects -> 1 .. 4]
    /\ ProbeCats \in Seq(Cats) /\ ProbeCats # <<>>
    /\ Modulus \in Nat /\ Len(ProbeCats) < Modulus
    /\ Nothing \notin Objects \cup Cats \cup Nums
    /\ Faults \subseteq FaultKinds

VARIABLES
    \* the device: who holds the selection of an object, and the operation it executes for this tool
    sel, exec,
    \* the association, and the CommandTerminations on their way
    link, wire,
    \* the control objects: ctlNum, configured origin, LastApplError, one not stored yet, terminations recorded
    num, origin, appl, trailing, arrived,
    \* the session: origin each remembered selection was made with
    selected,
    \* the running command: where it is, its object, LastApplError before the operate, termination in hand, outcome
    pc, obj, applBefore, took, outcome,
    \* authority-probe: objects to come, index of the orCat
    todo, index,
    \* ghosts: requests of this command not logged yet; selections the operator was told remain
    unlogged, told

deviceVars == <<sel, exec>>
ctlVars == <<num, origin, appl, trailing, arrived>>
callVars == <<obj, applBefore, took, outcome>>
probeVars == <<todo, index>>
ghostVars == <<unlogged, told>>
vars == <<deviceVars, link, wire, ctlVars, selected, pc, callVars, probeVars, ghostVars>>

NeedsSelect(o) == Model[o] \in {2, 4}
Enhanced(o) == Model[o] \in {3, 4}

Operations == [of : {"this", "earlier"}, ctlNum : Nums]
Terminations == [of : {"this", "earlier"}, ctlNum : Nums, positive : BOOLEAN]
Requests == {"select", "operate", "cancel"}
OperatePcs == {"op_select", "op_operate", "op_sent", "op_wait", "op_judge", "op_grace", "op_finish", "op_readback"}
ProbePcs == {"probe_next", "probe_select", "probe_cancel"}
Pcs == OperatePcs \cup ProbePcs \cup {"prompt", "sel_select", "sel_store", "can_cancel", "can_store"}

TypeOK ==
    /\ sel \in [Objects -> {"free", "mine", "other"}]
    /\ exec \in [Objects -> Operations \cup {Nothing}]
    /\ link \in {"up", "lost"}
    /\ wire \in [Objects -> Seq(Terminations)]
    /\ num \in [Objects -> Nums]
    /\ origin \in [Objects -> Cats \cup {Nothing}]
    /\ appl \in [Objects -> Nums \cup {Nothing}]
    /\ trailing \in [Objects -> Nums \cup {Nothing}]
    /\ arrived \in [Objects -> Seq(Terminations)]
    /\ selected \in [Objects -> Cats \cup {Nothing}]
    /\ pc \in Pcs
    /\ obj \in Objects \cup {Nothing}
    /\ applBefore \in Nums \cup {Nothing}
    /\ took \in Terminations \cup {Nothing}
    /\ outcome \in {"none", "ok", "failed", "negative", "timeout"}
    /\ todo \subseteq Objects
    /\ index \in 1 .. Len(ProbeCats) + 1
    /\ unlogged \subseteq Requests
    /\ told \subseteq Objects

All(v) == [o \in Objects |-> v]

Idle == obj = Nothing /\ applBefore = Nothing /\ took = Nothing /\ outcome = "none" /\ todo = {} /\ index = 1

Init ==
    /\ sel = All("free") /\ exec = All(Nothing)
    /\ link = "up" /\ wire = All(<<>>)
    /\ num = All(0) /\ origin = All(Nothing) /\ appl = All(Nothing) /\ trailing = All(Nothing) /\ arrived = All(<<>>)
    /\ selected = All(Nothing)
    /\ pc = "prompt" /\ Idle
    /\ unlogged = {} /\ told = {}

-----------------------------------------------------------------------------
(* Requests *)

(* seeded bug: the ctlNum does not wrap *)
BumpedOnly(o) == num[o] + 1

Bumped(o) == (num[o] + 1) % Modulus

(* Bound: without "wrap" a command starts only if the ctlNum will not come round in it. *)
RoomFor(o) == "wrap" \in Faults \/ num[o] + Len(ProbeCats) < Modulus

(* What a select may come to: "lost" took effect and is reported as failed. *)
SelectResults(o) ==
    {r \in {"ok", "lost", "refused"} :
        \/ r = "refused"
        \/ /\ link = "up" /\ sel[o] = "free" /\ exec[o] = Nothing
           /\ r = "lost" => "lost-reply" \in Faults}

(* select / select_with_value: ctlNum + 1; a refused SelectWithValue comes with a LastApplError, a refused select *)
(* with an empty value only.                                                                                     *)
SelectRequest(o, result) ==
    /\ num' = [num EXCEPT ![o] = Bumped(o)]
    /\ unlogged' = unlogged \cup {"select"}
    /\ sel' = IF result = "refused" THEN sel ELSE [sel EXCEPT ![o] = "mine"]
    /\ told' = IF result = "refused" THEN told ELSE told \ {o}
    /\ appl' = IF result = "refused" /\ Model[o] = 4 /\ link = "up" THEN [appl EXCEPT ![o] = Bumped(o)] ELSE appl
    /\ UNCHANGED <<exec, link, wire, trailing, arrived>>

(* cancel: the ctlNum stays. The device gives up the selection, or refuses with a LastApplError. *)
CancelRequest(o, accepted) ==
    /\ unlogged' = unlogged \cup {"cancel"}
    /\ accepted => link = "up" /\ sel[o] = "mine"
    /\ ~accepted => link # "up" \/ sel[o] # "mine" \/ "cancel-refused" \in Faults
    /\ sel' = IF accepted THEN [sel EXCEPT ![o] = "free"] ELSE sel
    /\ appl' = IF ~accepted /\ link = "up" THEN [appl EXCEPT ![o] = num[o]] ELSE appl
    /\ told' = IF ~accepted /\ sel[o] = "mine" THEN told \cup {o} ELSE told
    /\ UNCHANGED <<exec, link, wire, num, origin, trailing, arrived>>

(* A command is over: its locals are gone. What it has not logged stays unlogged. *)
Return ==
    /\ pc' = "prompt"
    /\ obj' = Nothing /\ applBefore' = Nothing /\ took' = Nothing /\ outcome' = "none"
    /\ todo' = {} /\ index' = 1

Logged == unlogged' = {}

-----------------------------------------------------------------------------
(* `operate` *)

Start(o, where) ==
    /\ pc = "prompt" /\ link = "up" /\ RoomFor(o)
    /\ obj' = o
    /\ pc' = where
    /\ UNCHANGED <<deviceVars, link, wire, num, appl, trailing, arrived, applBefore, took, outcome, probeVars, ghostVars>>

(* seeded bug: the remembered selection is not looked at (version 1.0) *)
StartOperateSelecting(o, c) ==
    /\ Start(o, IF NeedsSelect(o) THEN "op_select" ELSE "op_operate")
    /\ origin' = [origin EXCEPT ![o] = c]
    /\ UNCHANGED selected

(* Confirmed: the origin is configured, a remembered selection is taken, and the ctlModel decides where to begin. *)
StartOperate(o, c) ==
    /\ Start(o, IF NeedsSelect(o) /\ selected[o] = Nothing THEN "op_select" ELSE "op_operate")
    /\ origin' = [origin EXCEPT ![o] = c]
    /\ selected' = IF NeedsSelect(o) THEN [selected EXCEPT ![o] = Nothing] ELSE selected

OperateSelects ==
    /\ pc = "op_select"
    /\ \E result \in SelectResults(obj) :
        /\ SelectRequest(obj, result)
        /\ pc' = IF result = "ok" THEN "op_operate" ELSE "op_finish"
        /\ outcome' = IF result = "ok" THEN outcome ELSE "failed"
    /\ UNCHANGED <<origin, selected, obj, applBefore, took, probeVars>>

(* Before an operate: terminations recorded so far are cleared, LastApplError is noted. *)
PrepareOperate ==
    /\ pc = "op_operate"
    /\ num' = IF NeedsSelect(obj) THEN num ELSE [num EXCEPT ![obj] = Bumped(obj)]
    /\ arrived' = [arrived EXCEPT ![obj] = <<>>]
    /\ exec' = [exec EXCEPT ![obj] = IF @ = Nothing THEN @ ELSE [@ EXCEPT !.of = "earlier"]]
    /\ wire' = [wire EXCEPT ![obj] = [i \in DOMAIN @ |-> [@[i] EXCEPT !.of = "earlier"]]]
    /\ applBefore' = appl[obj]
    /\ pc' = "op_sent"
    /\ UNCHANGED <<sel, link, origin, appl, trailing, selected, obj, took, outcome, probeVars, ghostVars>>

(* The device answers the operate: what it sent before has been delivered by then. It refuses while it executes *)
(* another, without a selection where one is needed, or for reasons of its own; the selection is used up.       *)
OperateAnswered ==
    /\ pc = "op_sent" /\ link = "up" /\ wire[obj] = <<>>
    /\ \/ /\ exec[obj] = Nothing /\ (NeedsSelect(obj) => sel[obj] = "mine")
          /\ exec' = [exec EXCEPT ![obj] =
                        IF Enhanced(obj) THEN [of |-> "this", ctlNum |-> num[obj]] ELSE Nothing]
          /\ pc' = IF Enhanced(obj) THEN "op_wait" ELSE "op_finish"
          /\ outcome' = IF Enhanced(obj) THEN outcome ELSE "ok"
          /\ UNCHANGED appl
       \/ /\ pc' = "op_finish"
          /\ outcome' = "failed"
          /\ appl' = [appl EXCEPT ![obj] = num[obj]]
          /\ UNCHANGED exec
    /\ sel' = IF NeedsSelect(obj) /\ sel[obj] = "mine" THEN [sel EXCEPT ![obj] = "free"] ELSE sel
    /\ unlogged' = unlogged \cup {"operate"}
    /\ UNCHANGED <<link, wire, num, origin, trailing, arrived, selected, obj, applBefore, took, probeVars, told>>

OperateUnanswered ==
    /\ pc = "op_sent" /\ link # "up"
    /\ pc' = "op_finish"
    /\ outcome' = "failed"
    /\ unlogged' = unlogged \cup {"operate"}
    /\ UNCHANGED <<deviceVars, link, wire, ctlVars, selected, obj, applBefore, took, probeVars, told>>

-----------------------------------------------------------------------------
(* wait_termination *)

TakeTermination ==
    /\ pc = "op_wait" /\ arrived[obj] # <<>>
    /\ took' = Head(arrived[obj])
    /\ arrived' = [arrived EXCEPT ![obj] = Tail(@)]
    /\ pc' = "op_judge"
    /\ UNCHANGED <<deviceVars, link, wire, num, origin, appl, trailing, selected, obj, applBefore, outcome, probeVars, ghostVars>>

(* seeded bug: only a lost association ends the wait *)
WaitEndsOnLoss ==
    /\ pc = "op_wait" /\ arrived[obj] = <<>> /\ link # "up"
    /\ outcome' = "timeout"
    /\ pc' = "op_finish"
    /\ UNCHANGED <<deviceVars, link, wire, ctlVars, selected, obj, applBefore, took, probeVars, ghostVars>>

WaitTimesOut ==
    /\ pc = "op_wait" /\ arrived[obj] = <<>>
    /\ "slow-termination" \in Faults \/ link # "up"
    /\ outcome' = "timeout"
    /\ pc' = "op_finish"
    /\ UNCHANGED <<deviceVars, link, wire, ctlVars, selected, obj, applBefore, took, probeVars, ghostVars>>

Verdict == IF appl[obj] # applBefore THEN "negative" ELSE "ok"

(* seeded bug: no grace time *)
JudgeAtOnce ==
    /\ pc = "op_judge"
    /\ pc' = "op_finish"
    /\ outcome' = Verdict
    /\ UNCHANGED <<deviceVars, link, wire, ctlVars, selected, obj, applBefore, took, probeVars, ghostVars>>

(* A LastApplError that has changed since the operate makes it negative at once; else the tool waits 0.15 s more *)
(* for one that is still to be stored.                                                                          *)
Judge ==
    /\ pc = "op_judge"
    /\ IF Verdict = "negative" THEN pc' = "op_finish" /\ outcome' = Verdict
       ELSE pc' = "op_grace" /\ UNCHANGED outcome
    /\ UNCHANGED <<deviceVars, link, wire, ctlVars, selected, obj, applBefore, took, probeVars, ghostVars>>

JudgeAfterGrace ==
    /\ pc = "op_grace" /\ (trailing[obj] = Nothing \/ "slow-error" \in Faults)
    /\ outcome' = Verdict
    /\ pc' = "op_finish"
    /\ UNCHANGED <<deviceVars, link, wire, ctlVars, selected, obj, applBefore, took, probeVars, ghostVars>>

(* seeded bug: a refused control is not logged *)
FinishOkOnly ==
    /\ pc = "op_finish"
    /\ IF outcome = "ok" THEN pc' = "op_readback" /\ UNCHANGED <<callVars, probeVars>> ELSE Return
    /\ UNCHANGED <<deviceVars, link, wire, ctlVars, selected, ghostVars>>

(* _finish: stVal is read back while connected, then the control is logged. *)
Finish ==
    /\ pc = "op_finish"
    /\ \/ /\ link = "up"
          /\ pc' = "op_readback"
          /\ UNCHANGED <<callVars, probeVars, unlogged>>
       \/ /\ link # "up"
          /\ Logged
          /\ Return
    /\ UNCHANGED <<deviceVars, link, wire, ctlVars, selected, told>>

(* If the association has gone since `session.connected` was asked, NotConnectedError leaves execute from here. *)
ReadBack ==
    /\ pc = "op_readback"
    /\ IF link = "up" THEN Logged ELSE UNCHANGED unlogged
    /\ Return
    /\ UNCHANGED <<deviceVars, link, wire, ctlVars, selected, told>>

-----------------------------------------------------------------------------
(* `select` and `cancel` *)

StartSelect(o, c) ==
    /\ NeedsSelect(o)
    /\ selected[o] = Nothing \/ "touch-selected" \in Faults
    /\ Start(o, "sel_select")
    /\ origin' = [origin EXCEPT ![o] = c]
    /\ UNCHANGED selected

SelectOnly ==
    /\ pc = "sel_select"
    /\ \E result \in SelectResults(obj) :
        /\ SelectRequest(obj, result)
        /\ outcome' = IF result = "ok" THEN "ok" ELSE "failed"
    /\ pc' = "sel_store"
    /\ UNCHANGED <<origin, selected, obj, applBefore, took, probeVars>>

(* seeded bug: only SBO with normal security is remembered *)
StoreSelectionNormalOnly ==
    /\ pc = "sel_store"
    /\ selected' = IF outcome = "ok" /\ Model[obj] = 2 THEN [selected EXCEPT ![obj] = origin[obj]] ELSE selected
    /\ Logged
    /\ Return
    /\ UNCHANGED <<deviceVars, link, wire, ctlVars, told>>

StoreSelection ==
    /\ pc = "sel_store"
    /\ selected' = IF outcome = "ok" THEN [selected EXCEPT ![obj] = origin[obj]] ELSE selected
    /\ Logged
    /\ Return
    /\ UNCHANGED <<deviceVars, link, wire, ctlVars, told>>

(* seeded bug: a cancel always carries the origin of its own command *)
StartCancelConfiguring(o, c) ==
    /\ Start(o, "can_cancel")
    /\ origin' = [origin EXCEPT ![o] = c]
    /\ UNCHANGED selected

(* A cancel of a selection this session made keeps the origin configured last; any other configures its own. *)
StartCancel(o, c) ==
    /\ Start(o, "can_cancel")
    /\ origin' = IF selected[o] = Nothing THEN [origin EXCEPT ![o] = c] ELSE origin
    /\ UNCHANGED selected

Cancel ==
    /\ pc = "can_cancel"
    /\ \E accepted \in BOOLEAN : CancelRequest(obj, accepted)
    /\ pc' = "can_store"
    /\ UNCHANGED <<selected, callVars, probeVars>>

(* The remembered selection is forgotten whatever the device answered. *)
ForgetSelection ==
    /\ pc = "can_store"
    /\ selected' = [selected EXCEPT ![obj] = Nothing]
    /\ Logged
    /\ Return
    /\ UNCHANGED <<deviceVars, link, wire, ctlVars, told>>

-----------------------------------------------------------------------------
(* `authority-probe`: every orCat is selected and cancelled on every object; one log entry at the end *)

StartProbe(S) ==
    /\ pc = "prompt" /\ link = "up" /\ \A o \in S : RoomFor(o)
    /\ "touch-selected" \in Faults \/ \A o \in S : selected[o] = Nothing
    /\ todo' = S
    /\ pc' = "probe_next"
    /\ UNCHANGED <<deviceVars, link, wire, ctlVars, selected, callVars, index, ghostVars>>

(* The next object: its Loc, Beh and ctlModel are read first, and NotConnectedError is not caught. An object is *)
(* passed over without a select step, or when its ctlModel or control object is not to be had.                  *)
NextObject ==
    /\ pc = "probe_next"
    /\ \/ /\ todo = {}
          /\ Logged
          /\ Return
       \/ /\ todo # {} /\ link # "up"
          /\ UNCHANGED unlogged
          /\ Return
       \/ /\ link = "up"
          /\ UNCHANGED unlogged
          /\ \E o \in todo :
              /\ todo' = todo \ {o}
              /\ \/ NeedsSelect(o) /\ obj' = o /\ pc' = "probe_select"
                 \/ UNCHANGED <<obj, pc>>
          /\ index' = 1
          /\ UNCHANGED <<applBefore, took, outcome>>
    /\ UNCHANGED <<deviceVars, link, wire, ctlVars, selected, told>>

NextCat ==
    /\ index' = index + 1
    /\ pc' = IF index = Len(ProbeCats) THEN "probe_next" ELSE "probe_select"

ProbeSelects ==
    /\ pc = "probe_select"
    /\ origin' = [origin EXCEPT ![obj] = ProbeCats[index]]
    /\ \E result \in SelectResults(obj) :
        /\ SelectRequest(obj, result)
        /\ IF result = "ok" THEN pc' = "probe_cancel" /\ UNCHANGED index ELSE NextCat
    /\ UNCHANGED <<selected, callVars, todo>>

(* A refused cancel leaves the object selected: it is noted, and probing goes on with the next object. *)
ProbeCancels ==
    /\ pc = "probe_cancel"
    /\ \E accepted \in BOOLEAN :
        /\ CancelRequest(obj, accepted)
        /\ IF accepted THEN NextCat ELSE pc' = "probe_next" /\ UNCHANGED index
    /\ UNCHANGED <<selected, callVars, todo>>

-----------------------------------------------------------------------------
(* The device, the connection thread, the network and the operator *)

(* The operation in execution ends: a CommandTermination, with a LastApplError if it is negative. *)
Terminate(o) ==
    /\ exec[o] # Nothing
    /\ \E positive \in BOOLEAN :
        wire' = [wire EXCEPT ![o] = Append(@, [of |-> exec[o].of, ctlNum |-> exec[o].ctlNum, positive |-> positive])]
    /\ exec' = [exec EXCEPT ![o] = Nothing]
    /\ UNCHANGED <<sel, link, ctlVars, selected, pc, callVars, probeVars, ghostVars>>

(* _on_termination records the arrival; libiec61850 may store the LastApplError only afterwards. *)
Deliver(o) ==
    /\ wire[o] # <<>> /\ trailing[o] = Nothing
    /\ wire' = [wire EXCEPT ![o] = Tail(@)]
    /\ arrived' = [arrived EXCEPT ![o] = Append(@, Head(wire[o]))]
    /\ trailing' = IF Head(wire[o]).positive THEN trailing ELSE [trailing EXCEPT ![o] = Head(wire[o]).ctlNum]
    /\ UNCHANGED <<deviceVars, link, num, origin, appl, selected, pc, callVars, probeVars, ghostVars>>

StoreError(o) ==
    /\ trailing[o] # Nothing
    /\ appl' = [appl EXCEPT ![o] = trailing[o]]
    /\ trailing' = [trailing EXCEPT ![o] = Nothing]
    /\ UNCHANGED <<deviceVars, link, wire, num, origin, arrived, selected, pc, callVars, probeVars, ghostVars>>

(* sboTimeout; and the other clients. *)
Expire(o) ==
    /\ sel[o] = "mine"
    /\ sel' = [sel EXCEPT ![o] = "free"]
    /\ UNCHANGED <<exec, link, wire, ctlVars, selected, pc, callVars, probeVars, ghostVars>>

OtherSelects(o) ==
    /\ NeedsSelect(o) /\ sel[o] = "free" /\ exec[o] = Nothing
    /\ sel' = [sel EXCEPT ![o] = "other"]
    /\ UNCHANGED <<exec, link, wire, ctlVars, selected, pc, callVars, probeVars, ghostVars>>

OtherDeselects(o) ==
    /\ sel[o] = "other"
    /\ sel' = [sel EXCEPT ![o] = "free"]
    /\ UNCHANGED <<exec, link, wire, ctlVars, selected, pc, callVars, probeVars, ghostVars>>

(* What the device held for the tool is gone, and the tool hears no more of what it executes. *)
AssociationEnds ==
    /\ sel' = [o \in Objects |-> IF sel[o] = "mine" THEN "free" ELSE sel[o]]
    /\ exec' = All(Nothing)

Lose ==
    /\ link = "up" /\ "loss" \in Faults
    /\ pc \in ProbePcs => "loss-in-probe" \in Faults
    /\ pc = "op_readback" => "loss-in-readback" \in Faults
    /\ link' = "lost"
    /\ AssociationEnds
    /\ wire' = All(<<>>)
    /\ UNCHANGED <<ctlVars, selected, pc, callVars, probeVars, ghostVars>>

(* `connect` after a loss, or `disconnect` and `connect`: the control objects are made anew, and the session *)
(* forgets its selections.                                                                                   *)
NewAssociation ==
    /\ pc = "prompt"
    /\ AssociationEnds
    /\ link' = "up" /\ wire' = All(<<>>)
    /\ num' = All(0) /\ origin' = All(Nothing) /\ appl' = All(Nothing) /\ trailing' = All(Nothing) /\ arrived' = All(<<>>)
    /\ selected' = All(Nothing)
    /\ UNCHANGED <<pc, callVars, probeVars, ghostVars>>

Interrupt ==
    /\ "interrupt" \in Faults /\ pc # "prompt"
    /\ Return
    /\ UNCHANGED <<deviceVars, link, wire, ctlVars, selected, ghostVars>>

-----------------------------------------------------------------------------
Operator ==
    \/ \E o \in Objects, c \in Cats : StartOperate(o, c) \/ StartSelect(o, c) \/ StartCancel(o, c)
    \/ \E S \in SUBSET Objects \ {{}} : StartProbe(S)
    \/ NewAssociation

Operating ==
    \/ OperateSelects \/ PrepareOperate \/ OperateAnswered \/ OperateUnanswered
    \/ TakeTermination \/ WaitTimesOut \/ Judge \/ JudgeAfterGrace \/ Finish \/ ReadBack

Selecting == SelectOnly \/ StoreSelection \/ Cancel \/ ForgetSelection

Probing == NextObject \/ ProbeSelects \/ ProbeCancels

ThreadStep == Operating \/ Selecting \/ Probing

ConnectionStep == \E o \in Objects : Deliver(o) \/ StoreError(o)

Device == \E o \in Objects : Terminate(o) \/ Expire(o) \/ OtherSelects(o) \/ OtherDeselects(o)

Next == Operator \/ ThreadStep \/ ConnectionStep \/ Device \/ Lose \/ Interrupt

(* Requests and waits time out, so the command goes on; the connection thread handles what it has received. *)
Spec == Init /\ [][Next]_vars /\ WF_vars(ThreadStep) /\ WF_vars(ConnectionStep)

-----------------------------------------------------------------------------
(* Properties *)

(* CTL-2: an operate is reported as done, or as failed by a negative CommandTermination, only on the strength of *)
(* the termination of this very operate, and as it was.                                                          *)
VerdictIsTrue ==
    [][outcome = "none" /\ outcome' \in {"ok", "negative"} /\ took # Nothing =>
         took.of = "this" /\ (outcome' = "ok" <=> took.positive)]_vars

(* "A second select of a selected object is refused by the device" (controls.py:483): neither operate nor *)
(* authority-probe ever sends one.                                                                        *)
NoSecondSelect == pc \in {"op_select", "probe_select"} => sel[obj] # "mine"

(* At the prompt the session remembers every selection the device holds for it, or has said that it remains. *)
SelectionsKnown == pc = "prompt" => \A o \in Objects : sel[o] = "mine" => selected[o] # Nothing \/ o \in told

(* CTL-10: every control is logged. Whatever the command sent is in the log when it is over. *)
EveryControlLogged == pc = "prompt" => unlogged = {}

(* The origin belongs to the command (ORG-1, ORG-2): a selection is cancelled with the origin it was made with. *)
CancelCarriesSelectOrigin == pc = "can_cancel" /\ selected[obj] # Nothing => origin[obj] = selected[obj]

-----------------------------------------------------------------------------
(* What is behind them, step by step *)

(* What a command has just selected it still holds: it is about to operate, to cancel, or to remember it. *)
InHand(o) == o = obj /\ (pc \in {"op_operate", "op_sent", "probe_cancel"} \/ (pc = "sel_store" /\ outcome = "ok"))

(* Whatever the device holds for the tool is remembered, announced, or in the hands of the running command. *)
HeldIsKnown ==
    \A o \in Objects : sel[o] = "mine" =>
        NeedsSelect(o) /\ link = "up" /\ (selected[o] # Nothing \/ o \in told \/ InHand(o))

(* A cancel that was refused has been announced; a select is of an object that takes one, with a known origin. *)
RefusalIsTold == pc = "can_store" /\ sel[obj] = "mine" => obj \in told
SelectsWhereNeeded ==
    /\ pc \in {"op_select", "probe_select", "probe_cancel", "sel_select", "sel_store"} => NeedsSelect(obj)
    /\ pc \in {"sel_select", "sel_store"} => origin[obj] # Nothing

KnownInv == HeldIsKnown /\ RefusalIsTold /\ SelectsWhereNeeded

(* What authority-probe goes through is not selected by the session. *)
ProbesUnselected ==
    /\ pc \in ProbePcs => \A o \in todo : selected[o] = Nothing
    /\ pc \in {"probe_select", "probe_cancel"} => selected[obj] = Nothing

(* A remembered selection goes with the origin its object is configured with. *)
OriginInv == \A o \in Objects : selected[o] # Nothing => origin[o] = selected[o] /\ NeedsSelect(o)

(* The two places a command may leave without logging are passed with the association up. *)
LogInv == EveryControlLogged /\ (pc = "op_readback" \/ pc \in ProbePcs => link = "up")

(* The termination of an operate is waited for, then judged. No other operation is under way; an error still to be *)
(* stored outlives the wait only if the association is gone.                                                      *)
Waiting(o) == o = obj /\ pc \in {"op_wait", "op_judge", "op_grace"}

Still(o) == exec[o] = Nothing /\ wire[o] = <<>>

QuietInv ==
    \A o \in Objects :
        /\ ~Waiting(o) \/ link # "up" => Still(o)
        /\ trailing[o] # Nothing => trailing[o] = num[o] /\ (Waiting(o) \/ (link # "up" /\ pc \in {"op_finish", "prompt"}))

(* Room is left for the ctlNums the command has yet to use. *)
RoomInv ==
    /\ pc \in {"op_select", "sel_select"} \/ (pc = "op_operate" /\ ~NeedsSelect(obj)) => num[obj] + 1 < Modulus
    /\ pc \in ProbePcs => \A o \in todo : num[o] + Len(ProbeCats) < Modulus
    /\ pc \in {"probe_select", "probe_cancel"} => obj \notin todo
    /\ pc = "probe_select" => num[obj] + Len(ProbeCats) - index + 1 < Modulus
    /\ pc = "probe_cancel" => num[obj] + Len(ProbeCats) - index < Modulus

(* The ctlNum of the selection an operate is to use, or of the operate just sent. *)
Fresh(o) ==
    \/ selected[o] # Nothing /\ ~(o = obj /\ pc = "can_store")
    \/ o = obj /\ (pc = "op_sent" \/ (pc = "op_operate" /\ NeedsSelect(o)) \/ (pc = "sel_store" /\ outcome = "ok"))

(* No LastApplError carries it yet. *)
NumberInv ==
    /\ \A o \in Objects : appl[o] # Nothing => appl[o] <= num[o]
    /\ \A o \in Objects : Fresh(o) /\ link = "up" => appl[o] # num[o]
    /\ pc \in OperatePcs \cup {"sel_select", "sel_store"} => selected[obj] = Nothing
    /\ pc = "op_sent" => applBefore = appl[obj] /\ arrived[obj] = <<>>

This(positive) == [of |-> "this", ctlNum |-> num[obj], positive |-> positive]

(* The operate waited for is in execution, its termination is on the way, or both are gone with the association. *)
UnderWay ==
    /\ pc = "op_wait" /\ arrived[obj] = <<>> /\ trailing[obj] = Nothing /\ appl[obj] = applBefore
    /\ \/ exec[obj] = [of |-> "this", ctlNum |-> num[obj]] /\ wire[obj] = <<>>
       \/ exec[obj] = Nothing /\ \E positive \in BOOLEAN : wire[obj] = <<This(positive)>>
       \/ Still(obj) /\ link # "up"

(* Its termination is recorded or taken; the LastApplError of a negative one is still to be stored, or stored. *)
Told ==
    /\ Still(obj)
    /\ \E positive \in BOOLEAN :
        /\ IF pc = "op_wait" THEN arrived[obj] = <<This(positive)>> ELSE arrived[obj] = <<>> /\ took = This(positive)
        /\ \/ appl[obj] = applBefore /\ trailing[obj] = (IF positive THEN Nothing ELSE num[obj])
           \/ ~positive /\ appl[obj] = num[obj] /\ trailing[obj] = Nothing

WaitInv ==
    /\ Waiting(obj) => applBefore # num[obj] /\ (UnderWay \/ Told)
    /\ pc \notin {"op_judge", "op_grace", "op_finish", "op_readback"} => took = Nothing

VerdictInv == QuietInv /\ RoomInv /\ NumberInv /\ WaitInv

(* A command comes to its end, whatever the device and the network do. *)
CommandEnds == pc # "prompt" ~> pc = "prompt"
=============================================================================
