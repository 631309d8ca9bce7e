------------------------------ MODULE RcbSession ------------------------------
(***************************************************************************)
(* One operator session with one device, and the report control blocks     *)
(* (RCBs) it borrows there: `subscribe`, `subscribe --stop`, `disconnect`, *)
(* `connect` and leaving the shell (core/session.py, core/reports.py,      *)
(* cli/shell.py, cli/context.py).                                          *)
(*                                                                         *)
(* Whatever the tool changes on an RCB (a reservation, parameters, RptEna) *)
(* it owes the device: an action in the cleanup registry undoes it (RPT-7).*)
(* The module follows one Python thread request by request, against a      *)
(* device that other clients use, an association that may drop between any *)
(* two requests, requests that fail, and Ctrl-C.                           *)
(*                                                                         *)
(* A buffered RCB (BRCB) here has ResvTms: enabling it reserves it for the *)
(* client's address and the reservation outlives the association.          *)
(***************************************************************************)
EXTENDS Naturals, SequencesExt

CONSTANTS
    RCBs,             \* report control blocks of the device
    Buffered,         \* those that are BRCBs with ResvTms
    Others,           \* the other clients of the device
    Me,               \* this tool, as the device's Owner attribute shows it
    NoOne,            \* no client, no RCB, no action
    TakeoverAllowed,  \* does the device let a client write an RCB another one holds?
    Expert,           \* expert mode: `subscribe --takeover` is available
    Faults            \* what may go wrong: a subset of FaultKinds

FaultKinds ==
    { "loss",               \* the association drops between or during requests
      "refused",            \* the device refuses a request for reasons of its own
      "lost-reply",         \* a write takes effect although its request reports an error
      "late-enable",        \* the same for the write RptEna := true
      "ignored-release",    \* ResvTms := 0 is acknowledged and not applied
      "interrupt",          \* Ctrl-C during the subscribe handshake
      "interrupt-in-undo",  \* Ctrl-C while changes are being undone, the shell staying open
      "interrupt-in-exit",  \* Ctrl-C while changes are being undone on the way out
      "loss-in-stop",       \* the association drops inside Subscription.stop, after its connected check
      "resubscribe" }       \* an RCB is subscribed again while the registry still owes it something

ASSUME ConstantsAssumption ==
    /\ Buffered \subseteq RCBs
    /\ Me \notin Others /\ NoOne \notin Others \cup {Me}
    /\ NoOne \notin RCBs /\ NoOne \notin RCBs \X {"resv", "params", "enable"}
    /\ TakeoverAllowed \in BOOLEAN /\ Expert \in BOOLEAN
    /\ Faults \subseteq FaultKinds

VARIABLES
    \* the device
    ena, resv, parm,
    \* the association: "none" (no client object), "up", or "lost" (an object that is not connected)
    link,
    \* the Session: cleanup registry (keys in order), the value a params action restores, subscriptions
    cleanups, orig, subs,
    \* the Python thread: where it is, the running subscribe (RCB, snapshot, wishes) ...
    pc, cur, found, wants,
    \* ... and the running undo: which procedure, next key of stop, action in hand, notes so far
    mode, next, hand, notes,
    \* ghosts: effects recorded in the session log, and shown to the operator, as still in force
    logged, told

devVars == <<ena, resv, parm>>
regVars == <<cleanups, orig>>
jobVars == <<cur, found, wants>>
undoVars == <<mode, next, hand, notes>>
recVars == <<logged, told>>
vars == <<devVars, link, regVars, subs, pc, jobVars, undoVars, recVars>>

Clients == Others \cup {Me}
Kinds == {"resv", "params", "enable"}
Effects == RCBs \X Kinds
ParmValues == {"found", "ours"}   \* the parameters as the session found them, or as it set them
NothingFound == [resv |-> FALSE, parm |-> "found"]
(* seeded bug: the reservation given up before the parameters are restored *)
StopOrderReservationSecond == <<"enable", "resv", "params">>
StopOrder == <<"enable", "params", "resv">>

SubscribePcs == {"reserve", "set_resv", "params", "set_params", "purge", "enable", "set_enable", "after"}
UndoPcs == {"take", "undo", "release", "verify"}
StopModes == {"stop", "failed"}         \* Subscription.stop: asked for, or after a refused enable
RunModes == {"disconnect", "exit"}      \* Session.run_cleanups

(* What this tool has in force on the device. *)
Present == { e \in Effects :
               \/ e[2] = "resv"   /\ resv[e[1]] = Me
               \/ e[2] = "params" /\ parm[e[1]] = "ours"
               \/ e[2] = "enable" /\ ena[e[1]] = Me }

Registered == ToSet(cleanups)
Owed == Registered \cup ({hand} \ {NoOne})

DeviceType ==
    /\ ena \in [RCBs -> Clients \cup {NoOne}]
    /\ resv \in [RCBs -> Clients \cup {NoOne}]
    /\ parm \in [RCBs -> ParmValues]
    /\ link \in {"none", "up", "lost"}

TypeOK ==
    /\ DeviceType
    /\ orig \in [RCBs -> ParmValues]
    /\ cleanups \in Seq(Effects)
    /\ subs \subseteq RCBs
    /\ pc \in SubscribePcs \cup UndoPcs \cup {"prompt", "boundary", "showing", "exited"}
    /\ cur \in RCBs \cup {NoOne}
    /\ found \in [resv : BOOLEAN, parm : ParmValues]
    /\ wants \in BOOLEAN
    /\ mode \in StopModes \cup RunModes \cup {"idle"}
    /\ next \in 1..4
    /\ hand \in Effects \cup {NoOne}
    /\ notes \subseteq Effects
    /\ logged \subseteq Effects
    /\ told \subseteq Effects

Init ==
    /\ ena = [r \in RCBs |-> NoOne]
    /\ resv = [r \in RCBs |-> NoOne]
    /\ parm = [r \in RCBs |-> "found"]
    /\ orig = [r \in RCBs |-> "found"]
    /\ link = "none"
    /\ cleanups = <<>>
    /\ subs = {}
    /\ pc = "prompt"
    /\ cur = NoOne /\ found = NothingFound /\ wants = FALSE
    /\ mode = "idle" /\ next = 1 /\ hand = NoOne /\ notes = {}
    /\ logged = {} /\ told = {}

-----------------------------------------------------------------------------
(* The device *)

Free(holder) == holder \in {NoOne, Me} \/ TakeoverAllowed

CanReserve(r) == Free(resv[r]) /\ Free(ena[r])
CanEnable(r) == Free(resv[r]) /\ Free(ena[r])
CanSetParams(r) == ena[r] = NoOne /\ Free(resv[r])
CanDisable(r) == Free(ena[r])
CanUnreserve(r) == Free(resv[r])

(* The association ends: the device disables and, for a URCB, unreserves what it held for the tool. *)
AssociationEnds ==
    /\ ena' = [r \in RCBs |-> IF ena[r] = Me THEN NoOne ELSE ena[r]]
    /\ resv' = [r \in RCBs |-> IF resv[r] = Me /\ r \notin Buffered THEN NoOne ELSE resv[r]]
    /\ UNCHANGED parm

(* How a request over a live association may end. "dropped": the association goes while it is outstanding. *)
Outcomes(can, late) ==
    {o \in {"ok", "late", "refused", "dropped"} :
        \/ o = "ok" /\ can
        \/ o = "late" /\ can /\ late \in Faults
        \/ o = "refused" /\ (~can \/ "refused" \in Faults)
        \/ o = "dropped" /\ "loss" \in Faults }

(* The same for a read: nothing to take effect. *)
Answers == Outcomes(TRUE, "late-enable") \ {"late"}

Failed(o) == o # "ok"

(* The device's side of a write: `apply` if it takes effect, and the fate of the association. *)
Carries(o, apply) ==
    /\ IF o \in {"ok", "late"} THEN apply
       ELSE IF o = "dropped" THEN AssociationEnds ELSE UNCHANGED devVars
    /\ link' = IF o = "dropped" THEN "lost" ELSE link

SetEna(r, c) == ena' = [ena EXCEPT ![r] = c] /\ UNCHANGED <<resv, parm>>
SetResv(r, c) == resv' = [resv EXCEPT ![r] = c] /\ UNCHANGED <<ena, parm>>
SetParm(r, v) == parm' = [parm EXCEPT ![r] = v] /\ UNCHANGED <<ena, resv>>
EnableFor(r, c) ==
    /\ ena' = [ena EXCEPT ![r] = c]
    /\ resv' = IF r \in Buffered THEN [resv EXCEPT ![r] = c] ELSE resv
    /\ UNCHANGED parm

-----------------------------------------------------------------------------
(* The cleanup registry *)

Without(s, e) ==
    IF e \in ToSet(s) THEN RemoveAt(s, CHOOSE i \in DOMAIN s : s[i] = e) ELSE s

(* An effect that is not in force is no longer the subject of an earlier record. *)
StillRecorded(S, e) == IF e \in Present THEN S ELSE S \ {e}

RegisterCleanup(e) ==
    /\ cleanups' = Append(Without(cleanups, e), e)
    /\ logged' = StillRecorded(logged, e)
    /\ told' = StillRecorded(told, e)

DropCleanup(e) == cleanups' = Without(cleanups, e)

(* A procedure is left: its locals are gone, including notes it has not handed on. *)
Forget ==
    /\ cur' = NoOne /\ found' = NothingFound /\ wants' = FALSE
    /\ mode' = "idle" /\ next' = 1 /\ hand' = NoOne /\ notes' = {}

CommandEnds == pc' = "boundary" /\ Forget

-----------------------------------------------------------------------------
(* Commands at the prompt *)

(* `connect` with no client object: it may fail (ConnectError). *)
Connect ==
    /\ pc = "prompt" /\ link = "none"
    /\ link' \in {"up", "none"}
    /\ pc' = "boundary"
    /\ UNCHANGED <<devVars, regVars, subs, jobVars, undoVars, recVars>>

(* seeded bug: the old session is replaced without running its cleanups *)
ReconnectOnly ==
    /\ pc = "prompt" /\ link = "lost"
    /\ link' \in {"up", "none"}
    /\ pc' = "boundary"
    /\ UNCHANGED <<devVars, regVars, subs, jobVars, undoVars, recVars>>

(* `connect` while a lost client object is there: CliContext.connect runs Session.disconnect first, whose     *)
(* run_cleanups skips and logs every action; the notes it returns are not used.                               *)
Reconnect ==
    /\ pc = "prompt" /\ link = "lost"
    /\ logged' = logged \cup Registered
    /\ cleanups' = <<>>
    /\ link' \in {"up", "none"}
    /\ pc' = "boundary"
    /\ UNCHANGED <<devVars, orig, subs, jobVars, undoVars, told>>

(* Any command that needs the association, at a prompt where it is gone: NotConnectedError. *)
CommandWithoutLink ==
    /\ pc = "prompt" /\ link = "lost"
    /\ pc' = "boundary"
    /\ UNCHANGED <<devVars, link, regVars, subs, jobVars, undoVars, recVars>>

(* seeded bug: a lost association is reported and its registry left *)
CheckConnectionOnly ==
    /\ pc = "boundary"
    /\ pc' = "prompt"
    /\ UNCHANGED <<devVars, link, regVars, subs, jobVars, undoVars, recVars>>

(* Between commands the shell looks once whether the association was lost, stops the subscriptions and runs   *)
(* the cleanups: nothing can be undone any more, so every registered effect is noted.                         *)
CheckConnection ==
    /\ pc = "boundary"
    /\ pc' = "prompt"
    /\ IF link = "lost"
       THEN /\ logged' = logged \cup Registered
            /\ told' = told \cup Registered
            /\ cleanups' = <<>>
            /\ subs' = {}
       ELSE UNCHANGED <<cleanups, subs, recVars>>
    /\ UNCHANGED <<devVars, link, orig, jobVars, undoVars>>

FreeInstance(r) == ena[r] = NoOne /\ resv[r] = NoOne

(* `subscribe <rcb>`: read the RCB, take it if it is free, or by a confirmed takeover. *)
Subscribe(r) ==
    /\ pc = "prompt" /\ link = "up"
    /\ FreeInstance(r) \/ Expert
    /\ "resubscribe" \in Faults \/ (r \notin subs /\ \A k \in Kinds : <<r, k>> \notin Registered)
    /\ cur' = r
    /\ found' = [resv |-> resv[r] # NoOne, parm |-> parm[r]]
    /\ wants' \in BOOLEAN
    /\ pc' = "reserve"
    /\ UNCHANGED <<devVars, link, regVars, subs, undoVars, recVars>>

(* `subscribe <rcb>` for an RCB in Session.subscriptions: shows its reports again. *)
Resume(r) ==
    /\ pc = "prompt" /\ link = "up" /\ r \in subs
    /\ cur' = r
    /\ pc' = "showing"
    /\ UNCHANGED <<devVars, link, regVars, subs, found, wants, undoVars, recVars>>

(* `subscribe --stop` *)
StopCommand(r) ==
    /\ pc = "prompt" /\ link = "up" /\ r \in subs
    /\ cur' = r
    /\ mode' = "stop"
    /\ pc' = "take"
    /\ UNCHANGED <<devVars, link, regVars, subs, found, wants, next, hand, notes, recVars>>

(* `disconnect`, and leaving the shell (or the end of a one-shot command). *)
Disconnect ==
    /\ pc = "prompt" /\ link # "none"
    /\ mode' = "disconnect"
    /\ pc' = "take"
    /\ UNCHANGED <<devVars, link, regVars, subs, jobVars, next, hand, notes, recVars>>

Exit ==
    /\ pc = "prompt"
    /\ mode' = "exit"
    /\ pc' = "take"
    /\ UNCHANGED <<devVars, link, regVars, subs, jobVars, next, hand, notes, recVars>>

(* The tool is started again later. *)
NewProcess ==
    /\ pc = "exited"
    /\ pc' = "prompt"
    /\ UNCHANGED <<devVars, link, regVars, subs, jobVars, undoVars, recVars>>

-----------------------------------------------------------------------------
(* reports.subscribe, one action per registration and per request *)

(* seeded bug: nothing is registered for a BRCB, whose reservation enabling makes (version 1.0) *)
RegisterUrcbReservation ==
    /\ pc = "reserve"
    /\ IF cur \notin Buffered /\ ~found.resv
       THEN RegisterCleanup(<<cur, "resv">>) /\ pc' = "set_resv"
       ELSE UNCHANGED <<cleanups, recVars>> /\ pc' = "params"
    /\ UNCHANGED <<devVars, link, orig, subs, jobVars, undoVars>>

(* The reservation is registered first: a URCB found unreserved, and every BRCB with ResvTms. *)
RegisterReservation ==
    /\ pc = "reserve"
    /\ IF cur \in Buffered \/ ~found.resv
       THEN RegisterCleanup(<<cur, "resv">>)
       ELSE UNCHANGED <<cleanups, recVars>>
    /\ pc' = IF cur \notin Buffered /\ ~found.resv THEN "set_resv" ELSE "params"
    /\ UNCHANGED <<devVars, link, orig, subs, jobVars, undoVars>>

SetReservation ==
    /\ pc = "set_resv" /\ link = "up"
    /\ \E o \in Outcomes(CanReserve(cur), "lost-reply") :
        /\ Carries(o, SetResv(cur, Me))
        /\ IF Failed(o) THEN CommandEnds
           ELSE pc' = "params" /\ UNCHANGED <<jobVars, undoVars>>
    /\ UNCHANGED <<regVars, subs, recVars>>

RegisterParams ==
    /\ pc = "params"
    /\ IF wants
       THEN /\ RegisterCleanup(<<cur, "params">>)
            /\ orig' = [orig EXCEPT ![cur] = found.parm]
            /\ pc' = "set_params"
       ELSE /\ pc' = "purge"
            /\ UNCHANGED <<regVars, recVars>>
    /\ UNCHANGED <<devVars, link, subs, jobVars, undoVars>>

(* seeded bug: what the undo restores is read after the write *)
SetParamsThenSnapshot ==
    /\ pc = "set_params" /\ link = "up"
    /\ \E o \in Outcomes(CanSetParams(cur), "lost-reply") :
        /\ Carries(o, SetParm(cur, "ours"))
        /\ IF Failed(o) THEN CommandEnds
           ELSE pc' = "purge" /\ UNCHANGED <<jobVars, undoVars>>
    /\ orig' = [orig EXCEPT ![cur] = parm'[cur]]
    /\ UNCHANGED <<cleanups, subs, recVars>>

SetParams ==
    /\ pc = "set_params" /\ link = "up"
    /\ \E o \in Outcomes(CanSetParams(cur), "lost-reply") :
        /\ Carries(o, SetParm(cur, "ours"))
        /\ IF Failed(o) THEN CommandEnds
           ELSE pc' = "purge" /\ UNCHANGED <<jobVars, undoVars>>
    /\ UNCHANGED <<regVars, subs, recVars>>

(* PurgeBuf of a BRCB, when asked for: nothing to undo, but the request can fail. *)
Purge ==
    /\ pc = "purge"
    /\ \/ /\ pc' = "enable"
          /\ UNCHANGED <<devVars, link, jobVars, undoVars>>
       \/ /\ cur \in Buffered /\ link = "up"
          /\ \E o \in Outcomes(TRUE, "lost-reply") :
              /\ Failed(o)
              /\ Carries(o, UNCHANGED devVars)
              /\ CommandEnds
    /\ UNCHANGED <<regVars, subs, recVars>>

RegisterEnable ==
    /\ pc = "enable"
    /\ RegisterCleanup(<<cur, "enable">>)
    /\ pc' = "set_enable"
    /\ UNCHANGED <<devVars, link, orig, subs, jobVars, undoVars>>

(* RptEna := true. If it is refused the enable action is dropped and Subscription.stop undoes the rest. *)
SetEnable ==
    /\ pc = "set_enable" /\ link = "up"
    /\ \E o \in Outcomes(CanEnable(cur), "late-enable") :
        /\ Carries(o, EnableFor(cur, Me))
        /\ IF Failed(o)
           THEN /\ DropCleanup(<<cur, "enable">>)
                /\ mode' = "failed"
                /\ pc' = "take"
                /\ UNCHANGED subs
           ELSE /\ subs' = subs \cup {cur}
                /\ pc' = "after"
                /\ UNCHANGED <<cleanups, mode>>
    /\ UNCHANGED <<orig, jobVars, next, hand, notes, recVars>>

(* A request of the handshake when the association is already gone: NotConnectedError ends the command. *)
NotConnected ==
    /\ pc \in {"set_resv", "set_params", "purge", "set_enable"} /\ link # "up"
    /\ pc = "purge" => cur \in Buffered
    /\ CommandEnds
    /\ UNCHANGED <<devVars, link, regVars, subs, recVars>>

(* get_rcb after enabling, and the general interrogation: an error ends the command, the RCB stays enabled. *)
AfterEnable ==
    /\ pc = "after"
    /\ \/ /\ pc' = "showing"
          /\ UNCHANGED <<devVars, link, jobVars, undoVars>>
       \/ /\ link # "up"
          /\ CommandEnds
          /\ UNCHANGED <<devVars, link>>
       \/ /\ link = "up"
          /\ \E o \in Answers :
              /\ Failed(o)
              /\ Carries(o, UNCHANGED devVars)
              /\ CommandEnds
    /\ UNCHANGED <<regVars, subs, recVars>>

(* The reports are shown until Ctrl-C, --count, --duration or a lost association; --keep leaves the RCB enabled. *)
StopShowing ==
    /\ pc = "showing"
    /\ mode' = "stop"
    /\ pc' = "take"
    /\ UNCHANGED <<devVars, link, regVars, subs, jobVars, next, hand, notes, recVars>>

KeepSubscription ==
    /\ pc = "showing" /\ link = "up"
    /\ CommandEnds
    /\ UNCHANGED <<devVars, link, regVars, subs, recVars>>

-----------------------------------------------------------------------------
(* Undoing. Subscription.stop takes the keys of its RCB in StopOrder; Session.run_cleanups takes the registry *)
(* from its end. Both remove the action before they try it.                                                   *)

(* seeded bug: stop does not pass over a key that is not registered *)
StopTakeRegisteredOnly ==
    /\ pc = "take" /\ mode \in StopModes /\ next <= Len(StopOrder)
    /\ LET e == <<cur, StopOrder[next]>> IN
        /\ e \in Registered /\ DropCleanup(e) /\ next' = next + 1
        /\ IF link = "up" THEN hand' = e /\ pc' = "undo" /\ UNCHANGED notes
           ELSE notes' = notes \cup {e} /\ UNCHANGED <<pc, hand>>
    /\ UNCHANGED <<devVars, link, orig, subs, jobVars, mode, recVars>>

StopTake ==
    /\ pc = "take" /\ mode \in StopModes /\ next <= Len(StopOrder)
    /\ next' = next + 1
    /\ LET e == <<cur, StopOrder[next]>> IN
        \/ /\ e \notin Registered
           /\ UNCHANGED <<cleanups, pc, hand, notes>>
        \/ /\ e \in Registered /\ link # "up"
           /\ DropCleanup(e)
           /\ notes' = notes \cup {e}
           /\ UNCHANGED <<pc, hand>>
        \/ /\ e \in Registered /\ link = "up"
           /\ DropCleanup(e)
           /\ hand' = e
           /\ pc' = "undo"
           /\ UNCHANGED notes
    /\ UNCHANGED <<devVars, link, orig, subs, jobVars, mode, recVars>>

(* The end of Subscription.stop: the subscription is forgotten and its notes are logged. After a refused enable *)
(* the caller re-raises the error and the notes go nowhere else.                                                *)
StopFinish ==
    /\ pc = "take" /\ mode \in StopModes /\ next > Len(StopOrder)
    /\ subs' = subs \ {cur}
    /\ logged' = logged \cup notes
    /\ told' = IF mode = "stop" THEN told \cup notes ELSE told
    /\ CommandEnds
    /\ UNCHANGED <<devVars, link, regVars>>

RunTake ==
    /\ pc = "take" /\ mode \in RunModes /\ cleanups # <<>>
    /\ LET e == Last(cleanups) IN
        /\ cleanups' = Front(cleanups)
        /\ IF link = "up"
           THEN hand' = e /\ pc' = "undo" /\ UNCHANGED <<notes, logged>>
           ELSE notes' = notes \cup {e} /\ logged' = logged \cup {e} /\ UNCHANGED <<pc, hand>>
    /\ UNCHANGED <<devVars, link, orig, subs, jobVars, mode, next, told>>

(* The registry is empty: release the association. *)
RunFinish ==
    /\ pc = "take" /\ mode \in RunModes /\ cleanups = <<>>
    /\ link' = "none"
    /\ AssociationEnds
    /\ told' = told \cup notes
    /\ pc' = IF mode = "exit" THEN "exited" ELSE "boundary"
    /\ subs' = IF mode = "exit" THEN {} ELSE subs
    /\ Forget
    /\ UNCHANGED <<regVars, logged>>

(* seeded bug: the hand is emptied before the note is written *)
SettleClearedFirst(lingers) ==
    /\ hand' = NoOne
    /\ pc' = "take"
    /\ notes' = IF lingers THEN notes \cup {hand'} ELSE notes
    /\ logged' = IF lingers /\ mode \in RunModes THEN logged \cup {hand'} ELSE logged
    /\ UNCHANGED <<regVars, subs, jobVars, mode, next, told>>

(* The action in hand is done with; `lingers` if a note says that its effect is still in force. *)
Settle(lingers) ==
    /\ hand' = NoOne
    /\ pc' = "take"
    /\ notes' = IF lingers THEN notes \cup {hand} ELSE notes
    /\ logged' = IF lingers /\ mode \in RunModes THEN logged \cup {hand} ELSE logged
    /\ UNCHANGED <<regVars, subs, jobVars, mode, next, told>>

(* seeded bug: the result of an undo request is not looked at *)
UndoWriteUnchecked(can, apply) ==
    \/ link # "up" /\ Settle(TRUE) /\ UNCHANGED <<devVars, link>>
    \/ link = "up" /\ \E o \in Outcomes(can, "lost-reply") : Carries(o, apply) /\ Settle(FALSE)

UndoWrite(can, apply) ==
    \/ /\ link # "up"
       /\ Settle(TRUE)
       /\ UNCHANGED <<devVars, link>>
    \/ /\ link = "up"
       /\ \E o \in Outcomes(can, "lost-reply") :
           /\ Carries(o, apply)
           /\ Settle(Failed(o))

UndoEnable ==
    /\ pc = "undo" /\ hand[2] = "enable"
    /\ UndoWrite(CanDisable(hand[1]), SetEna(hand[1], NoOne))

UndoParams ==
    /\ pc = "undo" /\ hand[2] = "params"
    /\ UndoWrite(CanSetParams(hand[1]), SetParm(hand[1], orig[hand[1]]))

UndoReservation ==
    /\ pc = "undo" /\ hand[2] = "resv" /\ hand[1] \notin Buffered
    /\ UndoWrite(CanUnreserve(hand[1]), SetResv(hand[1], NoOne))

(* seeded bug: the reservation is released whoever holds it *)
ReadReservationAnyOwner ==
    /\ pc = "undo" /\ hand[2] = "resv" /\ hand[1] \in Buffered /\ link = "up"
    /\ \E o \in Answers :
        /\ Carries(o, UNCHANGED devVars)
        /\ IF Failed(o) THEN Settle(TRUE)
           ELSE /\ pc' = IF resv[hand[1]] # NoOne THEN "release" ELSE "verify"
                /\ UNCHANGED <<regVars, subs, jobVars, undoVars, recVars>>

(* A BRCB reservation is read first and left alone unless it is held for this tool's address. *)
ReadReservation ==
    /\ pc = "undo" /\ hand[2] = "resv" /\ hand[1] \in Buffered /\ link = "up"
    /\ \E o \in Answers :
        /\ Carries(o, UNCHANGED devVars)
        /\ IF Failed(o) THEN Settle(TRUE)
           ELSE /\ pc' = IF resv[hand[1]] = Me THEN "release" ELSE "verify"
                /\ UNCHANGED <<regVars, subs, jobVars, undoVars, recVars>>

(* require_client inside that undo raises NotConnectedError: run_cleanups notes it, Subscription.stop does not *)
(* catch it and the command ends there.                                                                       *)
ReservationUnreachable ==
    /\ pc = "undo" /\ hand[2] = "resv" /\ hand[1] \in Buffered /\ link # "up"
    /\ IF mode \in RunModes THEN Settle(TRUE)
       ELSE CommandEnds /\ UNCHANGED <<regVars, subs, recVars>>
    /\ UNCHANGED <<devVars, link>>

Release ==
    /\ pc = "release"
    /\ \/ /\ link # "up"
          /\ Settle(TRUE)
          /\ UNCHANGED <<devVars, link>>
       \/ /\ link = "up"
          /\ \E o \in Outcomes(TRUE, "lost-reply"), ignored \in {FALSE} \cup {"ignored-release" \in Faults} :
              /\ Carries(o, IF ignored THEN UNCHANGED devVars ELSE SetResv(hand[1], NoOne))
              /\ IF Failed(o) THEN Settle(TRUE)
                 ELSE /\ pc' = "verify"
                      /\ UNCHANGED <<regVars, subs, jobVars, undoVars, recVars>>

(* The BRCB is read again: a reservation still held for this tool, or an unreadable RCB, is reported. *)
Verify ==
    /\ pc = "verify"
    /\ \/ /\ link # "up"
          /\ Settle(TRUE)
          /\ UNCHANGED <<devVars, link>>
       \/ /\ link = "up"
          /\ \E o \in Answers :
              /\ Carries(o, UNCHANGED devVars)
              /\ Settle(Failed(o) \/ resv[hand[1]] = Me)

-----------------------------------------------------------------------------
(* Faults, and the other clients *)

Lose ==
    /\ link = "up" /\ "loss" \in Faults
    /\ pc = "undo" /\ mode \in StopModes /\ hand[2] = "resv" /\ hand[1] \in Buffered
           => "loss-in-stop" \in Faults
    /\ link' = "lost"
    /\ AssociationEnds
    /\ UNCHANGED <<regVars, subs, pc, jobVars, undoVars, recVars>>

Interrupt ==
    /\ "interrupt" \in Faults /\ pc \in SubscribePcs
    /\ CommandEnds
    /\ UNCHANGED <<devVars, link, regVars, subs, recVars>>

InterruptUndo ==
    /\ "interrupt-in-undo" \in Faults /\ pc \in UndoPcs /\ mode # "exit"
    /\ CommandEnds
    /\ UNCHANGED <<devVars, link, regVars, subs, recVars>>

(* Ctrl-C while the tool is leaving ends the process with whatever the registry still holds. *)
InterruptExit ==
    /\ "interrupt-in-exit" \in Faults /\ pc \in UndoPcs /\ mode = "exit"
    /\ link' = "none"
    /\ AssociationEnds
    /\ cleanups' = <<>> /\ subs' = {}
    /\ pc' = "exited"
    /\ Forget
    /\ UNCHANGED <<orig, recVars>>

OtherTakes(r, c) ==
    /\ ena[r] \in {NoOne, c} \/ TakeoverAllowed
    /\ resv[r] \in {NoOne, c} \/ TakeoverAllowed
    /\ \/ EnableFor(r, c)
       \/ ena[r] = NoOne /\ SetResv(r, c)
    /\ UNCHANGED <<link, regVars, subs, pc, jobVars, undoVars, recVars>>

OtherLeaves(r, c) ==
    /\ ena[r] = c \/ resv[r] = c
    /\ ena' = IF ena[r] = c THEN [ena EXCEPT ![r] = NoOne] ELSE ena
    /\ resv' = IF resv[r] = c THEN [resv EXCEPT ![r] = NoOne] ELSE resv
    /\ UNCHANGED <<parm, link, regVars, subs, pc, jobVars, undoVars, recVars>>

(* ResvTms runs out while the tool has no association. *)
ReservationExpires(r) ==
    /\ link # "up" /\ r \in Buffered /\ resv[r] = Me
    /\ SetResv(r, NoOne)
    /\ UNCHANGED <<link, regVars, subs, pc, jobVars, undoVars, recVars>>

-----------------------------------------------------------------------------
Command ==
    \/ Connect \/ Reconnect \/ CommandWithoutLink \/ Disconnect \/ Exit \/ NewProcess
    \/ \E r \in RCBs : Subscribe(r) \/ Resume(r) \/ StopCommand(r)
    \/ KeepSubscription

Handshake ==
    \/ RegisterReservation \/ SetReservation \/ RegisterParams \/ SetParams \/ Purge
    \/ RegisterEnable \/ SetEnable \/ NotConnected \/ AfterEnable

Undoing ==
    \/ StopTake \/ StopFinish \/ RunTake \/ RunFinish
    \/ UndoEnable \/ UndoParams \/ UndoReservation \/ ReadReservation \/ ReservationUnreachable
    \/ Release \/ Verify

Environment ==
    \/ Lose \/ Interrupt \/ InterruptUndo \/ InterruptExit
    \/ \E r \in RCBs, c \in Others : OtherTakes(r, c) \/ OtherLeaves(r, c)
    \/ \E r \in RCBs : ReservationExpires(r)

Next == Command \/ Handshake \/ StopShowing \/ Undoing \/ CheckConnection \/ Environment

(* Requests time out, so the thread always gets on with a procedure it has begun; the display of reports ends by *)
(* itself only when the association is lost. Operator, device and network owe nothing.                           *)
ThreadStep == Handshake \/ Undoing \/ CheckConnection \/ (link # "up" /\ StopShowing)

Spec == Init /\ [][Next]_vars /\ WF_vars(ThreadStep)

-----------------------------------------------------------------------------
(* Properties *)

(* RPT-7: everything the tool has in force on the device is still owed (in the registry, or in hand), or is on *)
(* record as lingering: in the session log, or in the notes of the procedure that is running.                  *)
NothingUnrecorded == Present \subseteq Owed \cup logged \cup notes

(* The session keeps the ledger of UndoLedger: an effect is owed before it is made, then owed or on record. *)
Ledger == INSTANCE UndoLedger WITH
    inForce <- Present, owed <- Owed, recorded <- logged \cup notes
LedgerSpec == Ledger!Spec

(* The faults against which the registry keeps that promise are the others; the runs about these show how it fails. *)
Harmful == {"late-enable", "interrupt-in-undo", "interrupt-in-exit", "loss-in-stop", "resubscribe"}

(* Why it holds: what the thread is about to do, it has registered; what it forgets, it has recorded. *)
Running ==
    /\ pc \in SubscribePcs \cup {"showing"} \/ mode \in StopModes => cur \in RCBs
    /\ pc \in UndoPcs <=> mode # "idle"
    /\ pc \in UndoPcs \/ notes = {}
    /\ hand \in Effects <=> pc \in UndoPcs \ {"take"}
    /\ pc \in {"release", "verify"} => hand[2] = "resv" /\ hand[1] \in Buffered
RegisteredFirst ==
    /\ pc = "set_resv" \/ (pc \in {"params", "set_params", "purge", "enable", "set_enable"} /\ cur \in Buffered)
           => <<cur, "resv">> \in Registered
    /\ pc = "set_params" => <<cur, "params">> \in Registered
    /\ pc = "set_enable" => <<cur, "enable">> \in Registered
NotesLogged == mode \in RunModes => notes \subseteq logged
EnabledEarlier == pc \in SubscribePcs \ {"after"} /\ ena[cur] = Me => <<cur, "enable">> \in logged
SnapshotCurrent ==
    pc \in {"reserve", "set_resv", "params"} =>
        /\ found.parm = parm[cur]
        /\ parm[cur] = "ours" => <<cur, "params">> \in logged
OwnValueLogged ==
    \A r \in RCBs : <<r, "params">> \in Owed /\ orig[r] = "ours" =>
        parm[r] = "ours" /\ <<r, "params">> \in logged
LoggedBefore == NotesLogged /\ EnabledEarlier /\ SnapshotCurrent /\ OwnValueLogged
Reachable == pc = "undo" /\ mode \in StopModes /\ hand[2] = "resv" /\ hand[1] \in Buffered => link = "up"
IInv == TypeOK /\ NothingUnrecorded /\ Running /\ RegisteredFirst /\ LoggedBefore /\ Reachable

(* Stronger: at the prompt, and after leaving, the operator has been shown what lingers. *)
NothingUntold == pc \in {"prompt", "exited"} => Present \subseteq Registered \cup told

(* An RCB is undone from the outside in: never parameters while its RptEna is still to be undone, never the *)
(* reservation while anything else of it is (reports.py: "undone last, after RptEna").                      *)
Rank == [resv |-> 1, params |-> 2, enable |-> 3]
UndoneInOrder ==
    hand # NoOne => \A e \in Registered : e[1] = hand[1] => Rank[e[2]] < Rank[hand[2]]

(* Why: the handshake registers in the order of Rank, the registry keeps it, and stop goes through it backwards. *)
Ranked(s) == \A i, j \in 1..Len(s) : i < j /\ s[i][1] = s[j][1] => Rank[s[i][2]] < Rank[s[j][2]]
RegistryRanked == Ranked(cleanups)
RankAhead ==
    [reserve |-> 1, set_resv |-> 2, params |-> 2, set_params |-> 3, purge |-> 3, enable |-> 3, set_enable |-> 4]
HandshakeAhead == pc \in DOMAIN RankAhead => \A e \in Registered : e[1] = cur => Rank[e[2]] < RankAhead[pc]
StopAhead ==
    /\ mode \notin StopModes => next = 1
    /\ mode \in StopModes => \A e \in Registered : e[1] = cur => Rank[e[2]] <= 4 - next
OrderInv == RegistryRanked /\ HandshakeAhead /\ StopAhead /\ UndoneInOrder

(* Parameters whose undo ends without a note are, on the device, those it had before the tool first set them. The  *)
(* tool's own stay only where the record of an earlier subscription says that they were left behind.              *)
RestoresWhatItFound ==
    [][\A r \in RCBs :
         hand = <<r, "params">> /\ pc' = "take" /\ hand \notin notes' =>
             parm'[r] = "found" \/ hand \in logged]_vars

(* A BRCB reservation that another client holds is not released by the tool's cleanup. *)
ReleasesOnlyItsOwn ==
    [][pc = "release" /\ pc' # "release" =>
         \A r \in Buffered : resv[r] \in Others => resv'[r] = resv[r]]_vars

(* Why: from the moment the owner is read as the tool until the answer to the release, nobody else can take it. *)
ReleaseOwned == pc = "release" /\ link = "up" => resv[hand[1]] = Me

(* Undo actions hold the client object they were made with: a new association starts with an empty registry. *)
NewAssociationOwesNothing == [][link # "up" /\ link' = "up" => cleanups' = <<>>]_vars

(* Why: with no client object there is no procedure but leaving, and nothing in the registry. *)
NothingWithoutClient ==
    link = "none" =>
        /\ cleanups = <<>>
        /\ pc \in {"prompt", "boundary", "exited"} \/ (pc = "take" /\ mode = "exit")

(* A loss of the association during a command always ends, by the time the operator is asked again, with nothing *)
(* left in the registry: no action waits for an association that will not come back.                             *)
LossIsSettled == (link = "lost" /\ pc # "prompt") ~> (cleanups = <<>> /\ pc \in {"prompt", "exited"})

(* Every undo procedure comes to its end. *)
UndoingEnds == (pc \in UndoPcs) ~> (pc \in {"boundary", "exited"})
=============================================================================
