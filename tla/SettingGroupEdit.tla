--------------------------- MODULE SettingGroupEdit ---------------------------
(***************************************************************************)
(* `setgroup edit` and `setgroup activate` (core/setgroup.py): the         *)
(* select-edit-confirm sequence of a setting group control block (SGCB)    *)
(* against a device that other clients use, and its entry in the cleanup   *)
(* registry of the session.                                                *)
(*                                                                         *)
(* The device copies a group into an edit buffer (EditSG := n), serves     *)
(* writes to the buffer by the client that holds the edit, and stores the  *)
(* buffer in the group (CnfEdit).  One client edits at a time; an edit     *)
(* ends with EditSG := 0, with the association, or when it expires.        *)
(***************************************************************************)
EXTENDS Naturals, Requests

CONSTANTS
    Groups,     \* the setting groups of the SGCB
    Settings,   \* editable settings (SE attributes) of its logical device
    Values,     \* values of a setting
    Others,     \* other clients
    Me, NoOne

FaultKinds ==
    { "loss",                     \* the association drops
      "refused",                  \* the device refuses a request for reasons of its own
      "lost-reply",               \* EditSG or a value is written although the request reports an error
      "late-confirm",             \* the same for CnfEdit
      "late-activate",            \* the same for ActSG
      "interrupt",                \* Ctrl-C, up to CnfEdit
      "interrupt-after-confirm",  \* Ctrl-C between CnfEdit and the log
      "loss-after-confirm",       \* the association drops between two requests after CnfEdit or ActSG
      "other-activates" }         \* another client changes ActSG while the operator confirms a change

ASSUME GroupsAssumption ==
    /\ Me \notin Others /\ NoOne \notin Others \cup {Me} /\ NoOne \notin Groups /\ NoOne \notin Values
    /\ Faults \subseteq FaultKinds

VARIABLES
    \* the device: values of each group, active group, group being edited, who edits it, edit buffer
    stored, active, editing, editor, buffer,
    \* the association, "up" or "lost", and the registry: is the end of an edit owed?
    link, owed,
    \* the command: where it is, its group and assignments, settings still to write, values found,
    \* has a value been refused, has CnfEdit (or ActSG) been acknowledged, is an exception on its way
    pc, group, wanted, rest, found, failed, confirmed, raising,
    \* ghosts: what the change replaced, is it missing from the log, did EditSG := 0 fail
    replaced, unlogged, stuck

device == <<stored, active, editing, editor, buffer>>
job == <<group, wanted, rest, found>>
ghosts == <<replaced, unlogged, stuck>>
vars == <<device, link, owed, pc, job, failed, confirmed, raising, ghosts>>

Assignments == UNION {[S -> Values] : S \in SUBSET Settings \ {{}}}
EditPcs == {"select", "befores", "confirm", "write", "discard", "commit", "reselect", "verify", "release"}
ActivatePcs == {"activate", "active_log"}

TypeOK ==
    /\ stored \in [Groups -> [Settings -> Values]]
    /\ active \in Groups
    /\ editing \in Groups \cup {NoOne} /\ editor \in Others \cup {Me, NoOne}
    /\ buffer \in [Settings -> Values]
    /\ link \in {"up", "lost"} /\ owed \in BOOLEAN
    /\ pc \in EditPcs \cup ActivatePcs \cup {"prompt", "end", "log"}
    /\ group \in Groups /\ wanted \in Assignments \cup {<<>>} /\ rest \subseteq Settings
    /\ failed \in BOOLEAN /\ confirmed \in BOOLEAN /\ raising \in BOOLEAN
    /\ unlogged \in BOOLEAN /\ stuck \in BOOLEAN

Init ==
    /\ \E v \in Values : stored = [g \in Groups |-> [s \in Settings |-> v]]
    /\ \E g \in Groups : active = g /\ group = g
    /\ editing = NoOne /\ editor = NoOne /\ buffer = [s \in Settings |-> stored[active][s]]
    /\ link = "up" /\ owed = FALSE
    /\ pc = "prompt" /\ wanted = <<>> /\ rest = {} /\ found = <<>>
    /\ failed = FALSE /\ confirmed = FALSE /\ raising = FALSE
    /\ replaced = <<>> /\ unlogged = FALSE /\ stuck = FALSE

-----------------------------------------------------------------------------
(* The device *)

CanSelect == editor \in {NoOne, Me}
CanWrite == editor = Me /\ editing = group

Select ==
    /\ editor' = Me /\ editing' = group /\ buffer' = stored[group]
    /\ UNCHANGED <<stored, active>>
Deselect == editor' = NoOne /\ editing' = NoOne /\ UNCHANGED <<stored, active, buffer>>
Store(keep) ==
    /\ stored' = [stored EXCEPT ![group] = buffer]
    /\ IF keep THEN UNCHANGED <<editor, editing>> ELSE editor' = NoOne /\ editing' = NoOne
    /\ UNCHANGED <<active, buffer>>
AssociationEnds == IF editor = Me THEN Deselect ELSE UNCHANGED device

Carries(o, apply) ==
    /\ IF TakesEffect(o) THEN apply
       ELSE IF o = "dropped" THEN AssociationEnds ELSE UNCHANGED device
    /\ link' = IF o = "dropped" THEN "lost" ELSE link

Up == link = "up"

-----------------------------------------------------------------------------
(* setgroup.edit *)

Idle == group' = group /\ wanted' = <<>> /\ rest' = {} /\ found' = <<>>

(* `setgroup edit`: the undoing of the edit is registered before it begins. *)
Edit(g, w) ==
    /\ pc = "prompt" /\ Up
    /\ pc' = "select"
    /\ owed' = TRUE
    /\ group' = g /\ wanted' = w /\ rest' = DOMAIN w /\ found' = <<>>
    /\ failed' = FALSE /\ confirmed' = FALSE /\ raising' = FALSE
    /\ replaced' = <<>> /\ unlogged' = FALSE /\ stuck' = FALSE
    /\ UNCHANGED <<device, link>>

(* `except ServiceError` (reported in the result) and `except BaseException` (re-raised): both end the edit. *)
ServiceFails == pc' = "end" /\ raising' = FALSE
Raises == pc' = "end" /\ raising' = TRUE

(* A field of the SGCB is written (_write_field): NotConnectedError without a connected client. *)
WriteField(can, late, apply, then) ==
    IF ~Up THEN Raises /\ UNCHANGED <<device, link>>
    ELSE \E o \in Ends(Up, can, late) :
            /\ Carries(o, apply)
            /\ IF o = "ok" THEN pc' = then /\ UNCHANGED raising ELSE ServiceFails

SelectGroup ==
    /\ pc = "select"
    /\ WriteField(CanSelect, "lost-reply", Select, "befores")
    /\ UNCHANGED <<owed, job, failed, confirmed, ghosts>>

(* seeded bug: the values before are those of the active group *)
ReadBeforesActive ==
    /\ pc = "befores"
    /\ \E o \in Ends(Up, TRUE, "none") :
        /\ Carries(o, UNCHANGED device)
        /\ IF o = "ok" THEN pc' = "confirm" /\ UNCHANGED raising /\ found' = [s \in DOMAIN wanted |-> stored[active][s]]
           ELSE ServiceFails /\ UNCHANGED found
    /\ UNCHANGED <<owed, group, wanted, rest, failed, confirmed, ghosts>>

ReadBefores ==
    /\ pc = "befores"
    /\ \E o \in Ends(Up, TRUE, "none") :
        /\ Carries(o, UNCHANGED device)
        /\ IF o = "ok"
           THEN /\ pc' = "confirm" /\ UNCHANGED raising
                /\ found' = [s \in DOMAIN wanted |-> IF CanWrite THEN buffer[s] ELSE NoOne]
           ELSE ServiceFails /\ UNCHANGED found
    /\ UNCHANGED <<owed, group, wanted, rest, failed, confirmed, ghosts>>

Confirm ==
    /\ pc = "confirm"
    /\ \/ pc' = "write" /\ UNCHANGED raising
       \/ Raises
    /\ UNCHANGED <<device, link, owed, job, failed, confirmed, ghosts>>

(* seeded bug: a refused value is reported and the edit confirmed with the others *)
WriteValueTolerant(s) ==
    /\ pc = "write" /\ s \in rest
    /\ rest' = rest \ {s}
    /\ \E o \in Ends(Up, CanWrite, "lost-reply") :
        /\ Carries(o, buffer' = [buffer EXCEPT ![s] = wanted[s]] /\ UNCHANGED <<stored, active, editing, editor>>)
        /\ failed' = (failed \/ o # "ok")
    /\ pc' = IF rest' # {} THEN "write" ELSE "commit"
    /\ UNCHANGED <<owed, group, wanted, found, confirmed, raising, ghosts>>

(* A refused value is remembered and the others are written all the same. *)
WriteValue(s) ==
    /\ pc = "write" /\ s \in rest
    /\ rest' = rest \ {s}
    /\ \E o \in Ends(Up, CanWrite, "lost-reply") :
        /\ Carries(o, buffer' = [buffer EXCEPT ![s] = wanted[s]] /\ UNCHANGED <<stored, active, editing, editor>>)
        /\ failed' = (failed \/ o # "ok")
    /\ pc' = IF rest' # {} THEN "write" ELSE IF failed' THEN "discard" ELSE "commit"
    /\ UNCHANGED <<owed, group, wanted, found, confirmed, raising, ghosts>>

(* seeded bug: EditSG := 0 is tried until the device accepts it *)
ReleaseEditRetrying ==
    /\ pc \in {"discard", "release"}
    /\ \E o \in Ends(Up, CanSelect, "lost-reply") :
        /\ Carries(o, Deselect)
        /\ pc' = IF o = "ok" THEN "log" ELSE pc
    /\ owed' = (owed /\ pc' # "log")
    /\ UNCHANGED <<job, failed, confirmed, raising, ghosts>>

(* EditSG := 0 at the end of the sequence, after a refused value or after verification. *)
ReleaseEdit ==
    /\ pc \in {"discard", "release"}
    /\ WriteField(CanSelect, "lost-reply", Deselect, "log")
    /\ owed' = (owed /\ pc' # "log")
    /\ UNCHANGED <<job, failed, confirmed, ghosts>>

CommitEdit ==
    /\ pc = "commit"
    /\ \E keep \in BOOLEAN : WriteField(CanWrite, "late-confirm", Store(keep), "reselect")
    /\ confirmed' = (pc' = "reselect")
    /\ IF stored' # stored \/ pc' = "reselect"
       THEN unlogged' = TRUE /\ replaced' = [s \in DOMAIN wanted |-> stored[group][s]]
       ELSE UNCHANGED <<unlogged, replaced>>
    /\ UNCHANGED <<owed, job, failed, stuck>>

Reselect ==
    /\ pc = "reselect"
    /\ WriteField(CanSelect, "lost-reply", Select, "verify")
    /\ UNCHANGED <<owed, job, failed, confirmed, ghosts>>

VerifyValues ==
    /\ pc = "verify"
    /\ \E o \in Ends(Up, TRUE, "none") :
        /\ Carries(o, UNCHANGED device)
        /\ IF o = "ok" THEN pc' = "release" /\ UNCHANGED raising ELSE ServiceFails
    /\ UNCHANGED <<owed, job, failed, confirmed, ghosts>>

(* seeded bug (version 1.0): the edit is left to the end of the session *)
EndEditLater ==
    /\ pc = "end"
    /\ pc' = IF raising THEN "prompt" ELSE "log"
    /\ IF raising THEN Idle ELSE UNCHANGED job
    /\ UNCHANGED <<device, link, owed, failed, confirmed, raising, ghosts>>

(* _end_edit: one more EditSG := 0; the registry keeps the action unless that succeeds. *)
EndEdit ==
    /\ pc = "end"
    /\ \E o \in Ends(Up, CanSelect, "lost-reply") :
        /\ Carries(o, Deselect)
        /\ owed' = (owed /\ o # "ok")
        /\ stuck' = (o # "ok")
    /\ pc' = IF raising THEN "prompt" ELSE "log"
    /\ IF raising THEN Idle ELSE UNCHANGED job
    /\ UNCHANGED <<failed, confirmed, raising, replaced, unlogged>>

(* seeded bug: an edit is logged as done only when it was also verified and released *)
LogEditReleased ==
    /\ pc = "log"
    /\ pc' = "prompt"
    /\ unlogged' = (unlogged /\ ~(confirmed /\ ~owed))
    /\ Idle
    /\ UNCHANGED <<device, link, owed, failed, confirmed, raising, replaced, stuck>>

(* _log_edit: every value, ok if CnfEdit was acknowledged. *)
LogEdit ==
    /\ pc = "log"
    /\ pc' = "prompt"
    /\ unlogged' = (unlogged /\ ~confirmed)
    /\ Idle
    /\ UNCHANGED <<device, link, owed, failed, confirmed, raising, replaced, stuck>>

-----------------------------------------------------------------------------
(* setgroup.activate *)

(* seeded bug: groups counted from 0, and the range not checked *)
ActivateByIndex(g) ==
    /\ pc = "prompt" /\ Up
    /\ pc' = "activate"
    /\ group' = g - 1 /\ wanted' = <<>> /\ rest' = {} /\ found' = <<active>>
    /\ failed' = FALSE /\ confirmed' = FALSE /\ raising' = FALSE
    /\ replaced' = <<>> /\ unlogged' = FALSE
    /\ UNCHANGED <<device, link, owed, stuck>>

Activate(g) ==
    /\ pc = "prompt" /\ Up
    /\ pc' = "activate"
    /\ group' = g /\ wanted' = <<>> /\ rest' = {} /\ found' = <<active>>
    /\ failed' = FALSE /\ confirmed' = FALSE /\ raising' = FALSE
    /\ replaced' = <<>> /\ unlogged' = FALSE
    /\ UNCHANGED <<device, link, owed, stuck>>

WriteActive ==
    /\ pc = "activate"
    /\ \/ ~Up /\ pc' = "prompt" /\ Idle
          /\ UNCHANGED <<device, link, confirmed, replaced, unlogged>>
       \/ /\ Up
          /\ \E o \in Ends(Up, TRUE, "late-activate") :
              /\ Carries(o, active' = group /\ UNCHANGED <<stored, editing, editor, buffer>>)
              /\ confirmed' = (o = "ok")
              /\ unlogged' = TakesEffect(o)
              /\ replaced' = IF TakesEffect(o) THEN <<active>> ELSE <<>>
          /\ pc' = "active_log"
          /\ UNCHANGED job
    /\ UNCHANGED <<owed, failed, raising, stuck>>

(* ActSG is read again and the change logged; without a connected client the reading raises first. *)
LogActive ==
    /\ pc = "active_log"
    /\ pc' = "prompt"
    /\ unlogged' = (unlogged /\ ~(Up /\ confirmed))
    /\ Idle
    /\ UNCHANGED <<device, link, owed, failed, confirmed, raising, replaced, stuck>>

(* The operator declines, or presses Ctrl-C. *)
Decline ==
    /\ pc = "activate"
    /\ pc' = "prompt" /\ Idle
    /\ UNCHANGED <<device, link, owed, failed, confirmed, raising, ghosts>>

Interrupt ==
    /\ \/ /\ pc \in EditPcs /\ Raises /\ UNCHANGED <<job, stuck>>
          /\ IF unlogged THEN "interrupt-after-confirm" \in Faults ELSE "interrupt" \in Faults
       \/ /\ pc = "end" /\ pc' = "prompt" /\ Idle /\ stuck' = TRUE /\ UNCHANGED raising
          /\ IF unlogged THEN "interrupt-after-confirm" \in Faults ELSE "interrupt" \in Faults
    /\ UNCHANGED <<device, link, owed, failed, confirmed, replaced, unlogged>>

-----------------------------------------------------------------------------
(* The session and its surroundings *)

(* The association is lost, or given up by `disconnect`, and opened again: run_cleanups has emptied the registry, *)
(* and the device has ended the edit.                                                                             *)
Reconnect ==
    /\ pc = "prompt"
    /\ AssociationEnds
    /\ link' = "up" /\ owed' = FALSE
    /\ UNCHANGED <<pc, job, failed, confirmed, raising, ghosts>>

Lose ==
    /\ Up /\ "loss" \in Faults
    /\ pc \in {"reselect", "release", "active_log"} => "loss-after-confirm" \in Faults
    /\ link' = "lost"
    /\ AssociationEnds
    /\ UNCHANGED <<owed, pc, job, failed, confirmed, raising, ghosts>>

EditExpires ==
    /\ editor # NoOne
    /\ Deselect
    /\ UNCHANGED <<link, owed, pc, job, failed, confirmed, raising, ghosts>>

OtherSelects(c, g) ==
    /\ editor = NoOne
    /\ editor' = c /\ editing' = g
    /\ UNCHANGED <<stored, active, buffer, link, owed, pc, job, failed, confirmed, raising, ghosts>>

OtherStores(c, s, v) ==
    /\ editor = c
    /\ stored' = [stored EXCEPT ![editing][s] = v]
    /\ UNCHANGED <<active, editing, editor, buffer, link, owed, pc, job, failed, confirmed, raising, ghosts>>

OtherActivates(g) ==
    /\ Others # {}
    /\ pc = "activate" => "other-activates" \in Faults
    /\ active' = g
    /\ UNCHANGED <<stored, editing, editor, buffer, link, owed, pc, job, failed, confirmed, raising, ghosts>>

ThreadStep ==
    \/ SelectGroup \/ ReadBefores \/ Confirm \/ (\E s \in Settings : WriteValue(s))
    \/ ReleaseEdit \/ CommitEdit \/ Reselect \/ VerifyValues \/ EndEdit \/ LogEdit
    \/ WriteActive \/ LogActive

Next ==
    \/ \E g \in Groups : (\E w \in Assignments : Edit(g, w)) \/ Activate(g) \/ OtherActivates(g)
    \/ ThreadStep \/ Decline \/ Interrupt \/ Reconnect \/ Lose \/ EditExpires
    \/ \E c \in Others : \/ \E g \in Groups : OtherSelects(c, g)
                         \/ \E s \in Settings, v \in Values : OtherStores(c, s, v)

(* Requests time out and the operator answers the question that a command asks. *)
Spec == Init /\ [][Next]_vars /\ WF_vars(ThreadStep)

-----------------------------------------------------------------------------
(* Properties *)

(* RW-7: an edit session that outlives its command is one whose release failed, and it is still in the registry, *)
(* whatever ended the command: a refusal, a declined confirmation, Ctrl-C, a lost association.                    *)
OpenEditIsOwed == pc = "prompt" /\ editor = Me => owed /\ stuck

(* A group changes by all the values of the command or by none: a value that was refused, or lost when the edit   *)
(* expired under the operator's confirmation, leaves the group alone, and so do settings that were not named.     *)
AllOrNothing ==
    [][ \A g \in Groups : stored'[g] # stored[g] /\ editor = Me =>
            stored'[g] = [s \in Settings |-> IF s \in DOMAIN wanted THEN wanted[s] ELSE stored[g][s]] ]_vars

(* LOG-1, LOG-2: at the prompt no change of a group, or of the active group, is missing from the log as done. *)
ChangesAreLogged == pc = "prompt" => ~unlogged

(* LOG-2: what the log gives as the value before is what the change replaced, so that `restore` puts that back. *)
LoggedBeforesAreTrue == pc \in {"log", "active_log"} /\ confirmed => found = replaced

-----------------------------------------------------------------------------
(* What is behind them, step by step *)

(* From its registration on, an edit of this tool is owed; one still open outside its sequence is stuck. *)
OwedInv ==
    /\ pc \in EditPcs \cup {"end"} => owed
    /\ editor = Me => owed /\ (pc \in EditPcs \cup {"end"} \/ stuck)

(* A change that is not in the log was acknowledged, and its command is on a way that leads to the log. *)
LogInv ==
    unlogged => /\ confirmed
                /\ \/ pc \in {"reselect", "release", "active_log"} /\ Up
                   \/ pc \in {"verify", "log"}
                   \/ pc = "end" /\ ~raising

(* As long as the tool holds the edit, the values found are those of the group; a change replaces what was found. *)
BeforesInv ==
    /\ pc \in {"select", "befores", "confirm", "write", "discard", "commit"} => ~confirmed
    /\ pc = "befores" /\ CanWrite => buffer = stored[group]
    /\ pc \in {"confirm", "write", "commit"} /\ CanWrite => found = [s \in DOMAIN wanted |-> stored[group][s]]
    /\ pc = "activate" => found = <<active>>
    /\ pc \in {"reselect", "verify", "release", "end", "log", "active_log"} /\ confirmed => found = replaced

(* The buffer holds the values written so far over those of the group, and is confirmed only when none was refused. *)
BufferInv ==
    /\ pc \in {"select", "befores", "confirm"} => rest = DOMAIN wanted /\ ~failed
    /\ pc = "write" => rest \subseteq DOMAIN wanted
    /\ pc = "commit" => rest = {} /\ ~failed
    /\ pc \in {"befores", "confirm", "write", "commit"} /\ CanWrite /\ ~failed =>
           \A s \in Settings : buffer[s] = IF s \in DOMAIN wanted \ rest THEN wanted[s] ELSE stored[group][s]

(* Every command comes back to the prompt. *)
CommandEnds == pc # "prompt" ~> pc = "prompt"
===============================================================================
