--------------------------- MODULE SettingGroupProofs ---------------------------
(***************************************************************************)
(* Proofs about SettingGroupEdit, for any setting groups, settings, values *)
(* and other clients.                                                      *)
(***************************************************************************)
EXTENDS SettingGroupEdit, TLAPS

-----------------------------------------------------------------------------
(* What requests may come to *)

(* A request without effect leaves the device alone, but for the edit of this tool when the association drops. *)
Dropped == editor = Me /\ Deselect
NoEffect == UNCHANGED device \/ Dropped

LEMMA EndsCases ==
    ASSUME NEW can, NEW late, NEW o \in Ends(Up, can, late)
    PROVE  \/ o = "ok" /\ Up /\ can /\ TakesEffect(o)
           \/ o = "late" /\ Up /\ can /\ late \in Faults /\ TakesEffect(o)
           \/ o = "refused" /\ ~TakesEffect(o)
           \/ o = "dropped" /\ Up /\ ~TakesEffect(o)
BY DEF Ends, TakesEffect

LEMMA SelectGroupCases ==
    ASSUME SelectGroup
    PROVE  /\ pc = "select" /\ UNCHANGED <<owed, job, failed, confirmed, ghosts>>
           /\ \/ Up /\ Select /\ UNCHANGED raising /\ pc' = "befores"
              \/ pc' = "end" /\ (Select \/ NoEffect)
<1>1. pc = "select" /\ UNCHANGED <<owed, job, failed, confirmed, ghosts>>
  BY DEF SelectGroup
<1>2. CASE ~Up
  BY <1>1, <1>2 DEF SelectGroup, WriteField, Raises, NoEffect
<1>3. CASE Up
  <2>1. PICK o \in Ends(Up, CanSelect, "lost-reply") :
           /\ Carries(o, Select)
           /\ IF o = "ok" THEN pc' = "befores" /\ UNCHANGED raising ELSE ServiceFails
    BY <1>3 DEF SelectGroup, WriteField
  <2>2. QED
    BY <1>1, <1>3, <2>1, EndsCases DEF Carries, AssociationEnds, NoEffect, Dropped, ServiceFails
<1>4. QED
  BY <1>2, <1>3

LEMMA ReleaseEditCases ==
    ASSUME ReleaseEdit
    PROVE  /\ pc \in {"discard", "release"} /\ UNCHANGED <<job, failed, confirmed, ghosts>>
           /\ owed' = (owed /\ pc' # "log")
           /\ \/ Deselect /\ UNCHANGED raising /\ pc' = "log"
              \/ pc' = "end" /\ (Up => ~raising') /\ (Deselect \/ NoEffect)
<1>1. pc \in {"discard", "release"} /\ UNCHANGED <<job, failed, confirmed, ghosts>> /\ owed' = (owed /\ pc' # "log")
  BY DEF ReleaseEdit
<1>2. CASE ~Up
  BY <1>1, <1>2 DEF ReleaseEdit, WriteField, Raises, NoEffect
<1>3. CASE Up
  <2>1. PICK o \in Ends(Up, CanSelect, "lost-reply") :
           /\ Carries(o, Deselect)
           /\ IF o = "ok" THEN pc' = "log" /\ UNCHANGED raising ELSE ServiceFails
    BY <1>3 DEF ReleaseEdit, WriteField
  <2>2. QED
    BY <1>1, <1>3, <2>1, EndsCases DEF Carries, AssociationEnds, NoEffect, Dropped, ServiceFails
<1>4. QED
  BY <1>2, <1>3

LEMMA ReselectCases ==
    ASSUME Reselect
    PROVE  /\ pc = "reselect" /\ UNCHANGED <<owed, job, failed, confirmed, ghosts>>
           /\ \/ Up /\ Select /\ UNCHANGED raising /\ pc' = "verify"
              \/ pc' = "end" /\ (Up => ~raising') /\ (Select \/ NoEffect)
<1>1. pc = "reselect" /\ UNCHANGED <<owed, job, failed, confirmed, ghosts>>
  BY DEF Reselect
<1>2. CASE ~Up
  BY <1>1, <1>2 DEF Reselect, WriteField, Raises, NoEffect
<1>3. CASE Up
  <2>1. PICK o \in Ends(Up, CanSelect, "lost-reply") :
           /\ Carries(o, Select)
           /\ IF o = "ok" THEN pc' = "verify" /\ UNCHANGED raising ELSE ServiceFails
    BY <1>3 DEF Reselect, WriteField
  <2>2. QED
    BY <1>1, <1>3, <2>1, EndsCases DEF Carries, AssociationEnds, NoEffect, Dropped, ServiceFails
<1>4. QED
  BY <1>2, <1>3

LEMMA CommitEditCases ==
    ASSUME CommitEdit
    PROVE  /\ pc = "commit" /\ UNCHANGED <<owed, job, failed, stuck>>
           /\ confirmed' = (pc' = "reselect")
           /\ \/ Up /\ UNCHANGED link /\ CanWrite /\ pc' = "reselect" /\ unlogged'
                 /\ replaced' = [s \in DOMAIN wanted |-> stored[group][s]] /\ \E keep \in BOOLEAN : Store(keep)
              \/ pc' = "end" /\ "late-confirm" \in Faults /\ CanWrite /\ \E keep \in BOOLEAN : Store(keep)
              \/ pc' = "end" /\ UNCHANGED <<unlogged, replaced>> /\ NoEffect
<1>1. pc = "commit" /\ UNCHANGED <<owed, job, failed, stuck>> /\ confirmed' = (pc' = "reselect")
  BY DEF CommitEdit
<1>2. PICK keep \in BOOLEAN : WriteField(CanWrite, "late-confirm", Store(keep), "reselect")
  BY DEF CommitEdit
<1>3. \/ stored' # stored \/ pc' = "reselect"
      \/ UNCHANGED <<unlogged, replaced>>
  BY DEF CommitEdit
<1>4. NoEffect => stored' = stored
  BY DEF NoEffect, Dropped, Deselect, device
<1>5. CASE ~Up
  BY <1>1, <1>2, <1>3, <1>4, <1>5 DEF WriteField, Raises, NoEffect
<1>6. CASE Up
  <2>1. PICK o \in Ends(Up, CanWrite, "late-confirm") :
           /\ Carries(o, Store(keep))
           /\ IF o = "ok" THEN pc' = "reselect" /\ UNCHANGED raising ELSE ServiceFails
    BY <1>6, <1>2 DEF WriteField
  <2>2. CASE o = "ok"
    <3>1. pc' = "reselect" /\ Store(keep) /\ UNCHANGED link /\ CanWrite
      BY <2>1, <2>2, EndsCases DEF Carries
    <3>2. unlogged' /\ replaced' = [s \in DOMAIN wanted |-> stored[group][s]]
      BY <3>1 DEF CommitEdit
    <3>3. QED
      BY <1>1, <1>6, <3>1, <3>2
  <2>3. CASE o = "late"
    BY <1>1, <2>1, <2>3, EndsCases DEF Carries, ServiceFails
  <2>4. CASE o \in {"refused", "dropped"}
    <3>1. NoEffect /\ pc' = "end"
      BY <2>1, <2>4, EndsCases DEF Carries, AssociationEnds, NoEffect, Dropped, ServiceFails
    <3>2. QED
      BY <1>1, <1>3, <1>4, <3>1
  <2>5. QED
    BY <2>2, <2>3, <2>4, EndsCases
<1>7. QED
  BY <1>5, <1>6

(* The reads change nothing but the association; EditSG := 0 at the end releases, or the edit is stuck. *)
LEMMA ReadCases ==
    /\ ReadBefores =>
        /\ pc = "befores" /\ UNCHANGED <<owed, group, wanted, rest, failed, confirmed, ghosts>>
        /\ \/ pc' = "confirm" /\ UNCHANGED device
              /\ found' = [s \in DOMAIN wanted |-> IF CanWrite THEN buffer[s] ELSE NoOne]
           \/ pc' = "end" /\ NoEffect
    /\ VerifyValues =>
        /\ pc = "verify" /\ UNCHANGED <<owed, job, failed, confirmed, ghosts>>
        /\ \/ pc' = "release" /\ Up /\ UNCHANGED <<link, device>>
           \/ pc' = "end" /\ ~raising' /\ NoEffect
<1>1. ASSUME ReadBefores
      PROVE  /\ pc = "befores" /\ UNCHANGED <<owed, group, wanted, rest, failed, confirmed, ghosts>>
             /\ \/ pc' = "confirm" /\ UNCHANGED device
                   /\ found' = [s \in DOMAIN wanted |-> IF CanWrite THEN buffer[s] ELSE NoOne]
                \/ pc' = "end" /\ NoEffect
  <2>1. PICK o \in Ends(Up, TRUE, "none") :
           /\ Carries(o, UNCHANGED device)
           /\ IF o = "ok"
              THEN pc' = "confirm" /\ found' = [s \in DOMAIN wanted |-> IF CanWrite THEN buffer[s] ELSE NoOne]
              ELSE ServiceFails
    BY <1>1 DEF ReadBefores
  <2>2. UNCHANGED device \/ Dropped
    BY <2>1 DEF Carries, AssociationEnds, Dropped
  <2>3. o = "ok" => UNCHANGED device
    BY <2>1, EndsCases DEF Carries
  <2>4. QED
    BY <1>1, <2>1, <2>2, <2>3 DEF ReadBefores, ServiceFails, NoEffect
<1>2. ASSUME VerifyValues
      PROVE  /\ pc = "verify" /\ UNCHANGED <<owed, job, failed, confirmed, ghosts>>
             /\ \/ pc' = "release" /\ Up /\ UNCHANGED <<link, device>>
                \/ pc' = "end" /\ ~raising' /\ NoEffect
  <2>1. PICK o \in Ends(Up, TRUE, "none") :
           /\ Carries(o, UNCHANGED device)
           /\ IF o = "ok" THEN pc' = "release" /\ UNCHANGED raising ELSE ServiceFails
    BY <1>2 DEF VerifyValues
  <2>2. UNCHANGED device \/ Dropped
    BY <2>1 DEF Carries, AssociationEnds, Dropped
  <2>3. o = "ok" => UNCHANGED <<link, device>> /\ Up
    BY <2>1, EndsCases DEF Carries
  <2>4. QED
    BY <1>2, <2>1, <2>2, <2>3 DEF VerifyValues, ServiceFails, NoEffect
<1>3. QED
  BY <1>1, <1>2

LEMMA EndEditCases ==
    ASSUME EndEdit
    PROVE  /\ pc = "end" /\ UNCHANGED <<failed, confirmed, raising, replaced, unlogged>>
           /\ pc' = IF raising THEN "prompt" ELSE "log"
           /\ IF raising THEN Idle ELSE UNCHANGED job
           /\ \/ Deselect /\ ~owed' /\ ~stuck'
              \/ (owed => owed') /\ stuck' /\ (Deselect \/ NoEffect)
<1>1. PICK o \in Ends(Up, CanSelect, "lost-reply") :
         Carries(o, Deselect) /\ owed' = (owed /\ o # "ok") /\ stuck' = (o # "ok")
  BY DEF EndEdit
<1>2. Deselect \/ NoEffect
  BY <1>1 DEF Carries, AssociationEnds, NoEffect, Dropped
<1>3. o = "ok" => Deselect
  BY <1>1, EndsCases DEF Carries
<1>4. QED
  BY <1>1, <1>2, <1>3 DEF EndEdit

-----------------------------------------------------------------------------
(* An open edit is owed *)

(* What the device may do to the edit of this tool: nothing, end it, or, at the tool's word, begin it. *)
LEMMA DeviceEditor ==
    /\ UNCHANGED device => UNCHANGED editor
    /\ (NoEffect => (editor' = Me => editor = Me))
    /\ Deselect => editor' # Me
    /\ \A keep \in BOOLEAN : (Store(keep) => (editor' = Me => editor = Me))
    /\ AssociationEnds => editor' # Me
BY GroupsAssumption DEF device, NoEffect, Dropped, Deselect, Store, AssociationEnds

LEMMA OwedStep ==
    ASSUME OwedInv, [Next]_vars
    PROVE  OwedInv'
<1> USE DEF OwedInv, EditPcs
<1>1. ASSUME NEW g \in Groups, NEW w \in Assignments, Edit(g, w) PROVE OwedInv'
  BY <1>1, DeviceEditor DEF Edit
<1>2. ASSUME NEW g \in Groups, Activate(g) \/ OtherActivates(g) PROVE OwedInv'
  BY <1>2, DeviceEditor DEF Activate, OtherActivates, ghosts
<1>3. CASE SelectGroup
  BY <1>3, SelectGroupCases, DeviceEditor
<1>4. CASE ReadBefores \/ VerifyValues
  BY <1>4, ReadCases, DeviceEditor
<1>5. CASE Confirm
  BY <1>5, DeviceEditor DEF Confirm, Raises
<1>6. ASSUME NEW s \in Settings, WriteValue(s) PROVE OwedInv'
  <2>1. PICK o \in Ends(Up, CanWrite, "lost-reply") :
           Carries(o, buffer' = [buffer EXCEPT ![s] = wanted[s]] /\ UNCHANGED <<stored, active, editing, editor>>)
    BY <1>6 DEF WriteValue
  <2>2. editor' = Me => editor = Me
    BY <2>1, DeviceEditor DEF Carries
  <2>3. pc = "write" /\ pc' \in EditPcs /\ UNCHANGED owed
    BY <1>6 DEF WriteValue
  <2>4. QED
    BY <2>2, <2>3
<1>7. CASE ReleaseEdit
  BY <1>7, ReleaseEditCases, DeviceEditor
<1>8. CASE CommitEdit
  BY <1>8, CommitEditCases, DeviceEditor
<1>9. CASE Reselect
  BY <1>9, ReselectCases, DeviceEditor
<1>10. CASE EndEdit
  BY <1>10, EndEditCases, DeviceEditor
<1>11. CASE LogEdit \/ LogActive \/ Decline
  BY <1>11, DeviceEditor DEF LogEdit, LogActive, Decline, ghosts
<1>12. CASE WriteActive
  <2>1. \/ UNCHANGED device
        \/ \E o \in Ends(Up, TRUE, "late-activate") :
             Carries(o, active' = group /\ UNCHANGED <<stored, editing, editor, buffer>>)
    BY <1>12 DEF WriteActive
  <2>2. editor' = Me => editor = Me
    BY <2>1, DeviceEditor DEF Carries
  <2>3. pc = "activate" /\ pc' \in {"prompt", "active_log"} /\ UNCHANGED <<owed, stuck>>
    BY <1>12 DEF WriteActive
  <2>4. QED
    BY <2>2, <2>3
<1>13. CASE Interrupt
  BY <1>13, DeviceEditor DEF Interrupt, Raises
<1>14. CASE Reconnect
  BY <1>14, DeviceEditor DEF Reconnect
<1>15. CASE Lose
  BY <1>15, DeviceEditor DEF Lose, ghosts
<1>16. CASE EditExpires
  BY <1>16, DeviceEditor DEF EditExpires, ghosts
<1>17. ASSUME NEW c \in Others, NEW g \in Groups, OtherSelects(c, g) PROVE OwedInv'
  BY <1>17, GroupsAssumption DEF OtherSelects, ghosts
<1>18. ASSUME NEW c \in Others, NEW s \in Settings, NEW v \in Values, OtherStores(c, s, v) PROVE OwedInv'
  BY <1>18 DEF OtherStores, ghosts
<1>19. CASE UNCHANGED vars
  BY <1>19 DEF vars, device, ghosts
<1>20. QED
  BY <1>1, <1>2, <1>3, <1>4, <1>5, <1>6, <1>7, <1>8, <1>9, <1>10, <1>11, <1>12, <1>13, <1>14, <1>15, <1>16, <1>17, <1>18,
     <1>19 DEF Next, ThreadStep

(* RW-7, whatever goes wrong: when a command is over, an edit session still open on the device for this tool is in   *)
(* the cleanup registry, and its release has been tried and failed (core/setgroup.py:169-259).                        *)
THEOREM OpenEditsAreOwed == Spec => []OpenEditIsOwed
<1>1. Init => OwedInv
  BY GroupsAssumption DEF Init, OwedInv, EditPcs
<1>2. OwedInv /\ [Next]_vars => OwedInv'
  BY OwedStep
<1>3. OwedInv => OpenEditIsOwed
  BY DEF OwedInv, OpenEditIsOwed, EditPcs
<1>4. QED
  BY <1>1, <1>2, <1>3, PTL DEF Spec

-----------------------------------------------------------------------------
(* Changes are logged *)

Logs == Faults \cap {"late-confirm", "late-activate", "interrupt-after-confirm", "loss-after-confirm"} = {}

LEMMA LogStep ==
    ASSUME Logs, LogInv, [Next]_vars
    PROVE  LogInv'
<1> USE DEF LogInv, Up
<1>1. ASSUME NEW g \in Groups, NEW w \in Assignments, Edit(g, w) PROVE LogInv'
  BY <1>1 DEF Edit
<1>2. ASSUME NEW g \in Groups, Activate(g) PROVE LogInv'
  BY <1>2 DEF Activate
<1>3. ASSUME NEW g \in Groups, OtherActivates(g) PROVE LogInv'
  BY <1>3 DEF OtherActivates, ghosts
<1>4. CASE SelectGroup
  BY <1>4, SelectGroupCases DEF ghosts
<1>5. CASE ReadBefores \/ VerifyValues
  <2>1. UNCHANGED <<unlogged, confirmed>>
    BY <1>5, ReadCases DEF ghosts
  <2>2. \/ pc = "befores"
        \/ pc = "verify" /\ pc' = "release" /\ UNCHANGED link /\ Up
        \/ pc = "verify" /\ pc' = "end" /\ ~raising'
    BY <1>5, ReadCases
  <2>3. QED
    BY <2>1, <2>2
<1>6. CASE Confirm
  BY <1>6 DEF Confirm, ghosts
<1>7. ASSUME NEW s \in Settings, WriteValue(s) PROVE LogInv'
  BY <1>7 DEF WriteValue, ghosts
<1>8. CASE ReleaseEdit
  BY <1>8, ReleaseEditCases DEF ghosts
<1>9. CASE CommitEdit
  BY <1>9, CommitEditCases DEF Logs
<1>10. CASE Reselect
  BY <1>10, ReselectCases DEF ghosts
<1>11. CASE EndEdit
  BY <1>11, EndEditCases
<1>12. CASE LogEdit
  BY <1>12 DEF LogEdit
<1>13. CASE LogActive
  BY <1>13 DEF LogActive
<1>14. CASE WriteActive
  <2>1. CASE ~Up
    BY <1>14, <2>1 DEF WriteActive
  <2>2. CASE Up
    <3>1. PICK o \in Ends(Up, TRUE, "late-activate") :
             /\ Carries(o, active' = group /\ UNCHANGED <<stored, editing, editor, buffer>>)
             /\ confirmed' = (o = "ok") /\ unlogged' = TakesEffect(o)
      BY <1>14, <2>2 DEF WriteActive
    <3>2. pc' = "active_log"
      BY <1>14, <2>2 DEF WriteActive
    <3>3. TakesEffect(o) => o = "ok" /\ UNCHANGED link
      BY <3>1, EndsCases DEF Carries, Logs
    <3>4. QED
      BY <2>2, <3>1, <3>2, <3>3
  <2>3. QED
    BY <2>1, <2>2
<1>15. CASE Decline
  BY <1>15 DEF Decline, ghosts
<1>16. CASE Interrupt
  BY <1>16 DEF Interrupt, Logs
<1>17. CASE Reconnect
  BY <1>17 DEF Reconnect, ghosts
<1>18. CASE Lose
  BY <1>18 DEF Lose, ghosts, Logs
<1>19. CASE EditExpires
  BY <1>19 DEF EditExpires, ghosts
<1>20. ASSUME NEW c \in Others, NEW g \in Groups, OtherSelects(c, g) PROVE LogInv'
  BY <1>20 DEF OtherSelects, ghosts
<1>21. ASSUME NEW c \in Others, NEW s \in Settings, NEW v \in Values, OtherStores(c, s, v) PROVE LogInv'
  BY <1>21 DEF OtherStores, ghosts
<1>22. CASE UNCHANGED vars
  BY <1>22 DEF vars, ghosts
<1>23. QED
  BY <1>1, <1>2, <1>3, <1>4, <1>5, <1>6, <1>7, <1>8, <1>9, <1>10, <1>11, <1>12, <1>13, <1>14, <1>15, <1>16, <1>17, <1>18,
     <1>19, <1>20, <1>21, <1>22 DEF Next, ThreadStep

(* LOG-1: a change of a setting group, or of the active group, is in the log as done when the command is over -       *)
(* unless CnfEdit or ActSG took effect without an answer, or what follows was cut short (core/setgroup.py:98-135, 223-278). *)
THEOREM ChangesReachTheLog ==
    ASSUME Logs
    PROVE  Spec => []ChangesAreLogged
<1>1. Init => LogInv
  BY DEF Init, LogInv
<1>2. LogInv /\ [Next]_vars => LogInv'
  BY LogStep
<1>3. LogInv => ChangesAreLogged
  BY DEF LogInv, ChangesAreLogged
<1>4. QED
  BY <1>1, <1>2, <1>3, PTL DEF Spec

-----------------------------------------------------------------------------
(* The values before *)

LEMMA BeforesStep ==
    ASSUME "other-activates" \notin Faults, BeforesInv, [Next]_vars
    PROVE  BeforesInv'
<1> USE DEF BeforesInv, CanWrite
<1>d. /\ UNCHANGED device => UNCHANGED <<stored, active, buffer, editor, editing>>
      /\ NoEffect => UNCHANGED <<stored, active, buffer>> /\ (editor' = Me => UNCHANGED <<editor, editing>>)
      /\ Deselect => UNCHANGED <<stored, active, buffer>> /\ editor' # Me
      /\ AssociationEnds => UNCHANGED <<stored, active, buffer>> /\ editor' # Me
  BY GroupsAssumption DEF device, NoEffect, Dropped, Deselect, AssociationEnds
<1>1. ASSUME NEW g \in Groups, NEW w \in Assignments, Edit(g, w) PROVE BeforesInv'
  BY <1>1 DEF Edit
<1>2. ASSUME NEW g \in Groups, Activate(g) PROVE BeforesInv'
  BY <1>2, <1>d DEF Activate
<1>3. ASSUME NEW g \in Groups, OtherActivates(g) PROVE BeforesInv'
  BY <1>3 DEF OtherActivates, job, ghosts
<1>4. CASE SelectGroup
  BY <1>4, SelectGroupCases, <1>d DEF job, ghosts, Select
<1>5. CASE ReadBefores
  <2>1. /\ pc = "befores" /\ UNCHANGED <<group, wanted, confirmed, replaced>>
        /\ \/ pc' = "confirm" /\ UNCHANGED device
              /\ found' = [s \in DOMAIN wanted |-> IF CanWrite THEN buffer[s] ELSE NoOne]
           \/ pc' = "end" /\ NoEffect
    BY <1>5, ReadCases DEF ghosts
  <2>2. CASE pc' = "end"
    BY <2>1, <2>2
  <2>3. CASE pc' = "confirm"
    <3>1. CanWrite' => CanWrite /\ buffer = stored[group]
      BY <2>1, <2>3, <1>d
    <3>2. CanWrite' => found' = [s \in DOMAIN wanted' |-> stored'[group'][s]]
      BY <2>1, <2>3, <3>1, <1>d
    <3>3. QED
      BY <2>1, <2>3, <3>2
  <2>4. QED
    BY <2>1, <2>2, <2>3
<1>6. CASE VerifyValues
  BY <1>6, ReadCases DEF job, ghosts
<1>7. CASE Confirm
  BY <1>7, <1>d DEF Confirm, Raises, job, ghosts
<1>8. ASSUME NEW s \in Settings, WriteValue(s) PROVE BeforesInv'
  <2>1. PICK o \in Ends(Up, CanWrite, "lost-reply") :
           Carries(o, buffer' = [buffer EXCEPT ![s] = wanted[s]] /\ UNCHANGED <<stored, active, editing, editor>>)
    BY <1>8 DEF WriteValue
  <2>2. UNCHANGED stored /\ (editor' = Me => UNCHANGED <<editor, editing>>)
    BY <2>1, <1>d DEF Carries
  <2>3. /\ pc = "write" /\ pc' \in {"write", "discard", "commit"}
        /\ UNCHANGED <<group, wanted, found, confirmed>>
    BY <1>8 DEF WriteValue
  <2>4. QED
    BY <2>2, <2>3
<1>9. CASE ReleaseEdit
  BY <1>9, ReleaseEditCases DEF job, ghosts
<1>10. CASE CommitEdit
  <2>1. /\ pc = "commit" /\ UNCHANGED job
        /\ \/ pc' = "reselect" /\ CanWrite /\ replaced' = [s \in DOMAIN wanted |-> stored[group][s]]
           \/ pc' = "end" /\ ~confirmed'
    BY <1>10, CommitEditCases
  <2>2. QED
    BY <2>1 DEF job
<1>11. CASE Reselect
  BY <1>11, ReselectCases DEF job, ghosts
<1>12. CASE EndEdit
  BY <1>12, EndEditCases DEF job
<1>13. CASE LogEdit \/ LogActive
  BY <1>13 DEF LogEdit, LogActive
<1>14. CASE WriteActive
  <2>1. CASE ~Up
    BY <1>14, <2>1 DEF WriteActive
  <2>2. CASE Up
    <3>1. PICK o \in Ends(Up, TRUE, "late-activate") :
             confirmed' = (o = "ok") /\ replaced' = IF TakesEffect(o) THEN <<active>> ELSE <<>>
      BY <1>14, <2>2 DEF WriteActive
    <3>2. pc = "activate" /\ pc' = "active_log" /\ UNCHANGED found
      BY <1>14, <2>2 DEF WriteActive, job
    <3>3. QED
      BY <3>1, <3>2 DEF TakesEffect
  <2>3. QED
    BY <2>1, <2>2
<1>15. CASE Decline
  BY <1>15 DEF Decline
<1>16. CASE Interrupt
  <2>1. pc' = "prompt" \/ (pc \in EditPcs /\ pc' = "end" /\ UNCHANGED <<found, confirmed, replaced>>)
    BY <1>16 DEF Interrupt, Raises, job
  <2>2. QED
    BY <2>1 DEF EditPcs
<1>17. CASE Reconnect
  BY <1>17 DEF Reconnect
<1>18. CASE Lose
  BY <1>18, <1>d DEF Lose, job, ghosts
<1>19. CASE EditExpires
  BY <1>19, <1>d DEF EditExpires, job, ghosts
<1>20. ASSUME NEW c \in Others, NEW g \in Groups, OtherSelects(c, g) PROVE BeforesInv'
  BY <1>20, GroupsAssumption DEF OtherSelects, job, ghosts
<1>21. ASSUME NEW c \in Others, NEW s \in Settings, NEW v \in Values, OtherStores(c, s, v) PROVE BeforesInv'
  BY <1>21, GroupsAssumption DEF OtherStores, job, ghosts
<1>22. CASE UNCHANGED vars
  BY <1>22 DEF vars, device, job, ghosts
<1>23. QED
  BY <1>1, <1>2, <1>3, <1>4, <1>5, <1>6, <1>7, <1>8, <1>9, <1>10, <1>11, <1>12, <1>13, <1>14, <1>15, <1>16, <1>17, <1>18,
     <1>19, <1>20, <1>21, <1>22 DEF Next, ThreadStep

(* LOG-2: what a logged change of setting groups gives as the value before is what the change replaced, as long as   *)
(* no other client activates a group while the operator confirms (core/setgroup.py:98-135, 201-224).                 *)
THEOREM BeforesAreTrue ==
    ASSUME "other-activates" \notin Faults
    PROVE  Spec => []LoggedBeforesAreTrue
<1>1. Init => BeforesInv
  BY DEF Init, BeforesInv
<1>2. BeforesInv /\ [Next]_vars => BeforesInv'
  BY BeforesStep
<1>3. BeforesInv => LoggedBeforesAreTrue
  BY DEF BeforesInv, LoggedBeforesAreTrue
<1>4. QED
  BY <1>1, <1>2, <1>3, PTL DEF Spec

-----------------------------------------------------------------------------
(* All or nothing *)

DataOK ==
    /\ group \in Groups /\ wanted \in Assignments \cup {<<>>}
    /\ stored \in [Groups -> [Settings -> Values]] /\ buffer \in [Settings -> Values]

LEMMA AssignedValues == \A w \in Assignments \cup {<<>>} : \A s \in DOMAIN w : s \in Settings => w[s] \in Values
BY DEF Assignments

LEMMA DeviceData ==
    ASSUME DataOK,
           UNCHANGED device \/ NoEffect \/ Deselect \/ Select \/ AssociationEnds \/ (\E keep \in BOOLEAN : Store(keep))
    PROVE  stored' \in [Groups -> [Settings -> Values]] /\ buffer' \in [Settings -> Values]
BY DEF DataOK, device, NoEffect, Dropped, Deselect, Select, AssociationEnds, Store

(* The value that a request to write setting s brings into the buffer, or leaves there. *)
LEMMA WriteValueCases ==
    ASSUME NEW s \in Settings, WriteValue(s)
    PROVE  /\ pc = "write" /\ s \in rest /\ rest' = rest \ {s} /\ UNCHANGED <<owed, group, wanted, found, confirmed, ghosts>>
           /\ pc' = IF rest' # {} THEN "write" ELSE IF failed' THEN "discard" ELSE "commit"
           /\ UNCHANGED stored /\ (editor' = Me => UNCHANGED <<editor, editing>>)
           /\ \/ (failed => failed') /\ CanWrite /\ buffer' = [buffer EXCEPT ![s] = wanted[s]]
              \/ failed' /\ (UNCHANGED buffer \/ buffer' = [buffer EXCEPT ![s] = wanted[s]])
<1>1. PICK o \in Ends(Up, CanWrite, "lost-reply") :
         /\ Carries(o, buffer' = [buffer EXCEPT ![s] = wanted[s]] /\ UNCHANGED <<stored, active, editing, editor>>)
         /\ failed' = (failed \/ o # "ok")
  BY DEF WriteValue
<1>2. UNCHANGED stored /\ (editor' = Me => UNCHANGED <<editor, editing>>)
      /\ (UNCHANGED buffer \/ buffer' = [buffer EXCEPT ![s] = wanted[s]])
  BY <1>1, GroupsAssumption DEF Carries, AssociationEnds, Deselect, device
<1>3. o = "ok" => CanWrite /\ buffer' = [buffer EXCEPT ![s] = wanted[s]] /\ (failed => failed')
  BY <1>1, EndsCases DEF Carries
<1>4. QED
  BY <1>1, <1>2, <1>3 DEF WriteValue

(* While an edit goes on, only the tool's own CnfEdit changes a group. *)
LEMMA BufferStep ==
    ASSUME DataOK, BufferInv, [Next]_vars
    PROVE  DataOK' /\ BufferInv'
<1> DEFINE Inv == DataOK /\ BufferInv
<1> SUFFICES Inv'
  OBVIOUS
<1> USE DEF DataOK, BufferInv, CanWrite
<1>d. /\ UNCHANGED device => UNCHANGED <<stored, buffer, editor, editing>>
      /\ NoEffect => UNCHANGED <<stored, buffer>> /\ (editor' = Me => UNCHANGED <<editor, editing>>)
      /\ Deselect => UNCHANGED <<stored, buffer>> /\ editor' # Me
      /\ AssociationEnds => UNCHANGED <<stored, buffer>> /\ editor' # Me
  BY GroupsAssumption DEF device, NoEffect, Dropped, Deselect, AssociationEnds
<1>1. ASSUME NEW g \in Groups, NEW w \in Assignments, Edit(g, w) PROVE Inv'
  BY <1>1, <1>d DEF Edit
<1>2. ASSUME NEW g \in Groups, Activate(g) PROVE Inv'
  BY <1>2, <1>d DEF Activate
<1>3. ASSUME NEW g \in Groups, OtherActivates(g) PROVE Inv'
  BY <1>3 DEF OtherActivates, job
<1>4. CASE SelectGroup
  BY <1>4, SelectGroupCases, DeviceData DEF job, Select
<1>5. CASE ReadBefores
  BY <1>5, ReadCases, <1>d
<1>6. CASE VerifyValues
  BY <1>6, ReadCases, <1>d DEF job
<1>7. CASE Confirm
  BY <1>7, <1>d DEF Confirm, Raises, job
<1>8. ASSUME NEW s \in Settings, WriteValue(s) PROVE Inv'
  <2>1. DataOK'
    BY <1>8, WriteValueCases, AssignedValues
  <2>2. BufferInv'
    <3>1. CASE pc' = "discard" \/ failed'
      BY <1>8, WriteValueCases, <3>1
    <3>2. CASE pc' # "discard" /\ ~failed'
      <4>1. /\ pc = "write" /\ s \in rest /\ rest' = rest \ {s} /\ UNCHANGED <<group, wanted, stored>>
            /\ pc' = IF rest' # {} THEN "write" ELSE "commit"
            /\ ~failed /\ CanWrite /\ buffer' = [buffer EXCEPT ![s] = wanted[s]]
        BY <1>8, WriteValueCases, <3>2
      <4>2. \A x \in Settings : buffer[x] = IF x \in DOMAIN wanted \ rest THEN wanted[x] ELSE stored[group][x]
        BY <4>1
      <4>3. \A x \in Settings : buffer'[x] = IF x \in DOMAIN wanted \ rest' THEN wanted[x] ELSE stored[group][x]
        BY <4>1, <4>2
      <4>4. QED
        BY <3>2, <4>1, <4>3
    <3>3. QED
      BY <3>1, <3>2
  <2>3. QED
    BY <2>1, <2>2
<1>9. CASE ReleaseEdit
  BY <1>9, ReleaseEditCases, <1>d DEF job
<1>10. CASE CommitEdit
  <2>1. pc' \in {"reselect", "end"} /\ UNCHANGED <<group, wanted, rest, failed>>
    BY <1>10, CommitEditCases DEF job
  <2>2. DataOK'
    BY <1>10, CommitEditCases, DeviceData DEF job
  <2>3. QED
    BY <2>1, <2>2
<1>11. CASE Reselect
  BY <1>11, ReselectCases, DeviceData DEF job
<1>12. CASE EndEdit
  BY <1>12, EndEditCases, <1>d DEF job, Idle
<1>13. CASE LogEdit \/ LogActive \/ Decline
  BY <1>13, <1>d DEF LogEdit, LogActive, Decline, Idle
<1>14. CASE WriteActive
  <2>1. pc' \in {"prompt", "active_log"} /\ group' = group /\ wanted' \in {wanted, <<>>}
    BY <1>14 DEF WriteActive, Idle, job
  <2>2. UNCHANGED device \/ UNCHANGED <<stored, buffer>> \/ AssociationEnds
    BY <1>14 DEF WriteActive, Carries
  <2>3. QED
    BY <2>1, <2>2, <1>d
<1>15. CASE Interrupt
  BY <1>15, <1>d DEF Interrupt, Raises, Idle, job
<1>16. CASE Reconnect \/ Lose \/ EditExpires
  BY <1>16, <1>d DEF Reconnect, Lose, EditExpires, job
<1>17. ASSUME NEW c \in Others, NEW g \in Groups, OtherSelects(c, g) PROVE Inv'
  BY <1>17, GroupsAssumption DEF OtherSelects, job
<1>18. ASSUME NEW c \in Others, NEW s \in Settings, NEW v \in Values, OtherStores(c, s, v) PROVE Inv'
  <2>1. stored' \in [Groups -> [Settings -> Values]] /\ UNCHANGED <<buffer, group, wanted, rest, failed, pc, editor>>
    BY <1>18 DEF OtherStores, job
  <2>2. editor # Me
    BY <1>18, GroupsAssumption DEF OtherStores
  <2>3. QED
    BY <2>1, <2>2
<1>19. CASE UNCHANGED vars
  BY <1>19, <1>d DEF vars, job
<1>20. QED
  BY <1>1, <1>2, <1>3, <1>4, <1>5, <1>6, <1>7, <1>8, <1>9, <1>10, <1>11, <1>12, <1>13, <1>14, <1>15, <1>16, <1>17, <1>18,
     <1>19 DEF Next, ThreadStep

LEMMA GroupStep ==
    ASSUME DataOK, BufferInv, [Next]_vars, NEW g \in Groups, stored'[g] # stored[g], editor = Me
    PROVE  stored'[g] = [s \in Settings |-> IF s \in DOMAIN wanted THEN wanted[s] ELSE stored[g][s]]
<1>1. CASE CommitEdit
  <2>1. /\ pc = "commit" /\ CanWrite /\ stored' = [stored EXCEPT ![group] = buffer]
    BY <1>1, CommitEditCases DEF NoEffect, Dropped, Deselect, device, Store
  <2>2. \A s \in Settings : buffer[s] = IF s \in DOMAIN wanted THEN wanted[s] ELSE stored[group][s]
    BY <2>1 DEF BufferInv
  <2>3. g = group /\ stored'[g] = buffer
    BY <2>1 DEF DataOK
  <2>4. QED
    BY <2>2, <2>3 DEF DataOK
<1>2. CASE ~CommitEdit
  <2>1. UNCHANGED device \/ NoEffect \/ Deselect \/ Select \/ AssociationEnds => UNCHANGED stored
    BY DEF device, NoEffect, Dropped, Deselect, Select, AssociationEnds
  <2>2. \A c \in Others, s \in Settings, v \in Values : ~OtherStores(c, s, v)
    BY GroupsAssumption DEF OtherStores
  <2>3. \A s \in Settings : WriteValue(s) => UNCHANGED stored
    BY WriteValueCases
  <2>4. WriteActive => UNCHANGED stored
    BY <2>1 DEF WriteActive, Carries
  <2>5. SelectGroup \/ ReadBefores \/ VerifyValues \/ ReleaseEdit \/ Reselect \/ EndEdit => UNCHANGED stored
    BY <2>1, SelectGroupCases, ReadCases, ReleaseEditCases, ReselectCases, EndEditCases
  <2>6. Confirm \/ LogEdit \/ LogActive \/ Decline \/ Interrupt \/ Reconnect \/ Lose \/ EditExpires => UNCHANGED stored
    <3>1. Confirm \/ LogEdit \/ LogActive \/ Decline \/ Interrupt => UNCHANGED device
      BY DEF Confirm, LogEdit, LogActive, Decline, Interrupt
    <3>2. Reconnect \/ Lose => AssociationEnds
      BY DEF Reconnect, Lose
    <3>3. EditExpires => Deselect
      BY DEF EditExpires
    <3>4. QED
      BY <2>1, <3>1, <3>2, <3>3
  <2>7. \A x \in Groups, c \in Others : OtherSelects(c, x) => UNCHANGED stored
    BY DEF OtherSelects
  <2>8. \A x \in Groups : /\ Activate(x) \/ OtherActivates(x) => UNCHANGED stored
                          /\ \A w \in Assignments : Edit(x, w) => UNCHANGED stored
    BY DEF Edit, Activate, OtherActivates, device
  <2>9. UNCHANGED stored
    BY <1>2, <2>2, <2>3, <2>4, <2>5, <2>6, <2>7, <2>8 DEF Next, ThreadStep, vars, device
  <2>10. QED
    BY <2>9
<1>3. QED
  BY <1>1, <1>2

(* While this tool edits, a group changes by all the values of its command or not at all, whatever is refused, lost, *)
(* interrupted, or ended by the device in between (core/setgroup.py:201-224).                                        *)
THEOREM EditsAreWhole == Spec => AllOrNothing
<1>1. Init => DataOK /\ BufferInv
  BY DEF Init, DataOK, BufferInv
<1>2. DataOK /\ BufferInv /\ [Next]_vars => DataOK' /\ BufferInv'
  BY BufferStep
<1>3. DataOK /\ BufferInv /\ [Next]_vars =>
        [\A g \in Groups : stored'[g] # stored[g] /\ editor = Me =>
            stored'[g] = [s \in Settings |-> IF s \in DOMAIN wanted THEN wanted[s] ELSE stored[g][s]]]_vars
  BY GroupStep
<1>4. QED
  BY <1>1, <1>2, <1>3, PTL DEF Spec, AllOrNothing
=============================================================================
