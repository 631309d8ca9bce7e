----------------------------- MODULE ControlProofs -----------------------------
(***************************************************************************)
(* Proofs about ControlSequence, for any objects, control models, orCats,  *)
(* and width of the ctlNum.                                                *)
(***************************************************************************)
EXTENDS ControlSequence, SequenceTheorems, TLAPS

-----------------------------------------------------------------------------
(* Types, under every fault *)

(* The running command knows its object, and authority-probe the orCat it has got to. *)
WithoutObject == {"prompt", "probe_next"}
Shape ==
    /\ pc \notin WithoutObject => obj \in Objects
    /\ pc \in {"probe_select", "probe_cancel"} => index \in 1 .. Len(ProbeCats)
TypeInv == TypeOK /\ Shape

LEMMA ConstantFacts ==
    /\ Len(ProbeCats) \in Nat /\ Len(ProbeCats) >= 1
    /\ Modulus \in Nat \ {0} /\ 0 \in Nums
    /\ \A i \in 1 .. Len(ProbeCats) : ProbeCats[i] \in Cats
<1>1. ProbeCats \in Seq(Cats) /\ ProbeCats # <<>>
  BY ConstantsAssumption
<1>2. Len(ProbeCats) \in Nat /\ Len(ProbeCats) >= 1
  BY <1>1
<1>3. Modulus \in Nat \ {0} /\ 0 \in Nums
  BY <1>2, ConstantsAssumption DEF Nums
<1>4. \A i \in 1 .. Len(ProbeCats) : ProbeCats[i] \in Cats
  BY <1>1
<1>5. QED
  BY <1>2, <1>3, <1>4

(* The ctlNum stays within its width. *)
LEMMA BumpedType ==
    ASSUME NEW o \in Objects, num \in [Objects -> Nums]
    PROVE  Bumped(o) \in Nums
<1>1. num[o] + 1 \in Nat /\ Modulus \in Nat \ {0}
  BY ConstantFacts DEF Nums
<1>2. \A n \in Nat, m \in Nat \ {0} : n % m \in 0 .. m - 1
  OBVIOUS
<1>3. QED
  BY <1>1, <1>2 DEF Bumped, Nums

(* Terminations and operations stay what they are when they become those of an earlier operate. *)
LEMMA AgedTerminations ==
    ASSUME NEW s \in Seq(Terminations)
    PROVE  [i \in DOMAIN s |-> [s[i] EXCEPT !.of = "earlier"]] \in Seq(Terminations)
<1> DEFINE w == [i \in DOMAIN s |-> [s[i] EXCEPT !.of = "earlier"]]
<1>1. DOMAIN s = 1 .. Len(s) /\ Len(s) \in Nat
  OBVIOUS
<1>2. \A i \in 1 .. Len(s) : s[i] \in Terminations
  OBVIOUS
<1>3. \A t \in Terminations : [t EXCEPT !.of = "earlier"] \in Terminations
  BY DEF Terminations
<1>4. w \in [1 .. Len(s) -> Terminations]
  BY <1>1, <1>2, <1>3
<1>5. QED
  BY <1>1, <1>4, SeqDef

LEMMA SelectRequestType ==
    ASSUME TypeOK, NEW o \in Objects, NEW r, SelectRequest(o, r)
    PROVE  /\ sel' \in [Objects -> {"free", "mine", "other"}] /\ num' \in [Objects -> Nums]
           /\ unlogged' \subseteq Requests /\ told' \subseteq Objects /\ appl' \in [Objects -> Nums \cup {Nothing}]
           /\ UNCHANGED <<exec, link, wire, trailing, arrived>>
BY BumpedType DEF SelectRequest, TypeOK, Requests

LEMMA CancelRequestType ==
    ASSUME TypeOK, NEW o \in Objects, NEW a \in BOOLEAN, CancelRequest(o, a)
    PROVE  /\ sel' \in [Objects -> {"free", "mine", "other"}]
           /\ unlogged' \subseteq Requests /\ told' \subseteq Objects /\ appl' \in [Objects -> Nums \cup {Nothing}]
           /\ UNCHANGED <<exec, link, wire, num, origin, trailing, arrived>>
BY DEF CancelRequest, TypeOK, Requests

LEMMA ReturnType ==
    ASSUME Return
    PROVE  /\ pc' = "prompt" /\ obj' = Nothing /\ applBefore' = Nothing /\ took' = Nothing /\ outcome' = "none"
           /\ todo' = {} /\ index' = 1 /\ index' \in 1 .. Len(ProbeCats) + 1
BY ConstantFacts DEF Return

LEMMA TypeStep ==
    ASSUME TypeInv, [Next]_vars
    PROVE  TypeInv'
<1> USE DEF TypeInv, TypeOK, Shape, WithoutObject
<1>1. ASSUME NEW o \in Objects, NEW c \in Cats, StartOperate(o, c) PROVE TypeInv'
  BY <1>1 DEF StartOperate, Start, deviceVars, probeVars, ghostVars, Pcs, OperatePcs
<1>2. ASSUME NEW o \in Objects, NEW c \in Cats, StartSelect(o, c) PROVE TypeInv'
  BY <1>2 DEF StartSelect, Start, deviceVars, probeVars, ghostVars, Pcs
<1>3. ASSUME NEW o \in Objects, NEW c \in Cats, StartCancel(o, c) PROVE TypeInv'
  BY <1>3 DEF StartCancel, Start, deviceVars, probeVars, ghostVars, Pcs
<1>4. ASSUME NEW S \in SUBSET Objects \ {{}}, StartProbe(S) PROVE TypeInv'
  BY <1>4 DEF StartProbe, deviceVars, ctlVars, callVars, ghostVars, Pcs, ProbePcs
<1>5. CASE OperateSelects
  <2>1. obj \in Objects
    BY <1>5 DEF OperateSelects
  <2>2. PICK r : SelectRequest(obj, r)
    BY <1>5 DEF OperateSelects
  <2>3. pc' \in {"op_operate", "op_finish"} /\ outcome' \in {outcome, "failed"}
        /\ UNCHANGED <<origin, selected, obj, applBefore, took, probeVars>>
    BY <1>5 DEF OperateSelects
  <2>4. QED
    BY <2>1, <2>2, <2>3, SelectRequestType DEF probeVars, Pcs, OperatePcs
<1>6. CASE PrepareOperate
  <2>1. obj \in Objects
    BY <1>6 DEF PrepareOperate
  <2>2. num' \in [Objects -> Nums]
    BY <1>6, <2>1, BumpedType DEF PrepareOperate
  <2>3. wire' \in [Objects -> Seq(Terminations)]
    BY <1>6, <2>1, AgedTerminations DEF PrepareOperate
  <2>4. \A e \in Operations : [e EXCEPT !.of = "earlier"] \in Operations
    BY DEF Operations
  <2>5. exec' \in [Objects -> Operations \cup {Nothing}]
    BY <1>6, <2>1, <2>4 DEF PrepareOperate
  <2>6. arrived' \in [Objects -> Seq(Terminations)]
    BY <1>6, <2>1 DEF PrepareOperate
  <2>7. QED
    BY <1>6, <2>1, <2>2, <2>3, <2>5, <2>6 DEF PrepareOperate, probeVars, ghostVars, Pcs, OperatePcs
<1>7. CASE OperateAnswered
  <2>1. obj \in Objects
    BY <1>7 DEF OperateAnswered
  <2>2. [of |-> "this", ctlNum |-> num[obj]] \in Operations
    BY <2>1 DEF Operations
  <2>3. exec' \in [Objects -> Operations \cup {Nothing}] /\ appl' \in [Objects -> Nums \cup {Nothing}]
    <3>1. PICK e \in Operations \cup {Nothing} : exec' = [exec EXCEPT ![obj] = e] \/ exec' = exec
      BY <1>7, <2>2 DEF OperateAnswered
    <3>2. appl' = appl \/ appl' = [appl EXCEPT ![obj] = num[obj]]
      BY <1>7 DEF OperateAnswered
    <3>3. exec' \in [Objects -> Operations \cup {Nothing}]
      BY <2>1, <3>1
    <3>4. appl' \in [Objects -> Nums \cup {Nothing}]
      BY <2>1, <3>2
    <3>5. QED
      BY <3>3, <3>4
  <2>4. pc' \in {"op_wait", "op_finish"} /\ outcome' \in {outcome, "ok", "failed"}
    BY <1>7 DEF OperateAnswered
  <2>5. QED
    BY <1>7, <2>1, <2>3, <2>4 DEF OperateAnswered, probeVars, Pcs, OperatePcs, Requests
<1>8. CASE OperateUnanswered
  BY <1>8 DEF OperateUnanswered, deviceVars, ctlVars, probeVars, Pcs, OperatePcs, Requests
<1>9. CASE TakeTermination
  <2>1. obj \in Objects /\ arrived[obj] \in Seq(Terminations) /\ arrived[obj] # <<>>
    BY <1>9 DEF TakeTermination
  <2>2. Head(arrived[obj]) \in Terminations /\ Tail(arrived[obj]) \in Seq(Terminations)
    BY <2>1
  <2>3. QED
    BY <1>9, <2>1, <2>2 DEF TakeTermination, deviceVars, probeVars, ghostVars, Pcs, OperatePcs
<1>10. CASE WaitTimesOut
  BY <1>10 DEF WaitTimesOut, deviceVars, ctlVars, probeVars, ghostVars, Pcs, OperatePcs
<1>11. CASE Judge \/ JudgeAfterGrace
  <2>1. Verdict \in {"negative", "ok"}
    BY DEF Verdict
  <2>2. QED
    BY <1>11, <2>1 DEF Judge, JudgeAfterGrace, deviceVars, ctlVars, probeVars, ghostVars, Pcs, OperatePcs
<1>12. CASE Finish \/ ReadBack
  <2>1. (pc' = "op_readback" /\ UNCHANGED <<callVars, probeVars>>) \/ Return
    BY <1>12 DEF Finish, ReadBack
  <2>2. UNCHANGED <<deviceVars, link, wire, ctlVars, selected, told>> /\ unlogged' \subseteq unlogged
        /\ pc \notin WithoutObject
    BY <1>12 DEF Finish, ReadBack, Logged
  <2>3. QED
    BY <2>1, <2>2, ReturnType DEF deviceVars, ctlVars, callVars, probeVars, Pcs, OperatePcs
<1>13. CASE SelectOnly
  <2>1. obj \in Objects
    BY <1>13 DEF SelectOnly
  <2>2. PICK r : SelectRequest(obj, r)
    BY <1>13 DEF SelectOnly
  <2>3. pc' = "sel_store" /\ outcome' \in {"ok", "failed"} /\ UNCHANGED <<origin, selected, obj, applBefore, took, probeVars>>
    BY <1>13 DEF SelectOnly
  <2>4. QED
    BY <2>1, <2>2, <2>3, SelectRequestType DEF probeVars, Pcs
<1>14. CASE StoreSelection \/ ForgetSelection
  <2>1. obj \in Objects
    BY <1>14 DEF StoreSelection, ForgetSelection
  <2>2. selected' \in [Objects -> Cats \cup {Nothing}]
    BY <1>14, <2>1 DEF StoreSelection, ForgetSelection
  <2>3. Return /\ UNCHANGED <<deviceVars, link, wire, ctlVars, told>> /\ unlogged' = {}
    BY <1>14 DEF StoreSelection, ForgetSelection, Logged
  <2>4. QED
    BY <2>2, <2>3, ReturnType DEF deviceVars, ctlVars, Pcs
<1>15. CASE Cancel
  <2>1. obj \in Objects
    BY <1>15 DEF Cancel
  <2>2. PICK a \in BOOLEAN : CancelRequest(obj, a)
    BY <1>15 DEF Cancel
  <2>3. pc' = "can_store" /\ UNCHANGED <<selected, callVars, probeVars>>
    BY <1>15 DEF Cancel
  <2>4. QED
    BY <2>1, <2>2, <2>3, CancelRequestType DEF callVars, probeVars, Pcs
<1>16. CASE NextObject
  <2>1. UNCHANGED <<deviceVars, link, wire, ctlVars, selected, told>> /\ unlogged' \subseteq unlogged /\ pc = "probe_next"
    BY <1>16 DEF NextObject, Logged
  <2>2. CASE Return
    BY <2>1, <2>2, ReturnType DEF deviceVars, ctlVars, Pcs
  <2>3. CASE ~Return
    <3>1. PICK o \in todo :
             /\ todo' = todo \ {o}
             /\ (obj' = o /\ pc' = "probe_select") \/ UNCHANGED <<obj, pc>>
             /\ index' = 1
             /\ UNCHANGED <<applBefore, took, outcome>>
      BY <1>16, <2>3 DEF NextObject
    <3>2. index' \in 1 .. Len(ProbeCats)
      BY <3>1, ConstantFacts
    <3>3. QED
      BY <2>1, <3>1, <3>2 DEF deviceVars, ctlVars, Pcs, ProbePcs
  <2>4. QED
    BY <2>2, <2>3
<1>17. CASE ProbeSelects
  <2>1. obj \in Objects /\ index \in 1 .. Len(ProbeCats)
    BY <1>17 DEF ProbeSelects
  <2>2. PICK r : SelectRequest(obj, r)
    BY <1>17 DEF ProbeSelects
  <2>3. /\ origin' = [origin EXCEPT ![obj] = ProbeCats[index]]
        /\ (pc' = "probe_cancel" /\ UNCHANGED index) \/ NextCat
        /\ UNCHANGED <<selected, callVars, todo>>
    BY <1>17 DEF ProbeSelects
  <2>4. origin' \in [Objects -> Cats \cup {Nothing}]
    BY <2>1, <2>3, ConstantFacts
  <2>5. pc' \in {"probe_cancel", "probe_next", "probe_select"} /\ index' \in 1 .. Len(ProbeCats) + 1
        /\ (pc' # "probe_next" => index' \in 1 .. Len(ProbeCats))
    BY <2>1, <2>3, ConstantFacts DEF NextCat
  <2>6. QED
    BY <2>1, <2>2, <2>3, <2>4, <2>5, SelectRequestType DEF callVars, Pcs, ProbePcs
<1>18. CASE ProbeCancels
  <2>1. obj \in Objects /\ index \in 1 .. Len(ProbeCats)
    BY <1>18 DEF ProbeCancels
  <2>2. PICK a \in BOOLEAN : CancelRequest(obj, a)
    BY <1>18 DEF ProbeCancels
  <2>3. (pc' = "probe_next" /\ UNCHANGED index) \/ NextCat
    BY <1>18 DEF ProbeCancels
  <2>4. pc' \in {"probe_next", "probe_select"} /\ index' \in 1 .. Len(ProbeCats) + 1
        /\ (pc' # "probe_next" => index' \in 1 .. Len(ProbeCats))
    BY <2>1, <2>3, ConstantFacts DEF NextCat
  <2>5. UNCHANGED <<selected, callVars, todo>>
    BY <1>18 DEF ProbeCancels
  <2>6. QED
    BY <2>1, <2>2, <2>4, <2>5, CancelRequestType DEF callVars, Pcs, ProbePcs
<1>19. ASSUME NEW o \in Objects, Terminate(o) PROVE TypeInv'
  <2>1. exec[o] \in Operations /\ wire[o] \in Seq(Terminations)
    BY <1>19 DEF Terminate
  <2>2. \A positive \in BOOLEAN : [of |-> exec[o].of, ctlNum |-> exec[o].ctlNum, positive |-> positive] \in Terminations
    BY <2>1 DEF Operations, Terminations
  <2>3. PICK positive \in BOOLEAN :
           wire' = [wire EXCEPT ![o] = Append(wire[o], [of |-> exec[o].of, ctlNum |-> exec[o].ctlNum, positive |-> positive])]
    BY <1>19 DEF Terminate
  <2>4. wire' \in [Objects -> Seq(Terminations)]
    BY <2>1, <2>2, <2>3, AppendProperties
  <2>5. QED
    BY <1>19, <2>4 DEF Terminate, ctlVars, callVars, probeVars, ghostVars
<1>20. ASSUME NEW o \in Objects, Deliver(o) PROVE TypeInv'
  <2>1. wire[o] \in Seq(Terminations) /\ wire[o] # <<>> /\ arrived[o] \in Seq(Terminations)
    BY <1>20 DEF Deliver
  <2>2. Head(wire[o]) \in Terminations /\ Tail(wire[o]) \in Seq(Terminations)
    BY <2>1
  <2>3. Append(arrived[o], Head(wire[o])) \in Seq(Terminations) /\ Head(wire[o]).ctlNum \in Nums
    BY <2>1, <2>2 DEF Terminations
  <2>4. QED
    BY <1>20, <2>2, <2>3 DEF Deliver, deviceVars, callVars, probeVars, ghostVars
<1>21. ASSUME NEW o \in Objects, StoreError(o) PROVE TypeInv'
  <2>1. appl' \in [Objects -> Nums \cup {Nothing}] /\ trailing' \in [Objects -> Nums \cup {Nothing}]
    BY <1>21 DEF StoreError
  <2>2. UNCHANGED <<deviceVars, link, wire, num, origin, arrived, selected, pc, callVars, probeVars, ghostVars>>
    BY <1>21 DEF StoreError
  <2>3. QED
    BY <2>1, <2>2 DEF deviceVars, callVars, probeVars, ghostVars
<1>22. ASSUME NEW o \in Objects, Expire(o) \/ OtherSelects(o) \/ OtherDeselects(o) PROVE TypeInv'
  <2>1. /\ sel' \in [Objects -> {"free", "mine", "other"}]
        /\ UNCHANGED <<exec, link, wire, ctlVars, selected, pc, callVars, probeVars, ghostVars>>
    BY <1>22 DEF Expire, OtherSelects, OtherDeselects
  <2>2. QED
    BY <2>1 DEF ctlVars, callVars, probeVars, ghostVars
<1>23. CASE Lose
  BY <1>23 DEF Lose, AssociationEnds, All, ctlVars, callVars, probeVars, ghostVars
<1>24. CASE NewAssociation
  BY <1>24, ConstantFacts DEF NewAssociation, AssociationEnds, All, callVars, probeVars, ghostVars
<1>25. CASE Interrupt
  BY <1>25, ReturnType DEF Interrupt, deviceVars, ctlVars, ghostVars, Pcs
<1>26. CASE UNCHANGED vars
  BY <1>26 DEF vars, deviceVars, ctlVars, callVars, probeVars, ghostVars
<1>27. QED
  BY <1>1, <1>2, <1>3, <1>4, <1>5, <1>6, <1>7, <1>8, <1>9, <1>10, <1>11, <1>12, <1>13, <1>14, <1>15, <1>16, <1>17, <1>18,
     <1>19, <1>20, <1>21, <1>22, <1>23, <1>24, <1>25, <1>26
     DEF Next, Operator, ThreadStep, Operating, Selecting, Probing, ConnectionStep, Device

LEMMA TypeInit == Init => TypeInv
BY ConstantFacts DEF Init, All, Idle, TypeInv, TypeOK, Shape, WithoutObject, Pcs

THEOREM TypeInvariant == Spec => []TypeInv
BY TypeInit, TypeStep, PTL DEF Spec

(* The control objects, selections and the running command keep their types, whatever goes wrong: the ctlNum its    *)
(* width, a probe its place (core/controls.py:453-720, adapter/client.py:587-772).                                  *)
THEOREM ControlTypes == Spec => []TypeOK
<1>1. TypeInv => TypeOK
  BY DEF TypeInv
<1>2. QED
  BY <1>1, TypeInvariant, PTL

-----------------------------------------------------------------------------
(* The session knows what it holds: any fault but a select whose reply is lost and an interrupt *)

LEMMA SelectRequestHolds ==
    ASSUME TypeOK, NEW o \in Objects, NEW r \in SelectResults(o), SelectRequest(o, r), "lost-reply" \notin Faults
    PROVE  \/ r = "ok" /\ link = "up" /\ sel' = [sel EXCEPT ![o] = "mine"] /\ told' = told \ {o}
           \/ r = "refused" /\ sel' = sel /\ told' = told
BY DEF SelectRequest, SelectResults

LEMMA CancelRequestHolds ==
    ASSUME TypeOK, NEW o \in Objects, NEW a \in BOOLEAN, CancelRequest(o, a)
    PROVE  /\ \A x \in Objects : sel'[x] = "mine" => sel[x] = "mine"
           /\ told \subseteq told'
           /\ sel'[o] = "mine" => o \in told'
           /\ a => sel'[o] # "mine"
BY DEF CancelRequest, TypeOK

LEMMA KnownStep ==
    ASSUME "lost-reply" \notin Faults, "interrupt" \notin Faults, TypeInv, KnownInv, [Next]_vars
    PROVE  KnownInv'
<1> USE DEF TypeInv, TypeOK, KnownInv, HeldIsKnown, RefusalIsTold, SelectsWhereNeeded, InHand, NeedsSelect
<1>o. pc \notin WithoutObject => obj \in Objects
  BY DEF Shape
<1>n. Nothing \notin Cats
  BY ConstantsAssumption
<1>1. ASSUME NEW o \in Objects, NEW c \in Cats, StartOperate(o, c) PROVE KnownInv'
  BY <1>1 DEF StartOperate, Start, deviceVars, probeVars, ghostVars
<1>2. ASSUME NEW o \in Objects, NEW c \in Cats, StartSelect(o, c) PROVE KnownInv'
  BY <1>2, <1>n DEF StartSelect, Start, deviceVars, probeVars, ghostVars
<1>3. ASSUME NEW o \in Objects, NEW c \in Cats, StartCancel(o, c) PROVE KnownInv'
  BY <1>3 DEF StartCancel, Start, deviceVars, probeVars, ghostVars
<1>4. ASSUME NEW S \in SUBSET Objects \ {{}}, StartProbe(S) PROVE KnownInv'
  BY <1>4 DEF StartProbe, deviceVars, ctlVars, callVars, ghostVars
<1>5. CASE OperateSelects
  <2>1. obj \in Objects
    BY <1>5, <1>o DEF OperateSelects, WithoutObject
  <2>2. PICK r \in SelectResults(obj) :
           /\ SelectRequest(obj, r)
           /\ pc' = IF r = "ok" THEN "op_operate" ELSE "op_finish"
    BY <1>5 DEF OperateSelects
  <2>3. UNCHANGED <<link, selected, obj>> /\ pc = "op_select"
    BY <1>5, <2>2 DEF OperateSelects, SelectRequest
  <2>4. QED
    BY <2>1, <2>2, <2>3, SelectRequestHolds
<1>6. CASE PrepareOperate
  BY <1>6 DEF PrepareOperate, probeVars, ghostVars
<1>7. CASE OperateAnswered
  BY <1>7, <1>o DEF OperateAnswered, WithoutObject
<1>8. CASE OperateUnanswered
  BY <1>8 DEF OperateUnanswered, deviceVars, ctlVars
<1>9. CASE TakeTermination \/ WaitTimesOut \/ Judge \/ JudgeAfterGrace
  BY <1>9 DEF TakeTermination, WaitTimesOut, Judge, JudgeAfterGrace, deviceVars, ctlVars, ghostVars
<1>10. CASE Finish \/ ReadBack
  BY <1>10 DEF Finish, ReadBack, Return, deviceVars, ctlVars, callVars
<1>11. CASE SelectOnly
  <2>1. obj \in Objects
    BY <1>11, <1>o DEF SelectOnly, WithoutObject
  <2>2. PICK r \in SelectResults(obj) : SelectRequest(obj, r) /\ outcome' = IF r = "ok" THEN "ok" ELSE "failed"
    BY <1>11 DEF SelectOnly
  <2>3. UNCHANGED <<link, origin, selected, obj>> /\ pc = "sel_select" /\ pc' = "sel_store"
    BY <1>11, <2>2 DEF SelectOnly, SelectRequest
  <2>4. QED
    BY <2>1, <2>2, <2>3, SelectRequestHolds
<1>12. CASE StoreSelection
  BY <1>12, <1>o DEF StoreSelection, Return, deviceVars, ctlVars, WithoutObject
<1>13. CASE Cancel
  <2>1. obj \in Objects
    BY <1>13, <1>o DEF Cancel, WithoutObject
  <2>2. PICK a \in BOOLEAN : CancelRequest(obj, a)
    BY <1>13 DEF Cancel
  <2>3. UNCHANGED <<link, selected, obj>> /\ pc = "can_cancel" /\ pc' = "can_store"
    BY <1>13, <2>2 DEF Cancel, CancelRequest, callVars
  <2>4. QED
    BY <2>1, <2>2, <2>3, CancelRequestHolds
<1>14. CASE ForgetSelection
  BY <1>14, <1>o DEF ForgetSelection, Return, deviceVars, ctlVars, WithoutObject
<1>15. CASE NextObject
  <2>1. UNCHANGED <<sel, link, selected, told>> /\ pc = "probe_next"
    BY <1>15 DEF NextObject, deviceVars
  <2>2. \/ pc' \in {"prompt", "probe_next"}
        \/ pc' = "probe_select" /\ NeedsSelect(obj')
    BY <1>15 DEF NextObject, Return
  <2>3. QED
    BY <2>1, <2>2
<1>16. CASE ProbeSelects
  <2>1. obj \in Objects
    BY <1>16, <1>o DEF ProbeSelects, WithoutObject
  <2>2. PICK r \in SelectResults(obj) :
           /\ SelectRequest(obj, r)
           /\ r = "ok" => pc' = "probe_cancel"
           /\ r # "ok" => pc' \in {"probe_next", "probe_select"}
    BY <1>16 DEF ProbeSelects, NextCat
  <2>3. UNCHANGED <<link, selected, obj>> /\ pc = "probe_select"
    BY <1>16, <2>2 DEF ProbeSelects, SelectRequest, callVars
  <2>4. QED
    BY <2>1, <2>2, <2>3, SelectRequestHolds
<1>17. CASE ProbeCancels
  <2>1. obj \in Objects
    BY <1>17, <1>o DEF ProbeCancels, WithoutObject
  <2>2. PICK a \in BOOLEAN : CancelRequest(obj, a)
    BY <1>17 DEF ProbeCancels
  <2>3. UNCHANGED <<link, selected, obj>> /\ pc = "probe_cancel" /\ pc' \in {"probe_next", "probe_select"}
    BY <1>17, <2>2 DEF ProbeCancels, CancelRequest, callVars, NextCat
  <2>4. QED
    BY <2>1, <2>2, <2>3, CancelRequestHolds
<1>18. ASSUME NEW o \in Objects, Terminate(o) \/ Deliver(o) \/ StoreError(o) PROVE KnownInv'
  <2>1. UNCHANGED <<sel, link, origin, selected, pc, obj, outcome, told>>
    BY <1>18 DEF Terminate, Deliver, StoreError, deviceVars, ctlVars, callVars, ghostVars
  <2>2. QED
    BY <2>1
<1>19. ASSUME NEW o \in Objects, Expire(o) \/ OtherSelects(o) \/ OtherDeselects(o) PROVE KnownInv'
  <2>1. UNCHANGED <<link, origin, selected, pc, obj, outcome, told>>
    BY <1>19 DEF Expire, OtherSelects, OtherDeselects, ctlVars, callVars, ghostVars
  <2>2. \A x \in Objects : sel'[x] = "mine" => sel[x] = "mine"
    <3>1. PICK v \in {"free", "other"} : sel' = [sel EXCEPT ![o] = v]
      BY <1>19 DEF Expire, OtherSelects, OtherDeselects
    <3>2. QED
      BY <3>1
  <2>3. obj \in Objects \/ pc # "can_store"
    BY <1>o DEF WithoutObject
  <2>4. QED
    BY <2>1, <2>2, <2>3
<1>20. CASE Lose
  <2>1. UNCHANGED <<origin, selected, pc, obj, outcome, told>>
    BY <1>20 DEF Lose, ctlVars, callVars, ghostVars
  <2>2. \A x \in Objects : sel'[x] # "mine"
    BY <1>20 DEF Lose, AssociationEnds
  <2>3. QED
    BY <2>1, <2>2, <1>o DEF WithoutObject
<1>21. CASE NewAssociation
  <2>1. pc = "prompt" /\ UNCHANGED pc
    BY <1>21 DEF NewAssociation
  <2>2. \A x \in Objects : sel'[x] # "mine"
    BY <1>21 DEF NewAssociation, AssociationEnds
  <2>3. QED
    BY <2>1, <2>2
<1>22. CASE Interrupt
  BY <1>22 DEF Interrupt
<1>23. CASE UNCHANGED vars
  BY <1>23 DEF vars, deviceVars, ctlVars, callVars, ghostVars
<1>24. QED
  BY <1>1, <1>2, <1>3, <1>4, <1>5, <1>6, <1>7, <1>8, <1>9, <1>10, <1>11, <1>12, <1>13, <1>14, <1>15, <1>16, <1>17, <1>18,
     <1>19, <1>20, <1>21, <1>22, <1>23
     DEF Next, Operator, ThreadStep, Operating, Selecting, Probing, ConnectionStep, Device

(* A selection the device holds for the tool is at the prompt remembered, so that `operate` uses it and `cancel`   *)
(* ends it, or was announced as remaining - unless a select took effect whose reply was lost, or the command was    *)
(* interrupted (core/controls.py:483-560, 586-720).                                                                 *)
THEOREM SelectionsAreKnown ==
    ASSUME "lost-reply" \notin Faults, "interrupt" \notin Faults
    PROVE  Spec => []SelectionsKnown
<1>1. Init => KnownInv
  BY DEF Init, All, KnownInv, HeldIsKnown, RefusalIsTold, SelectsWhereNeeded
<1>2. TypeInv /\ KnownInv /\ [Next]_vars => KnownInv'
  BY KnownStep
<1>3. KnownInv => SelectionsKnown
  BY DEF KnownInv, HeldIsKnown, SelectionsKnown, InHand
<1>4. QED
  BY <1>1, <1>2, <1>3, TypeInvariant, PTL DEF Spec

-----------------------------------------------------------------------------
(* What authority-probe goes through is not selected: any fault, as long as the operator does not touch what he has *)
(* selected                                                                                                        *)

LEMMA RequestsLeaveSession ==
    /\ \A o, r : SelectRequest(o, r) => UNCHANGED <<link, exec>>
    /\ \A o, a : CancelRequest(o, a) => UNCHANGED <<link, origin>>
BY DEF SelectRequest, CancelRequest

LEMMA OriginStep ==
    ASSUME "touch-selected" \notin Faults, TypeInv, ProbesUnselected, OriginInv, SelectsWhereNeeded, [Next]_vars
    PROVE  ProbesUnselected' /\ OriginInv' /\ SelectsWhereNeeded'
<1> DEFINE Inv == ProbesUnselected /\ OriginInv /\ SelectsWhereNeeded
<1> SUFFICES Inv'
  OBVIOUS
<1> USE DEF TypeInv, TypeOK, ProbesUnselected, OriginInv, SelectsWhereNeeded, NeedsSelect
<1>o. pc \notin WithoutObject => obj \in Objects
  BY DEF Shape
<1>n. Nothing \notin Cats
  BY ConstantsAssumption
<1>1. ASSUME NEW o \in Objects, NEW c \in Cats, StartOperate(o, c) PROVE Inv'
  BY <1>1 DEF StartOperate, Start, probeVars, ProbePcs
<1>2. ASSUME NEW o \in Objects, NEW c \in Cats, StartSelect(o, c) PROVE Inv'
  BY <1>2, <1>n DEF StartSelect, Start, probeVars, ProbePcs
<1>3. ASSUME NEW o \in Objects, NEW c \in Cats, StartCancel(o, c) PROVE Inv'
  BY <1>3 DEF StartCancel, Start, probeVars, ProbePcs
<1>4. ASSUME NEW S \in SUBSET Objects \ {{}}, StartProbe(S) PROVE Inv'
  BY <1>4 DEF StartProbe, ctlVars, callVars, ProbePcs
<1>5. CASE OperateSelects \/ SelectOnly
  <2>1. UNCHANGED <<origin, selected, obj, todo>> /\ pc' \in {"op_operate", "op_finish", "sel_store"}
        /\ (pc' = "sel_store" => pc = "sel_select")
    BY <1>5 DEF OperateSelects, SelectOnly, probeVars
  <2>2. QED
    BY <2>1 DEF ProbePcs
<1>6. CASE PrepareOperate \/ OperateAnswered \/ OperateUnanswered
  <2>1. UNCHANGED <<origin, selected, obj, todo>> /\ pc' \in {"op_sent", "op_wait", "op_finish"}
    BY <1>6 DEF PrepareOperate, OperateAnswered, OperateUnanswered, probeVars, ctlVars
  <2>2. QED
    BY <2>1 DEF ProbePcs
<1>7. CASE TakeTermination \/ WaitTimesOut \/ Judge \/ JudgeAfterGrace
  <2>1. UNCHANGED <<origin, selected, obj, todo>> /\ pc' \in {"op_judge", "op_grace", "op_finish"}
    BY <1>7 DEF TakeTermination, WaitTimesOut, Judge, JudgeAfterGrace, probeVars, ctlVars
  <2>2. QED
    BY <2>1 DEF ProbePcs
<1>8. CASE Finish \/ ReadBack \/ Interrupt
  <2>1. UNCHANGED <<origin, selected>> /\ pc' \in {"op_readback", "prompt"}
    BY <1>8 DEF Finish, ReadBack, Interrupt, Return, ctlVars
  <2>2. QED
    BY <2>1 DEF ProbePcs
<1>9. CASE StoreSelection
  <2>1. UNCHANGED origin /\ pc = "sel_store" /\ pc' = "prompt" /\ obj \in Objects
    BY <1>9, <1>o DEF StoreSelection, Return, ctlVars, WithoutObject
  <2>2. \A x \in Objects : selected'[x] = selected[x] \/ (x = obj /\ selected'[x] = origin[x])
    BY <1>9, <2>1 DEF StoreSelection
  <2>3. QED
    BY <2>1, <2>2 DEF ProbePcs
<1>10. CASE Cancel
  <2>1. UNCHANGED <<origin, selected, obj, todo>> /\ pc' = "can_store"
    BY <1>10, RequestsLeaveSession DEF Cancel, probeVars, callVars
  <2>2. QED
    BY <2>1 DEF ProbePcs
<1>11. CASE ForgetSelection
  <2>1. UNCHANGED origin /\ pc' = "prompt" /\ \A x \in Objects : selected'[x] = selected[x] \/ selected'[x] = Nothing
    BY <1>11 DEF ForgetSelection, Return, ctlVars
  <2>2. QED
    BY <2>1 DEF ProbePcs
<1>12. CASE NextObject
  <2>1. UNCHANGED <<origin, selected>> /\ pc = "probe_next" /\ todo' \subseteq todo
    BY <1>12 DEF NextObject, ctlVars, Return
  <2>2. \/ pc' \in {"prompt", "probe_next"}
        \/ pc' = "probe_select" /\ NeedsSelect(obj') /\ obj' \in todo
    BY <1>12 DEF NextObject, Return
  <2>3. QED
    BY <2>1, <2>2 DEF ProbePcs
<1>13. CASE ProbeSelects
  <2>1. /\ pc = "probe_select" /\ pc' \in {"probe_cancel", "probe_next", "probe_select"} /\ obj \in Objects
        /\ UNCHANGED <<selected, obj, todo>>
    BY <1>13, <1>o DEF ProbeSelects, NextCat, callVars, WithoutObject
  <2>2. \A x \in Objects : x # obj => origin'[x] = origin[x]
    BY <1>13 DEF ProbeSelects
  <2>3. QED
    BY <2>1, <2>2 DEF ProbePcs
<1>14. CASE ProbeCancels
  <2>1. /\ pc = "probe_cancel" /\ pc' \in {"probe_next", "probe_select"}
        /\ UNCHANGED <<origin, selected, obj, todo>>
    BY <1>14, RequestsLeaveSession DEF ProbeCancels, NextCat, callVars
  <2>2. QED
    BY <2>1 DEF ProbePcs
<1>15. ASSUME NEW o \in Objects,
              Terminate(o) \/ Deliver(o) \/ StoreError(o) \/ Expire(o) \/ OtherSelects(o) \/ OtherDeselects(o)
       PROVE  Inv'
  <2>1. UNCHANGED <<origin, selected, pc, obj, todo>>
    BY <1>15 DEF Terminate, Deliver, StoreError, Expire, OtherSelects, OtherDeselects, ctlVars, callVars, probeVars
  <2>2. QED
    BY <2>1
<1>16. CASE Lose \/ UNCHANGED vars
  <2>1. UNCHANGED <<origin, selected, pc, obj, todo>>
    BY <1>16 DEF Lose, vars, ctlVars, callVars, probeVars
  <2>2. QED
    BY <2>1
<1>17. CASE NewAssociation
  BY <1>17 DEF NewAssociation, All, ProbePcs
<1>18. QED
  BY <1>1, <1>2, <1>3, <1>4, <1>5, <1>6, <1>7, <1>8, <1>9, <1>10, <1>11, <1>12, <1>13, <1>14, <1>15, <1>16, <1>17
     DEF Next, Operator, ThreadStep, Operating, Selecting, Probing, ConnectionStep, Device

LEMMA OriginInit == Init => ProbesUnselected /\ OriginInv /\ SelectsWhereNeeded
BY DEF Init, All, ProbesUnselected, OriginInv, SelectsWhereNeeded, ProbePcs

(* ORG-1, ORG-2: a selection is cancelled with the origin it was made with, whatever else fails or is interrupted    *)
(* (core/controls.py:586-650).                                                                                      *)
THEOREM CancelKeepsOrigin ==
    ASSUME "touch-selected" \notin Faults
    PROVE  Spec => []CancelCarriesSelectOrigin
<1> DEFINE Inv == ProbesUnselected /\ OriginInv /\ SelectsWhereNeeded
<1>1. Init => Inv
  BY OriginInit
<1>2. TypeInv /\ Inv /\ [Next]_vars => Inv'
  BY OriginStep
<1>3. TypeInv /\ Inv => CancelCarriesSelectOrigin
  BY DEF TypeInv, Shape, WithoutObject, OriginInv, CancelCarriesSelectOrigin
<1> HIDE DEF Inv
<1>4. QED
  BY <1>1, <1>2, <1>3, TypeInvariant, PTL DEF Spec

-----------------------------------------------------------------------------
(* No second select: when moreover no cancel of a selection is refused *)

LEMMA SelectStep ==
    ASSUME "cancel-refused" \notin Faults, "lost-reply" \notin Faults, "interrupt" \notin Faults,
           TypeInv, KnownInv, ProbesUnselected, told = {}, NoSecondSelect, [Next]_vars
    PROVE  told' = {} /\ NoSecondSelect'
<1> DEFINE Inv == told = {} /\ NoSecondSelect
<1> SUFFICES Inv'
  OBVIOUS
<1> USE DEF TypeInv, TypeOK, NoSecondSelect
<1>o. pc \notin WithoutObject => obj \in Objects
  BY DEF Shape
<1>k. \A o \in Objects : sel[o] = "mine" => link = "up" /\ (selected[o] # Nothing \/ InHand(o))
  BY DEF KnownInv, HeldIsKnown
<1>1. ASSUME NEW o \in Objects, NEW c \in Cats, StartOperate(o, c) \/ StartSelect(o, c) \/ StartCancel(o, c)
      PROVE  Inv'
  <2>1. pc = "prompt" /\ obj' = o /\ UNCHANGED <<sel, told>>
    BY <1>1 DEF StartOperate, StartSelect, StartCancel, Start, deviceVars, ghostVars
  <2>2. pc' \in {"op_operate", "sel_select", "can_cancel"} \/ (pc' = "op_select" /\ selected[o] = Nothing)
    BY <1>1 DEF StartOperate, StartSelect, StartCancel, Start
  <2>3. ~InHand(o)
    BY <2>1 DEF InHand
  <2>4. QED
    BY <2>1, <2>2, <2>3, <1>k
<1>2. ASSUME NEW S \in SUBSET Objects \ {{}}, StartProbe(S) PROVE Inv'
  BY <1>2 DEF StartProbe, ghostVars
<1>3. CASE OperateSelects \/ SelectOnly
  <2>1. obj \in Objects
    BY <1>3, <1>o DEF OperateSelects, SelectOnly, WithoutObject
  <2>2. PICK r \in SelectResults(obj) : SelectRequest(obj, r)
    BY <1>3 DEF OperateSelects, SelectOnly
  <2>3. pc' \in {"op_operate", "op_finish", "sel_store"}
    BY <1>3 DEF OperateSelects, SelectOnly
  <2>4. QED
    BY <2>1, <2>2, <2>3, SelectRequestHolds
<1>4. CASE PrepareOperate \/ OperateAnswered \/ OperateUnanswered
  <2>1. UNCHANGED told /\ pc' \in {"op_sent", "op_wait", "op_finish"}
    BY <1>4 DEF PrepareOperate, OperateAnswered, OperateUnanswered, ghostVars
  <2>2. QED
    BY <2>1
<1>5. CASE TakeTermination \/ WaitTimesOut \/ Judge \/ JudgeAfterGrace
  <2>1. UNCHANGED told /\ pc' \in {"op_judge", "op_grace", "op_finish"}
    BY <1>5 DEF TakeTermination, WaitTimesOut, Judge, JudgeAfterGrace, ghostVars
  <2>2. QED
    BY <2>1
<1>6. CASE Finish \/ ReadBack \/ StoreSelection \/ ForgetSelection
  <2>1. UNCHANGED told /\ pc' \in {"op_readback", "prompt"}
    BY <1>6 DEF Finish, ReadBack, StoreSelection, ForgetSelection, Return
  <2>2. QED
    BY <2>1
<1>7. CASE Cancel \/ ProbeCancels
  <2>1. obj \in Objects
    BY <1>7, <1>o DEF Cancel, ProbeCancels, WithoutObject
  <2>2. PICK a \in BOOLEAN : CancelRequest(obj, a) /\ (pc' = "probe_select" => a)
    BY <1>7 DEF Cancel, ProbeCancels, NextCat
  <2>3. UNCHANGED obj /\ pc' # "op_select"
    BY <1>7 DEF Cancel, ProbeCancels, callVars, NextCat
  <2>4. ~a /\ sel[obj] = "mine" => link # "up"
    BY <2>2 DEF CancelRequest
  <2>5. told' = told
    BY <2>1, <2>2, <2>4, <1>k DEF CancelRequest
  <2>6. QED
    BY <2>1, <2>2, <2>3, <2>5, CancelRequestHolds
<1>8. CASE NextObject
  <2>1. UNCHANGED <<sel, told>> /\ pc = "probe_next" /\ pc' # "op_select"
    BY <1>8 DEF NextObject, deviceVars, Return
  <2>2. pc' = "probe_select" => obj' \in todo
    BY <1>8 DEF NextObject, Return
  <2>3. \A o \in todo : ~InHand(o) /\ selected[o] = Nothing
    BY <2>1 DEF InHand, ProbesUnselected, ProbePcs
  <2>4. QED
    BY <2>1, <2>2, <2>3, <1>k
<1>9. CASE ProbeSelects
  <2>1. obj \in Objects /\ sel[obj] # "mine"
    BY <1>9, <1>o DEF ProbeSelects, WithoutObject
  <2>2. PICK r \in SelectResults(obj) : SelectRequest(obj, r) /\ (r = "ok" => pc' = "probe_cancel")
    BY <1>9 DEF ProbeSelects
  <2>3. UNCHANGED obj /\ pc' # "op_select"
    BY <1>9 DEF ProbeSelects, NextCat, callVars
  <2>4. QED
    BY <2>1, <2>2, <2>3, SelectRequestHolds
<1>10. ASSUME NEW o \in Objects, Terminate(o) \/ Deliver(o) \/ StoreError(o) PROVE Inv'
  <2>1. UNCHANGED <<sel, pc, obj, told>>
    BY <1>10 DEF Terminate, Deliver, StoreError, deviceVars, callVars, ghostVars
  <2>2. QED
    BY <2>1
<1>11. ASSUME NEW o \in Objects, Expire(o) \/ OtherSelects(o) \/ OtherDeselects(o) PROVE Inv'
  <2>1. UNCHANGED <<pc, obj, told>>
    BY <1>11 DEF Expire, OtherSelects, OtherDeselects, callVars, ghostVars
  <2>2. PICK v \in {"free", "other"} : sel' = [sel EXCEPT ![o] = v]
    BY <1>11 DEF Expire, OtherSelects, OtherDeselects
  <2>3. pc \in {"op_select", "probe_select"} => obj \in Objects
    BY <1>o DEF WithoutObject
  <2>4. QED
    BY <2>1, <2>2, <2>3
<1>12. CASE Lose
  <2>1. UNCHANGED <<pc, obj, told>>
    BY <1>12 DEF Lose, callVars, ghostVars
  <2>2. \A x \in Objects : sel'[x] # "mine"
    BY <1>12 DEF Lose, AssociationEnds
  <2>3. pc \in {"op_select", "probe_select"} => obj \in Objects
    BY <1>o DEF WithoutObject
  <2>4. QED
    BY <2>1, <2>2, <2>3
<1>13. CASE NewAssociation
  BY <1>13 DEF NewAssociation, ghostVars
<1>14. CASE Interrupt
  BY <1>14 DEF Interrupt
<1>15. CASE UNCHANGED vars
  BY <1>15 DEF vars, deviceVars, callVars, ghostVars
<1>16. QED
  BY <1>1, <1>2, <1>3, <1>4, <1>5, <1>6, <1>7, <1>8, <1>9, <1>10, <1>11, <1>12, <1>13, <1>14, <1>15
     DEF Next, Operator, ThreadStep, Operating, Selecting, Probing, ConnectionStep, Device

(* "A second select of a selected object is refused by the device" (core/controls.py:483): none is sent, whatever    *)
(* the objects, as long as the device tells the truth, cancels what it is asked to, and nobody interrupts.           *)
THEOREM NeverSelectsTwice ==
    ASSUME "cancel-refused" \notin Faults, "lost-reply" \notin Faults, "interrupt" \notin Faults,
           "touch-selected" \notin Faults
    PROVE  Spec => []NoSecondSelect
<1> DEFINE Origins == ProbesUnselected /\ OriginInv /\ SelectsWhereNeeded
           Selects == told = {} /\ NoSecondSelect
<1>1. Init => KnownInv /\ Origins /\ Selects
  <2>1. Init => Origins
    BY OriginInit
  <2>2. Init => KnownInv /\ Selects
    BY DEF Init, All, KnownInv, HeldIsKnown, RefusalIsTold, SelectsWhereNeeded, NoSecondSelect
  <2>3. QED
    BY <2>1, <2>2
<1>2. TypeInv /\ KnownInv /\ [Next]_vars => KnownInv'
  BY KnownStep
<1>3. TypeInv /\ Origins /\ [Next]_vars => Origins'
  BY OriginStep
<1>4. TypeInv /\ KnownInv /\ Origins /\ Selects /\ [Next]_vars => Selects'
  BY SelectStep
<1>5. Selects => NoSecondSelect
  OBVIOUS
<1> HIDE DEF Origins, Selects
<1>6. QED
  BY <1>1, <1>2, <1>3, <1>4, <1>5, TypeInvariant, PTL DEF Spec

-----------------------------------------------------------------------------
(* The log *)

LEMMA LogStep ==
    ASSUME "interrupt" \notin Faults, "loss-in-readback" \notin Faults, "loss-in-probe" \notin Faults,
           LogInv, [Next]_vars
    PROVE  LogInv'
<1> USE DEF LogInv, EveryControlLogged, ProbePcs
<1>1. ASSUME NEW o \in Objects, NEW c \in Cats, StartOperate(o, c) \/ StartSelect(o, c) \/ StartCancel(o, c)
      PROVE  LogInv'
  BY <1>1 DEF StartOperate, StartSelect, StartCancel, Start
<1>2. ASSUME NEW S \in SUBSET Objects \ {{}}, StartProbe(S) PROVE LogInv'
  BY <1>2 DEF StartProbe
<1>3. CASE Operating
  <2>1. CASE Finish
    BY <2>1 DEF Finish, Return, Logged
  <2>2. CASE ReadBack
    BY <2>2 DEF ReadBack, Return, Logged
  <2>3. CASE ~Finish /\ ~ReadBack
    <3>1. pc' \in {"op_operate", "op_sent", "op_wait", "op_judge", "op_grace", "op_finish"}
      BY <1>3, <2>3 DEF Operating, OperateSelects, PrepareOperate, OperateAnswered, OperateUnanswered, TakeTermination,
                        WaitTimesOut, Judge, JudgeAfterGrace
    <3>2. QED
      BY <3>1
  <2>4. QED
    BY <2>1, <2>2, <2>3
<1>4. CASE Selecting
  BY <1>4 DEF Selecting, SelectOnly, StoreSelection, Cancel, ForgetSelection, Return, Logged
<1>5. CASE NextObject
  BY <1>5 DEF NextObject, Return, Logged
<1>6. CASE ProbeSelects \/ ProbeCancels
  <2>1. pc \in ProbePcs /\ pc' \in ProbePcs
    BY <1>6 DEF ProbeSelects, ProbeCancels, NextCat
  <2>2. UNCHANGED link
    BY <1>6, RequestsLeaveSession DEF ProbeSelects, ProbeCancels
  <2>3. QED
    BY <2>1, <2>2
<1>7. ASSUME NEW o \in Objects,
             Terminate(o) \/ Deliver(o) \/ StoreError(o) \/ Expire(o) \/ OtherSelects(o) \/ OtherDeselects(o)
      PROVE  LogInv'
  <2>1. UNCHANGED <<link, pc, unlogged>>
    BY <1>7 DEF Terminate, Deliver, StoreError, Expire, OtherSelects, OtherDeselects, ghostVars
  <2>2. QED
    BY <2>1
<1>8. CASE Lose
  BY <1>8 DEF Lose, ghostVars
<1>9. CASE NewAssociation
  BY <1>9 DEF NewAssociation, ghostVars
<1>10. CASE Interrupt
  BY <1>10 DEF Interrupt
<1>11. CASE UNCHANGED vars
  BY <1>11 DEF vars, ghostVars
<1>12. QED
  BY <1>1, <1>2, <1>3, <1>4, <1>5, <1>6, <1>7, <1>8, <1>9, <1>10, <1>11
     DEF Next, Operator, ThreadStep, Probing, ConnectionStep, Device

(* CTL-10: what a control command has sent is in the log when it is over, whatever the device answers or the         *)
(* association does - but for a loss inside the read of stVal or inside authority-probe, where NotConnectedError     *)
(* leaves the command, and for an interrupt (core/controls.py:545-585, 653-720).                                     *)
THEOREM ControlsAreLogged ==
    ASSUME "interrupt" \notin Faults, "loss-in-readback" \notin Faults, "loss-in-probe" \notin Faults
    PROVE  Spec => []EveryControlLogged
<1>1. Init => LogInv
  BY DEF Init, LogInv, EveryControlLogged, ProbePcs
<1>2. LogInv /\ [Next]_vars => LogInv'
  BY LogStep
<1>3. LogInv => EveryControlLogged
  BY DEF LogInv
<1>4. QED
  BY <1>1, <1>2, <1>3, PTL DEF Spec
-----------------------------------------------------------------------------
(* The verdict: terminations and their errors come in time, no ctlNum comes back, no selection is touched, nobody *)
(* interrupts                                                                                                     *)

LEMMA BumpedWithRoom ==
    ASSUME NEW o \in Objects, num \in [Objects -> Nums], num[o] + 1 < Modulus
    PROVE  Bumped(o) = num[o] + 1
<1>1. num[o] \in Nat /\ Modulus \in Nat \ {0}
  BY ConstantFacts DEF Nums
<1>2. \A n \in Nat, m \in Nat \ {0} : n < m => n % m = n
  OBVIOUS
<1>3. QED
  BY <1>1, <1>2 DEF Bumped

(* Numbers stay numbers. *)
Numbered == \A o \in Objects : num[o] \in Nat /\ (appl[o] # Nothing => appl[o] \in Nat /\ appl[o] <= num[o])

LEMMA NumberedBy ==
    ASSUME TypeOK, NumberInv
    PROVE  Numbered
BY ConstantFacts DEF TypeOK, NumberInv, Numbered, Nums

(* A select takes the next number, which no error carries unless the device refuses it. *)
LEMMA SelectRequestNumber ==
    ASSUME TypeOK, NumberInv, NEW o \in Objects, NEW r \in SelectResults(o), SelectRequest(o, r),
           num[o] + 1 < Modulus
    PROVE  /\ num' = [num EXCEPT ![o] = num[o] + 1]
           /\ \A x \in Objects : x # o => appl'[x] = appl[x]
           /\ \A x \in Objects : appl'[x] # Nothing => appl'[x] <= num'[x]
           /\ r # "refused" => appl'[o] # num'[o]
           /\ UNCHANGED <<exec, link, wire, trailing, arrived>>
<1>1. Numbered
  BY NumberedBy
<1>2. Bumped(o) = num[o] + 1
  BY BumpedWithRoom DEF TypeOK
<1>3. num' = [num EXCEPT ![o] = num[o] + 1] /\ UNCHANGED <<exec, link, wire, trailing, arrived>>
  BY <1>2 DEF SelectRequest
<1>4. appl' = appl \/ (r = "refused" /\ appl' = [appl EXCEPT ![o] = num[o] + 1])
  BY <1>2 DEF SelectRequest
<1>5. num'[o] = num[o] + 1 /\ \A x \in Objects : x # o => num'[x] = num[x]
  BY <1>3 DEF TypeOK
<1>6. Nothing \notin Nat \/ Nothing # num[o] + 1
  BY <1>1, ConstantsAssumption DEF Nums
<1>7. QED
  BY <1>1, <1>3, <1>4, <1>5, ConstantsAssumption DEF TypeOK, Numbered, Nums

LEMMA CancelRequestNumber ==
    ASSUME TypeOK, NumberInv, NEW o \in Objects, NEW a \in BOOLEAN, CancelRequest(o, a)
    PROVE  /\ \A x \in Objects : x # o => appl'[x] = appl[x]
           /\ \A x \in Objects : appl'[x] # Nothing => appl'[x] <= num[x]
           /\ UNCHANGED <<exec, link, wire, num, trailing, arrived>>
<1>1. Numbered
  BY NumberedBy
<1>2. QED
  BY <1>1 DEF CancelRequest, TypeOK, NumberInv, Numbered

LEMMA VerdictStart ==
    ASSUME "wrap" \notin Faults, "touch-selected" \notin Faults, TypeInv, OriginInv, VerdictInv,
           \/ \E o \in Objects, c \in Cats : StartOperate(o, c) \/ StartSelect(o, c) \/ StartCancel(o, c)
           \/ \E S \in SUBSET Objects \ {{}} : StartProbe(S)
    PROVE  VerdictInv'
<1> USE DEF TypeInv, TypeOK
<1>c. Len(ProbeCats) \in Nat /\ Len(ProbeCats) >= 1 /\ Modulus \in Nat \ {0}
  BY ConstantFacts
<1>n. \A o \in Objects : num[o] \in Nat
  BY DEF Nums
<1>q. pc = "prompt" /\ link = "up" /\ took = Nothing /\ UNCHANGED <<exec, link, wire, num, appl, trailing, arrived, took, outcome>>
  BY DEF StartOperate, StartSelect, StartCancel, Start, StartProbe, deviceVars, ctlVars, callVars, VerdictInv, WaitInv
<1>f. \A o \in Objects : selected[o] # Nothing => appl[o] # num[o]
  BY <1>q DEF VerdictInv, NumberInv, Fresh
<1>z. ASSUME pc' \in {"op_select", "op_operate", "sel_select", "can_cancel", "probe_next"} PROVE QuietInv' /\ WaitInv'
  BY <1>z, <1>q DEF VerdictInv, QuietInv, WaitInv, Waiting, Still
<1>1. ASSUME NEW o \in Objects, NEW c \in Cats, StartOperate(o, c) PROVE VerdictInv'
  <2>1. /\ obj' = o /\ pc' = IF NeedsSelect(o) /\ selected[o] = Nothing THEN "op_select" ELSE "op_operate"
        /\ selected' = (IF NeedsSelect(o) THEN [selected EXCEPT ![o] = Nothing] ELSE selected)
        /\ num[o] + Len(ProbeCats) < Modulus
    BY <1>1 DEF StartOperate, Start, RoomFor
  <2>2. selected'[o] = Nothing /\ \A x \in Objects : x # o => selected'[x] = selected[x]
    BY <2>1 DEF OriginInv
  <2>3. RoomInv'
    BY <2>1, <1>q, <1>c, <1>n DEF RoomInv, ProbePcs
  <2>4. NumberInv'
    BY <2>1, <2>2, <1>q, <1>f DEF VerdictInv, NumberInv, Fresh
  <2>5. QED
    BY <2>1, <2>3, <2>4, <1>z DEF VerdictInv
<1>2. ASSUME NEW o \in Objects, NEW c \in Cats, StartSelect(o, c) PROVE VerdictInv'
  <2>1. obj' = o /\ pc' = "sel_select" /\ selected' = selected /\ selected[o] = Nothing /\ num[o] + Len(ProbeCats) < Modulus
    BY <1>2 DEF StartSelect, Start, RoomFor
  <2>3. RoomInv'
    BY <2>1, <1>q, <1>c, <1>n DEF RoomInv, ProbePcs
  <2>4. NumberInv'
    BY <2>1, <1>q, <1>f DEF VerdictInv, NumberInv, Fresh
  <2>5. QED
    BY <2>1, <2>3, <2>4, <1>z DEF VerdictInv
<1>3. ASSUME NEW o \in Objects, NEW c \in Cats, StartCancel(o, c) PROVE VerdictInv'
  <2>1. obj' = o /\ pc' = "can_cancel" /\ selected' = selected
    BY <1>3 DEF StartCancel, Start
  <2>2. RoomInv' /\ NumberInv'
    BY <2>1, <1>q, <1>f DEF VerdictInv, RoomInv, NumberInv, Fresh, OperatePcs, ProbePcs
  <2>3. QED
    BY <2>1, <2>2, <1>z DEF VerdictInv
<1>4. ASSUME NEW S \in SUBSET Objects \ {{}}, StartProbe(S) PROVE VerdictInv'
  <2>1. pc' = "probe_next" /\ selected' = selected /\ todo' = S /\ obj' = obj /\ \A o \in S : num[o] + Len(ProbeCats) < Modulus
    BY <1>4 DEF StartProbe, RoomFor, callVars
  <2>2. RoomInv' /\ NumberInv'
    BY <2>1, <1>q, <1>f DEF VerdictInv, RoomInv, NumberInv, Fresh, OperatePcs, ProbePcs
  <2>3. QED
    BY <2>1, <2>2, <1>z DEF VerdictInv
<1>5. QED
  BY <1>1, <1>2, <1>3, <1>4

(* While a command selects, cancels or probes, nothing is under way: its requests keep it so. *)
LEMMA VerdictSelect ==
    ASSUME "wrap" \notin Faults, TypeInv, SelectsWhereNeeded, ProbesUnselected, VerdictInv,
           OperateSelects \/ SelectOnly \/ ProbeSelects
    PROVE  VerdictInv'
<1> USE DEF TypeInv, TypeOK
<1>c. Len(ProbeCats) \in Nat /\ Len(ProbeCats) >= 1 /\ Modulus \in Nat \ {0} /\ index \in Nat /\ index >= 1
  BY ConstantFacts
<1>n. \A o \in Objects : num[o] \in Nat
  BY DEF Nums
<1>o. pc \in {"op_select", "sel_select", "probe_select"} /\ obj \in Objects /\ UNCHANGED <<obj, selected, todo, took>>
  BY DEF OperateSelects, SelectOnly, ProbeSelects, callVars, probeVars, Shape, WithoutObject
<1>i. pc = "probe_select" => index \in 1 .. Len(ProbeCats)
  BY DEF Shape
<1>s. selected[obj] = Nothing
  BY <1>o DEF VerdictInv, NumberInv, ProbesUnselected, OperatePcs
<1>m. num[obj] + 1 < Modulus
  BY <1>o, <1>i, <1>c, <1>n DEF VerdictInv, RoomInv
<1>1. PICK r \in SelectResults(obj) :
         /\ SelectRequest(obj, r)
         /\ \/ /\ pc = "op_select"
               /\ pc' = IF r = "ok" THEN "op_operate" ELSE "op_finish"
            \/ /\ pc = "sel_select" /\ pc' = "sel_store"
               /\ outcome' = IF r = "ok" THEN "ok" ELSE "failed"
            \/ /\ pc = "probe_select"
               /\ \/ r = "ok" /\ pc' = "probe_cancel" /\ index' = index
                  \/ NextCat
  BY DEF OperateSelects, SelectOnly, ProbeSelects
<1>2. /\ num' = [num EXCEPT ![obj] = num[obj] + 1]
      /\ \A x \in Objects : x # obj => appl'[x] = appl[x]
      /\ \A x \in Objects : appl'[x] # Nothing => appl'[x] <= num'[x]
      /\ r # "refused" => appl'[obj] # num'[obj]
      /\ UNCHANGED <<exec, link, wire, trailing, arrived>>
  BY <1>o, <1>m, <1>1, SelectRequestNumber DEF VerdictInv
<1>3. num'[obj] = num[obj] + 1 /\ \A x \in Objects : x # obj => num'[x] = num[x]
  BY <1>2, <1>o
<1>4. QuietInv' /\ WaitInv'
  BY <1>o, <1>1, <1>2 DEF VerdictInv, QuietInv, WaitInv, Waiting, Still, NextCat
<1>5. NumberInv'
  BY <1>o, <1>s, <1>1, <1>2, <1>3 DEF VerdictInv, NumberInv, Fresh, NextCat, OperatePcs
<1>6. RoomInv'
  <2>1. CASE pc = "op_select" \/ pc = "sel_select"
    BY <2>1, <1>1, <1>o DEF RoomInv, ProbePcs, SelectsWhereNeeded
  <2>2. CASE pc = "probe_select"
    <3>1. num[obj] + Len(ProbeCats) - index + 1 < Modulus
      BY <2>2 DEF VerdictInv, RoomInv
    <3>2. \/ pc' = "probe_cancel" /\ index' = index
          \/ pc' \in {"probe_next", "probe_select"} /\ index' = index + 1
      BY <2>2, <1>1 DEF NextCat
    <3>3. obj \notin todo /\ \A x \in todo : num'[x] + Len(ProbeCats) < Modulus
      BY <2>2, <1>3 DEF VerdictInv, RoomInv, ProbePcs
    <3>4. QED
      BY <3>1, <3>2, <3>3, <1>3, <1>o, <1>c, <1>n DEF RoomInv, ProbePcs
  <2>3. QED
    BY <2>1, <2>2, <1>o
<1>7. QED
  BY <1>4, <1>5, <1>6 DEF VerdictInv

(* A cancel takes no number; the next object of a probe, and an orCat after a cancel, find their room. *)
LEMMA VerdictProbe ==
    ASSUME TypeInv, ProbesUnselected, VerdictInv, NextObject \/ ProbeCancels
    PROVE  VerdictInv'
<1> USE DEF TypeInv, TypeOK
<1>c. Len(ProbeCats) \in Nat /\ Len(ProbeCats) >= 1 /\ Modulus \in Nat \ {0} /\ index \in Nat /\ index >= 1
  BY ConstantFacts
<1>n. \A o \in Objects : num[o] \in Nat
  BY DEF Nums
<1>1. CASE NextObject
  <2>1. /\ pc = "probe_next" /\ UNCHANGED <<exec, link, wire, num, appl, trailing, arrived, selected>>
        /\ \A x \in Objects : trailing[x] = Nothing
    BY <1>1 DEF NextObject, deviceVars, ctlVars, VerdictInv, QuietInv, Waiting
  <2>2. \/ pc' = "prompt" /\ took' = Nothing
        \/ pc' = "probe_next" /\ obj' = obj /\ took' = took /\ todo' \subseteq todo
        \/ /\ pc' = "probe_select" /\ took' = took /\ index' = 1
           /\ obj' \in todo /\ todo' = todo \ {obj'}
    BY <1>1 DEF NextObject, Return
  <2>3. \A o \in todo : num[o] + Len(ProbeCats) < Modulus
    BY <2>1 DEF VerdictInv, RoomInv, ProbePcs
  <2>4. QuietInv' /\ WaitInv'
    BY <2>1, <2>2 DEF VerdictInv, QuietInv, WaitInv, Waiting, Still
  <2>5. NumberInv'
    BY <2>1, <2>2 DEF VerdictInv, NumberInv, Fresh, OperatePcs
  <2>6. RoomInv'
    BY <2>1, <2>2, <2>3, <1>c, <1>n DEF RoomInv, ProbePcs
  <2>7. QED
    BY <2>4, <2>5, <2>6 DEF VerdictInv
<1>2. CASE ProbeCancels
  <2>1. /\ pc = "probe_cancel" /\ obj \in Objects /\ UNCHANGED <<obj, selected, todo, took>>
        /\ selected[obj] = Nothing
        /\ \A x \in Objects : trailing[x] = Nothing
    BY <1>2 DEF ProbeCancels, callVars, Shape, WithoutObject, ProbesUnselected, VerdictInv, QuietInv, Waiting
  <2>2. PICK a \in BOOLEAN : CancelRequest(obj, a)
    BY <1>2 DEF ProbeCancels
  <2>3. \/ pc' = "probe_next"
        \/ pc' = "probe_select" /\ index' = index + 1
    BY <1>2 DEF ProbeCancels, NextCat
  <2>4. /\ \A x \in Objects : x # obj => appl'[x] = appl[x]
        /\ \A x \in Objects : appl'[x] # Nothing => appl'[x] <= num[x]
        /\ UNCHANGED <<exec, link, wire, num, trailing, arrived>>
    BY <2>1, <2>2, CancelRequestNumber DEF VerdictInv
  <2>5. QuietInv' /\ WaitInv'
    BY <2>1, <2>3, <2>4 DEF VerdictInv, QuietInv, WaitInv, Waiting, Still
  <2>6. NumberInv'
    BY <2>1, <2>3, <2>4 DEF VerdictInv, NumberInv, Fresh, OperatePcs
  <2>7. RoomInv'
    BY <2>1, <2>3, <2>4, <1>c, <1>n DEF VerdictInv, RoomInv, ProbePcs
  <2>8. QED
    BY <2>5, <2>6, <2>7 DEF VerdictInv
<1>3. QED
  BY <1>1, <1>2

(* An operate is sent with a number no error carries, and nothing left of an earlier one. *)
LEMMA VerdictOperate ==
    ASSUME TypeInv, VerdictInv, PrepareOperate \/ OperateAnswered \/ OperateUnanswered
    PROVE  VerdictInv'
<1> USE DEF TypeInv, TypeOK
<1>n. Numbered
  BY NumberedBy DEF VerdictInv
<1>1. /\ pc \in {"op_operate", "op_sent"} /\ obj \in Objects /\ UNCHANGED <<link, trailing, selected, obj, took>>
      /\ selected[obj] = Nothing /\ took = Nothing
      /\ \A x \in Objects : exec[x] = Nothing /\ wire[x] = <<>> /\ trailing[x] = Nothing
  BY DEF PrepareOperate, OperateAnswered, OperateUnanswered, ctlVars, Shape, WithoutObject, OperatePcs,
         VerdictInv, QuietInv, NumberInv, WaitInv, Waiting, Still
<1>2. CASE PrepareOperate
  <2>1. pc = "op_operate" /\ pc' = "op_sent" /\ applBefore' = appl[obj] /\ appl' = appl
        /\ num' = (IF NeedsSelect(obj) THEN num ELSE [num EXCEPT ![obj] = Bumped(obj)])
        /\ arrived'[obj] = <<>>
    BY <1>2, <1>1 DEF PrepareOperate
  <2>2. ~NeedsSelect(obj) => Bumped(obj) = num[obj] + 1
    BY <2>1, <1>1, BumpedWithRoom DEF VerdictInv, RoomInv
  <2>3. /\ \A x \in Objects : x # obj => num'[x] = num[x]
        /\ num'[obj] = IF NeedsSelect(obj) THEN num[obj] ELSE num[obj] + 1
    BY <2>1, <2>2, <1>1
  <2>4. \A x \in Objects : exec'[x] = Nothing /\ wire'[x] = <<>>
    <3>1. exec' = [exec EXCEPT ![obj] = Nothing]
      BY <1>2, <1>1 DEF PrepareOperate
    <3>2. wire' = [wire EXCEPT ![obj] = [i \in DOMAIN wire[obj] |-> [wire[obj][i] EXCEPT !.of = "earlier"]]]
      BY <1>2 DEF PrepareOperate
    <3>3. [i \in DOMAIN wire[obj] |-> [wire[obj][i] EXCEPT !.of = "earlier"]] = <<>>
      BY <1>1
    <3>4. QED
      BY <3>1, <3>2, <3>3, <1>1
  <2>5. QuietInv' /\ WaitInv' /\ RoomInv'
    BY <2>1, <2>4, <1>1 DEF QuietInv, WaitInv, RoomInv, Waiting, Still, ProbePcs
  <2>6. link = "up" => appl[obj] # num'[obj]
    <3>1. CASE NeedsSelect(obj)
      BY <3>1, <2>1, <2>3, <1>1 DEF VerdictInv, NumberInv, Fresh
    <3>2. CASE ~NeedsSelect(obj)
      <4>1. num[obj] + 1 \in Nums
        BY <3>2, <2>1, <1>1, <1>n, ConstantFacts DEF VerdictInv, RoomInv, Numbered, Nums
      <4>2. num[obj] + 1 # Nothing
        BY <4>1, ConstantsAssumption
      <4>3. appl[obj] # Nothing => appl[obj] # num[obj] + 1
        BY <1>1, <1>n DEF Numbered
      <4>4. QED
        BY <4>2, <4>3, <3>2, <2>3
    <3>3. QED
      BY <3>1, <3>2
  <2>7. NumberInv'
    BY <2>1, <2>3, <2>6, <1>1, <1>n DEF VerdictInv, NumberInv, Numbered, Fresh
  <2>8. QED
    BY <2>5, <2>7 DEF VerdictInv
<1>3. CASE OperateAnswered
  <2>1. /\ pc = "op_sent" /\ link = "up" /\ UNCHANGED <<wire, num, arrived, applBefore>>
        /\ \/ /\ Enhanced(obj) /\ pc' = "op_wait" /\ appl' = appl
              /\ exec' = [exec EXCEPT ![obj] = [of |-> "this", ctlNum |-> num[obj]]]
           \/ /\ ~Enhanced(obj) /\ pc' = "op_finish" /\ appl' = appl
              /\ exec' = [exec EXCEPT ![obj] = Nothing]
           \/ /\ pc' = "op_finish" /\ exec' = exec
              /\ appl' = [appl EXCEPT ![obj] = num[obj]]
    BY <1>3 DEF OperateAnswered
  <2>2. applBefore = appl[obj] /\ appl[obj] # num[obj] /\ arrived[obj] = <<>>
    BY <2>1, <1>1 DEF VerdictInv, NumberInv, Fresh
  <2>3. \A x \in Objects : x # obj => exec'[x] = Nothing /\ appl'[x] = appl[x]
    BY <2>1, <1>1
  <2>4. QuietInv' /\ RoomInv'
    BY <2>1, <2>3, <1>1 DEF QuietInv, RoomInv, Waiting, Still, ProbePcs
  <2>5. NumberInv'
    <3>1. appl'[obj] \in {appl[obj], num[obj]} /\ pc' \in {"op_wait", "op_finish"}
      BY <2>1, <1>1
    <3>2. ASSUME NEW x \in Objects, appl'[x] # Nothing PROVE appl'[x] <= num[x]
      <4>1. num[x] \in Nat /\ (appl[x] # Nothing => appl[x] <= num[x])
        BY <1>n DEF Numbered
      <4>2. appl'[x] = appl[x] \/ appl'[x] = num[x]
        BY <3>1, <2>3
      <4>3. QED
        BY <4>1, <4>2, <3>2
    <3>3. QED
      BY <3>1, <3>2, <2>1, <2>3, <1>1 DEF VerdictInv, NumberInv, Fresh
  <2>6. WaitInv'
    <3>1. CASE pc' = "op_wait"
      <4>1. exec'[obj] = [of |-> "this", ctlNum |-> num[obj]] /\ appl' = appl
        BY <2>1, <3>1, <1>1
      <4>2. UnderWay'
        BY <4>1, <3>1, <2>1, <2>2, <1>1 DEF UnderWay
      <4>3. QED
        BY <4>2, <3>1, <2>1, <2>2, <1>1 DEF WaitInv
    <3>2. CASE pc' # "op_wait"
      BY <3>2, <2>1, <1>1 DEF WaitInv, Waiting
    <3>3. QED
      BY <3>1, <3>2
  <2>7. QED
    BY <2>4, <2>5, <2>6 DEF VerdictInv
<1>4. CASE OperateUnanswered
  <2>1. pc' = "op_finish" /\ UNCHANGED <<exec, wire, num, appl, arrived>>
    BY <1>4 DEF OperateUnanswered, deviceVars, ctlVars
  <2>2. QuietInv' /\ RoomInv' /\ WaitInv'
    BY <2>1, <1>1 DEF QuietInv, RoomInv, WaitInv, Waiting, Still, ProbePcs
  <2>3. NumberInv'
    BY <2>1, <1>1 DEF VerdictInv, NumberInv, Fresh
  <2>4. QED
    BY <2>2, <2>3 DEF VerdictInv
<1>5. QED
  BY <1>2, <1>3, <1>4

(* The wait ends with the termination of this operate or with the association; it is judged with its error stored. *)
LEMMA VerdictWait ==
    ASSUME "slow-termination" \notin Faults, "slow-error" \notin Faults, TypeInv, VerdictInv,
           TakeTermination \/ WaitTimesOut \/ Judge \/ JudgeAfterGrace
    PROVE  VerdictInv'
<1> USE DEF TypeInv, TypeOK
<1>1. /\ pc \in {"op_wait", "op_judge", "op_grace"} /\ obj \in Objects
      /\ UNCHANGED <<exec, wire, link, trailing, num, appl, selected, obj, applBefore>>
  BY DEF TakeTermination, WaitTimesOut, Judge, JudgeAfterGrace, deviceVars, ctlVars, Shape, WithoutObject
<1>2. applBefore # num[obj] /\ (UnderWay \/ Told) /\ \A x \in Objects : x # obj => Still(x) /\ trailing[x] = Nothing
  BY <1>1 DEF VerdictInv, WaitInv, QuietInv, Waiting
<1>3. pc' \in {"op_judge", "op_grace", "op_finish"}
  BY DEF TakeTermination, WaitTimesOut, Judge, JudgeAfterGrace
<1>4. RoomInv' /\ NumberInv'
  BY <1>1, <1>3 DEF VerdictInv, RoomInv, NumberInv, Fresh, OperatePcs, ProbePcs
<1>5. CASE TakeTermination
  <2>1. pc = "op_wait" /\ pc' = "op_judge" /\ arrived[obj] # <<>> /\ took' = Head(arrived[obj])
        /\ arrived' = [arrived EXCEPT ![obj] = Tail(arrived[obj])]
    BY <1>5 DEF TakeTermination
  <2>2. Told
    BY <2>1, <1>2 DEF UnderWay
  <2>3. PICK positive \in BOOLEAN :
           /\ arrived[obj] = <<This(positive)>>
           /\ \/ appl[obj] = applBefore /\ trailing[obj] = (IF positive THEN Nothing ELSE num[obj])
              \/ ~positive /\ appl[obj] = num[obj] /\ trailing[obj] = Nothing
    BY <2>1, <2>2 DEF Told
  <2>4. took' = This(positive) /\ arrived'[obj] = <<>>
    <3>1. \A t : Head(<<t>>) = t /\ Tail(<<t>>) = <<>>
      OBVIOUS
    <3>2. QED
      BY <3>1, <2>1, <2>3, <1>1
  <2>5. Told'
    BY <2>1, <2>2, <2>3, <2>4, <1>1 DEF Told, Still, This
  <2>6. QuietInv'
    BY <2>1, <1>1, <1>2 DEF VerdictInv, QuietInv, Waiting, Still
  <2>7. QED
    BY <2>1, <2>5, <2>6, <1>1, <1>2, <1>4 DEF VerdictInv, WaitInv
<1>6. CASE WaitTimesOut
  <2>1. pc = "op_wait" /\ arrived[obj] = <<>> /\ link # "up" /\ pc' = "op_finish" /\ UNCHANGED arrived
    BY <1>6 DEF WaitTimesOut, ctlVars
  <2>2. trailing[obj] = Nothing
    BY <2>1, <1>2 DEF UnderWay, Told
  <2>3. QuietInv' /\ WaitInv'
    BY <2>1, <2>2, <1>1, <1>2 DEF VerdictInv, QuietInv, WaitInv, Waiting, Still
  <2>4. QED
    BY <2>3, <1>4 DEF VerdictInv
<1>7. CASE Judge \/ JudgeAfterGrace
  <2>1. pc # "op_wait" /\ Told /\ UNCHANGED <<arrived, took>>
    BY <1>7, <1>2 DEF Judge, JudgeAfterGrace, UnderWay, ctlVars
  <2>2. pc' = "op_finish" => trailing[obj] = Nothing
    BY <1>7, <2>1 DEF Judge, JudgeAfterGrace, Verdict, Told
  <2>3. QuietInv'
    BY <1>1, <1>2, <1>3, <2>1, <2>2 DEF VerdictInv, QuietInv, Waiting, Still, Told
  <2>4. pc' = "op_grace" => Told'
    BY <2>1, <1>1 DEF Told, Still, This
  <2>5. pc' \in {"op_grace", "op_finish"}
    BY <1>7 DEF Judge, JudgeAfterGrace
  <2>6. WaitInv'
    BY <1>1, <1>2, <2>4, <2>5 DEF WaitInv, Waiting
  <2>7. QED
    BY <2>3, <2>6, <1>4 DEF VerdictInv
<1>8. QED
  BY <1>5, <1>6, <1>7

(* Finish, read back, remember, cancel, forget: the command is over, with nothing under way. *)
LEMMA VerdictFinish ==
    ASSUME TypeInv, VerdictInv, Finish \/ ReadBack \/ StoreSelection \/ Cancel \/ ForgetSelection
    PROVE  VerdictInv'
<1> USE DEF TypeInv, TypeOK
<1>1. pc \in {"op_finish", "op_readback", "sel_store", "can_cancel", "can_store"} /\ obj \in Objects
      /\ \A x \in Objects : Still(x) /\ (trailing[x] # Nothing => link # "up" /\ pc = "op_finish")
  BY DEF Finish, ReadBack, StoreSelection, Cancel, ForgetSelection, Shape, WithoutObject, VerdictInv, QuietInv, Waiting
<1>2. CASE Finish \/ ReadBack
  <2>1. /\ UNCHANGED <<exec, link, wire, num, appl, trailing, arrived, selected>>
        /\ \/ pc' = "op_readback" /\ link = "up" /\ obj' = obj /\ took' = took
           \/ pc' = "prompt" /\ took' = Nothing
        /\ pc \in {"op_finish", "op_readback"}
    BY <1>2 DEF Finish, ReadBack, Return, deviceVars, ctlVars, callVars
  <2>2. QuietInv' /\ RoomInv' /\ WaitInv'
    BY <2>1, <1>1 DEF VerdictInv, QuietInv, RoomInv, WaitInv, Waiting, Still, ProbePcs
  <2>3. NumberInv'
    BY <2>1, <1>1 DEF VerdictInv, NumberInv, Fresh, OperatePcs
  <2>4. QED
    BY <2>2, <2>3 DEF VerdictInv
<1>3. CASE StoreSelection \/ ForgetSelection
  <2>1. /\ UNCHANGED <<exec, link, wire, num, appl, trailing, arrived>>
        /\ pc' = "prompt" /\ took' = Nothing
        /\ pc \in {"sel_store", "can_store"}
    BY <1>3 DEF StoreSelection, ForgetSelection, Return, deviceVars, ctlVars
  <2>2. /\ \A x \in Objects : x # obj => selected'[x] = selected[x]
        /\ selected'[obj] # Nothing => pc = "sel_store" /\ (selected[obj] # Nothing \/ outcome = "ok")
    BY <1>3, <1>1 DEF StoreSelection, ForgetSelection
  <2>3. QuietInv' /\ RoomInv' /\ WaitInv'
    BY <2>1, <1>1 DEF QuietInv, RoomInv, WaitInv, Waiting, Still, ProbePcs
  <2>4. NumberInv'
    BY <2>1, <2>2, <1>1 DEF VerdictInv, NumberInv, Fresh, OperatePcs
  <2>5. QED
    BY <2>3, <2>4 DEF VerdictInv
<1>4. CASE Cancel
  <2>1. pc = "can_cancel" /\ pc' = "can_store" /\ UNCHANGED <<selected, obj, took>>
    BY <1>4 DEF Cancel, callVars
  <2>2. PICK a \in BOOLEAN : CancelRequest(obj, a)
    BY <1>4 DEF Cancel
  <2>3. /\ \A x \in Objects : x # obj => appl'[x] = appl[x]
        /\ \A x \in Objects : appl'[x] # Nothing => appl'[x] <= num[x]
        /\ UNCHANGED <<exec, link, wire, num, trailing, arrived>>
    BY <2>2, <1>1, CancelRequestNumber DEF VerdictInv
  <2>4. QuietInv' /\ RoomInv' /\ WaitInv'
    BY <2>1, <2>3, <1>1 DEF VerdictInv, QuietInv, RoomInv, WaitInv, Waiting, Still, ProbePcs
  <2>5. NumberInv'
    BY <2>1, <2>3, <1>1 DEF VerdictInv, NumberInv, Fresh, OperatePcs
  <2>6. QED
    BY <2>4, <2>5 DEF VerdictInv
<1>5. QED
  BY <1>2, <1>3, <1>4

(* The operation ends, its termination arrives, its error is stored: each step belongs to the operate waited for. *)
LEMMA VerdictDevice ==
    ASSUME TypeInv, VerdictInv, NEW o \in Objects, Terminate(o) \/ Deliver(o) \/ StoreError(o)
    PROVE  VerdictInv'
<1> USE DEF TypeInv, TypeOK
<1>n. Numbered
  BY NumberedBy DEF VerdictInv
<1>1. /\ UNCHANGED <<link, num, selected, pc, obj, todo, index, outcome, applBefore, took>>
      /\ \A x \in Objects : x # o => /\ exec'[x] = exec[x] /\ wire'[x] = wire[x] /\ trailing'[x] = trailing[x]
                                     /\ arrived'[x] = arrived[x] /\ appl'[x] = appl[x]
  <2>1. CASE Terminate(o)
    BY <2>1 DEF Terminate, ctlVars, deviceVars, callVars, probeVars
  <2>2. CASE Deliver(o)
    BY <2>2 DEF Deliver, ctlVars, deviceVars, callVars, probeVars
  <2>3. CASE StoreError(o)
    BY <2>3 DEF StoreError, ctlVars, deviceVars, callVars, probeVars
  <2>4. QED
    BY <2>1, <2>2, <2>3
<1>2. CASE Terminate(o)
  <2>1. exec[o] # Nothing /\ exec'[o] = Nothing /\ UNCHANGED <<trailing, arrived, appl>>
    BY <1>2 DEF Terminate, ctlVars
  <2>2. Waiting(o) /\ link = "up" /\ o = obj
    BY <2>1 DEF VerdictInv, QuietInv, Still, Waiting
  <2>3. UnderWay /\ exec[o] = [of |-> "this", ctlNum |-> num[obj]] /\ wire[o] = <<>>
    BY <2>1, <2>2 DEF VerdictInv, WaitInv, UnderWay, Told, Still
  <2>4. PICK positive \in BOOLEAN :
           wire' = [wire EXCEPT ![o] = Append(wire[o], [of |-> exec[o].of, ctlNum |-> exec[o].ctlNum, positive |-> positive])]
    BY <1>2 DEF Terminate
  <2>5. wire'[o] = <<This(positive)>>
    <3>1. exec[o].of = "this" /\ exec[o].ctlNum = num[obj]
      BY <2>3
    <3>2. wire'[o] = Append(<<>>, This(positive))
      BY <2>3, <2>4, <3>1 DEF This
    <3>3. QED
      BY <3>2
  <2>6. UnderWay'
    BY <1>1, <2>1, <2>2, <2>3, <2>5 DEF UnderWay, This
  <2>7. QuietInv'
    BY <1>1, <2>1, <2>2 DEF VerdictInv, QuietInv, Waiting, Still
  <2>8. RoomInv' /\ NumberInv'
    BY <1>1, <2>1 DEF VerdictInv, RoomInv, NumberInv, Fresh
  <2>9. QED
    BY <1>1, <2>2, <2>6, <2>7, <2>8 DEF VerdictInv, WaitInv, Waiting
<1>3. CASE Deliver(o)
  <2>1. /\ wire[o] # <<>> /\ trailing[o] = Nothing
        /\ wire'[o] = Tail(wire[o]) /\ arrived'[o] = Append(arrived[o], Head(wire[o]))
        /\ trailing'[o] = (IF Head(wire[o]).positive THEN trailing[o] ELSE Head(wire[o]).ctlNum)
        /\ UNCHANGED <<exec, appl>>
    BY <1>3 DEF Deliver, deviceVars
  <2>2. Waiting(o) /\ link = "up" /\ o = obj
    BY <2>1 DEF VerdictInv, QuietInv, Still, Waiting
  <2>3. UnderWay /\ exec[o] = Nothing
    BY <2>1, <2>2 DEF VerdictInv, WaitInv, UnderWay, Told, Still
  <2>4. PICK positive \in BOOLEAN : wire[o] = <<This(positive)>>
    BY <2>1, <2>2, <2>3 DEF UnderWay, Still
  <2>5. \A t : Head(<<t>>) = t /\ Tail(<<t>>) = <<>> /\ Append(<<>>, t) = <<t>>
    OBVIOUS
  <2>6. pc = "op_wait" /\ arrived[o] = <<>> /\ appl[o] = applBefore
    BY <2>2, <2>3 DEF UnderWay
  <2>7. /\ wire'[o] = <<>> /\ arrived'[o] = <<This(positive)>>
        /\ trailing'[o] = (IF positive THEN Nothing ELSE num[o])
    BY <2>1, <2>2, <2>4, <2>5, <2>6 DEF This
  <2>8. Told'
    BY <1>1, <2>1, <2>2, <2>3, <2>6, <2>7 DEF Told, Still, This
  <2>9. QuietInv'
    BY <1>1, <2>1, <2>2, <2>7 DEF VerdictInv, QuietInv, Waiting, Still
  <2>10. RoomInv' /\ NumberInv'
    BY <1>1, <2>1, <2>6 DEF VerdictInv, RoomInv, NumberInv, Fresh
  <2>11. QED
    BY <1>1, <2>2, <2>8, <2>9, <2>10 DEF VerdictInv, WaitInv, Waiting
<1>4. CASE StoreError(o)
  <2>1. /\ trailing[o] # Nothing /\ trailing'[o] = Nothing /\ appl'[o] = trailing[o]
        /\ UNCHANGED <<exec, wire, arrived>>
    BY <1>4 DEF StoreError, deviceVars
  <2>2. trailing[o] = num[o] /\ (Waiting(o) \/ (link # "up" /\ pc \in {"op_finish", "prompt"}))
    BY <2>1 DEF VerdictInv, QuietInv
  <2>3. QuietInv' /\ RoomInv'
    BY <1>1, <2>1 DEF VerdictInv, QuietInv, RoomInv, Waiting, Still
  <2>4. NumberInv'
    <3>1. ASSUME NEW x \in Objects, appl'[x] # Nothing PROVE appl'[x] <= num[x]
      <4>1. num[x] \in Nat /\ (appl[x] # Nothing => appl[x] <= num[x])
        BY <1>n DEF Numbered
      <4>2. appl'[x] = appl[x] \/ appl'[x] = num[x]
        BY <1>1, <2>1, <2>2
      <4>3. QED
        BY <4>1, <4>2, <3>1
    <3>2. Waiting(o) => selected[o] = Nothing
      BY DEF VerdictInv, NumberInv, Waiting, OperatePcs
    <3>3. \A x \in Objects : Fresh(x)' /\ link = "up" => appl'[x] # num[x]
      BY <1>1, <2>2, <3>2 DEF VerdictInv, NumberInv, Fresh, Waiting
    <3>4. pc # "op_sent"
      BY <2>2 DEF Waiting
    <3>5. QED
      BY <1>1, <3>1, <3>3, <3>4 DEF VerdictInv, NumberInv
  <2>5. WaitInv'
    <3>1. CASE Waiting(o)
      <4>1. o = obj /\ pc \in {"op_wait", "op_judge", "op_grace"} /\ applBefore # num[obj]
        BY <3>1 DEF VerdictInv, WaitInv, Waiting
      <4>2. Told
        BY <2>1, <3>1, <4>1 DEF VerdictInv, WaitInv, UnderWay
      <4>3. Told'
        BY <1>1, <2>1, <2>2, <4>1, <4>2 DEF Told, Still, This
      <4>4. QED
        BY <1>1, <4>1, <4>3 DEF VerdictInv, WaitInv
    <3>2. CASE ~Waiting(o)
      BY <1>1, <2>2, <3>2 DEF VerdictInv, WaitInv, Waiting
    <3>3. QED
      BY <3>1, <3>2
  <2>6. QED
    BY <2>3, <2>4, <2>5 DEF VerdictInv
<1>5. QED
  BY <1>2, <1>3, <1>4

LEMMA VerdictOthers ==
    ASSUME TypeInv, VerdictInv,
           \/ \E o \in Objects : Expire(o) \/ OtherSelects(o) \/ OtherDeselects(o)
           \/ Lose \/ NewAssociation \/ UNCHANGED vars
    PROVE  VerdictInv'
<1> USE DEF TypeInv, TypeOK
<1>1. CASE Lose
  <2>1. /\ link' # "up" /\ UNCHANGED <<num, appl, trailing, arrived, selected, pc, obj, todo, index, outcome, applBefore, took>>
        /\ \A x \in Objects : exec'[x] = Nothing /\ wire'[x] = <<>>
    BY <1>1 DEF Lose, AssociationEnds, All, ctlVars, callVars, probeVars
  <2>2. QuietInv' /\ RoomInv' /\ NumberInv'
    BY <2>1 DEF VerdictInv, QuietInv, RoomInv, NumberInv, Waiting, Still, Fresh
  <2>3. WaitInv'
    <3>1. CASE Waiting(obj)
      <4>1. obj \in Objects /\ applBefore # num[obj]
        BY <3>1 DEF Waiting, Shape, WithoutObject, VerdictInv, WaitInv
      <4>2. UnderWay => UnderWay'
        BY <2>1, <4>1 DEF UnderWay, Still
      <4>3. Told => Told'
        BY <2>1, <4>1 DEF Told, Still, This
      <4>4. QED
        BY <2>1, <3>1, <4>1, <4>2, <4>3 DEF VerdictInv, WaitInv, Waiting
    <3>2. CASE ~Waiting(obj)
      BY <2>1, <3>2 DEF VerdictInv, WaitInv, Waiting
    <3>3. QED
      BY <3>1, <3>2
  <2>4. QED
    BY <2>2, <2>3 DEF VerdictInv
<1>2. CASE NewAssociation
  <2>1. /\ pc = "prompt" /\ pc' = "prompt" /\ took' = took
        /\ \A x \in Objects : /\ exec'[x] = Nothing /\ wire'[x] = <<>> /\ trailing'[x] = Nothing
                              /\ appl'[x] = Nothing /\ selected'[x] = Nothing
    BY <1>2 DEF NewAssociation, AssociationEnds, All, callVars
  <2>2. QED
    BY <2>1 DEF VerdictInv, QuietInv, RoomInv, NumberInv, WaitInv, Waiting, Still, Fresh, OperatePcs, ProbePcs
<1>3. CASE \/ \E o \in Objects : Expire(o) \/ OtherSelects(o) \/ OtherDeselects(o)
           \/ UNCHANGED vars
  <2>1. UNCHANGED <<exec, link, wire, num, appl, trailing, arrived, selected, pc, obj, todo, index, outcome, applBefore, took>>
    BY <1>3 DEF Expire, OtherSelects, OtherDeselects, vars, deviceVars, ctlVars, callVars, probeVars
  <2>2. QuietInv' /\ RoomInv' /\ NumberInv'
    BY <2>1 DEF VerdictInv, QuietInv, RoomInv, NumberInv, Waiting, Still, Fresh
  <2>3. (UnderWay => UnderWay') /\ (Told => Told')
    BY <2>1 DEF UnderWay, Told, Still, This
  <2>4. WaitInv'
    BY <2>1, <2>3 DEF VerdictInv, WaitInv, Waiting
  <2>5. QED
    BY <2>2, <2>4 DEF VerdictInv
<1>4. QED
  BY <1>1, <1>2, <1>3

LEMMA VerdictStep ==
    ASSUME "slow-termination" \notin Faults, "slow-error" \notin Faults, "wrap" \notin Faults,
           "touch-selected" \notin Faults, "interrupt" \notin Faults,
           TypeInv, ProbesUnselected, OriginInv, SelectsWhereNeeded, VerdictInv, [Next]_vars
    PROVE  VerdictInv'
<1>1. ~Interrupt
  BY DEF Interrupt
<1>2. QED
  BY <1>1, VerdictStart, VerdictSelect, VerdictProbe, VerdictOperate, VerdictWait, VerdictFinish, VerdictDevice, VerdictOthers
     DEF Next, Operator, ThreadStep, Operating, Selecting, Probing, ConnectionStep, Device

(* Only the two steps that judge set an outcome with a termination in hand, and they judge it as it was. *)
LEMMA VerdictJudged ==
    ASSUME "slow-error" \notin Faults, TypeInv, VerdictInv, [Next]_vars,
           outcome = "none", outcome' \in {"ok", "negative"}, took # Nothing
    PROVE  took.of = "this" /\ (outcome' = "ok" <=> took.positive)
<1>1. pc \in {"op_judge", "op_grace", "op_finish", "op_readback"}
  BY DEF VerdictInv, WaitInv
<1>2. Judge \/ JudgeAfterGrace
  <2>2. ~UNCHANGED callVars /\ ~UNCHANGED vars /\ ~Return
    BY DEF vars, callVars, Return
  <2>4. ~Operator /\ ~Lose /\ ~Interrupt
    BY <1>1, <2>2 DEF Operator, StartOperate, StartSelect, StartCancel, Start, StartProbe, NewAssociation, Lose, Interrupt
  <2>5. ~Selecting /\ ~Probing
    BY <1>1 DEF Selecting, SelectOnly, StoreSelection, Cancel, ForgetSelection, Probing, NextObject, ProbeSelects, ProbeCancels
  <2>6. ~ConnectionStep /\ ~Device
    BY <2>2 DEF ConnectionStep, Device, Deliver, StoreError, Terminate, Expire, OtherSelects, OtherDeselects
  <2>7. Operating
    BY <2>2, <2>4, <2>5, <2>6 DEF Next, ThreadStep
  <2>8. ~(OperateSelects \/ PrepareOperate \/ OperateAnswered \/ OperateUnanswered \/ TakeTermination \/ WaitTimesOut)
    BY <1>1 DEF OperateSelects, PrepareOperate, OperateAnswered, OperateUnanswered, TakeTermination, WaitTimesOut
  <2>9. ~(Finish \/ ReadBack)
    BY <2>2 DEF Finish, ReadBack
  <2>10. QED
    BY <2>7, <2>8, <2>9 DEF Operating
<1>3. pc \in {"op_judge", "op_grace"} /\ Told /\ applBefore # num[obj]
  BY <1>2 DEF Judge, JudgeAfterGrace, VerdictInv, WaitInv, UnderWay, Waiting
<1>4. PICK positive \in BOOLEAN :
         /\ took = This(positive)
         /\ \/ appl[obj] = applBefore /\ trailing[obj] = (IF positive THEN Nothing ELSE num[obj])
            \/ ~positive /\ appl[obj] = num[obj] /\ trailing[obj] = Nothing
  BY <1>3 DEF Told
<1>5. took.of = "this" /\ took.positive = positive
  BY <1>4 DEF This
<1>6. outcome' = Verdict /\ (Verdict = "negative" \/ trailing[obj] = Nothing)
  BY <1>2 DEF Judge, JudgeAfterGrace
<1>7. num[obj] # Nothing
  BY <1>3, ConstantsAssumption DEF TypeInv, TypeOK, Shape, WithoutObject
<1>8. QED
  BY <1>3, <1>4, <1>5, <1>6, <1>7 DEF Verdict

(* CTL-2: what is reported of an enhanced operate is what its own CommandTermination said - whatever else is         *)
(* refused, lost, or done by others, as long as terminations and their errors are not later than the tool waits, no  *)
(* ctlNum comes round, and nobody interrupts or selects again what is selected (adapter/client.py:711-766).          *)
THEOREM VerdictsAreTrue ==
    ASSUME "slow-termination" \notin Faults, "slow-error" \notin Faults, "wrap" \notin Faults,
           "touch-selected" \notin Faults, "interrupt" \notin Faults
    PROVE  Spec => VerdictIsTrue
<1> DEFINE Inv == ProbesUnselected /\ OriginInv /\ SelectsWhereNeeded /\ VerdictInv
<1>1. Init => Inv
  <2>1. Init => VerdictInv
    BY DEF Init, Idle, All, VerdictInv, QuietInv, RoomInv, NumberInv, WaitInv, Waiting, Still, Fresh, OperatePcs, ProbePcs
  <2>2. QED
    BY <2>1, OriginInit
<1>2. TypeInv /\ Inv /\ [Next]_vars => Inv'
  BY OriginStep, VerdictStep
<1>3. TypeInv /\ Inv /\ [Next]_vars =>
        [outcome = "none" /\ outcome' \in {"ok", "negative"} /\ took # Nothing =>
             took.of = "this" /\ (outcome' = "ok" <=> took.positive)]_vars
  BY VerdictJudged
<1> HIDE DEF Inv
<1>4. QED
  BY <1>1, <1>2, <1>3, TypeInvariant, PTL DEF Spec, VerdictIsTrue

================================================================================
