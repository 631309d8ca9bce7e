------------------------------ MODULE UndoLedger ------------------------------
(***************************************************************************)
(* What RPT-7 promises, without the RCBs: a ledger of the effects a tool   *)
(* has in force on a device. An effect may take hold only after it is owed *)
(* ("registered before it is made", docs/architecture.md), and what is in  *)
(* force is owed or on record as lingering at every moment.                *)
(***************************************************************************)
VARIABLES inForce, owed, recorded

ledgerVars == <<inForce, owed, recorded>>

Covered == inForce \subseteq owed \cup recorded

Init == inForce = {} /\ owed = {} /\ recorded = {}

(* The tool commits itself to undo something. *)
Owe ==
    /\ owed \subseteq owed'
    /\ inForce' = inForce
    /\ Covered'

(* Some of what is owed takes hold on the device; other effects may lapse. *)
TakeHold ==
    /\ inForce' \subseteq inForce \cup owed
    /\ UNCHANGED <<owed, recorded>>

(* Effects are undone or lapse, and debts are struck out, the ones that could not be undone by recording them. *)
Settle ==
    /\ inForce' \subseteq inForce
    /\ owed' \subseteq owed
    /\ Covered'

Next == Owe \/ TakeHold \/ Settle

Spec == Init /\ [][Next]_ledgerVars
=============================================================================
