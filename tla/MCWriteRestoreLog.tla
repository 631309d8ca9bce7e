--------------------------- MODULE MCWriteRestoreLog --------------------------
(***************************************************************************)
(* WriteRestoreLog for TLC.                                                *)
(***************************************************************************)
EXTENDS WriteRestoreLog

CONSTANTS setpoint, actsg, a, b

(* The faults under which a log and what `restore` makes of it still lead back. *)
ToleratedFaults == {"refused", "loss", "not-applied", "last-restore-fails", "crash"}

(* An item of a restore fails and the items after it, older writes, go on. *)
FailingRestores == {"restore-fails"}
===============================================================================
