-------------------------- MODULE MCSettingGroupEdit --------------------------
(***************************************************************************)
(* SettingGroupEdit for TLC: two groups, two settings of two values and    *)
(* one other client.                                                       *)
(***************************************************************************)
EXTENDS SettingGroupEdit

CONSTANTS pickup, delay, low, high, station

(* The faults after which the log is still complete and the values found are the values replaced. *)
ToleratedFaults == {"loss", "refused", "lost-reply", "interrupt"}
===============================================================================
