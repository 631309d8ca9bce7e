--------------------------- MODULE MCControlSequence ---------------------------
(***************************************************************************)
(* Instances of ControlSequence for TLC: one object of each ctlModel, from *)
(* which a configuration picks, and the originator categories station and  *)
(* remote.                                                                 *)
(***************************************************************************)
EXTENDS ControlSequence

CONSTANTS direct, sbo, directE, sboE, station, remote

MCModel == [o \in Objects |-> CASE o = direct -> 1 [] o = sbo -> 2 [] o = directE -> 3 [] o = sboE -> 4]
OneCat == <<station>>
TwoCats == <<station, remote>>
=============================================================================
