----------------------------- MODULE MCCommandLine -----------------------------
(***************************************************************************)
(* CommandLine for TLC: two devices to switch between, one originator      *)
(* category of each kind.                                                  *)
(***************************************************************************)
EXTENDS CommandLine

CONSTANTS bay, substation, station, maintenance
================================================================================
