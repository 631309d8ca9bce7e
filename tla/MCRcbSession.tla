----------------------------- MODULE MCRcbSession -----------------------------
(***************************************************************************)
(* RcbSession for TLC: one URCB and one BRCB at most, one other client.    *)
(* The undo of one RCB does not read another's state, so the single-RCB    *)
(* runs take every fault and the two-RCB run looks at the shared registry. *)
(***************************************************************************)
EXTENDS RcbSession

CONSTANTS urcb, brcb, gateway

(* The faults the cleanup registry is good against. *)
ToleratedFaults ==
    FaultKinds \ {"late-enable", "interrupt-in-undo", "interrupt-in-exit", "loss-in-stop", "resubscribe"}
=============================================================================
