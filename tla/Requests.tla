------------------------------- MODULE Requests -------------------------------
(***************************************************************************)
(* How a confirmed request over an association may end, as the code above  *)
(* the adapter sees it, and what may go wrong (a CONSTANT subset of fault  *)
(* names, so that one specification serves several runs).                  *)
(***************************************************************************)
CONSTANT Faults

(* A request that the device can serve (`can`), over an association that is up or not:                        *)
(*   "ok"       it takes effect and says so;                                                                   *)
(*   "late"     it takes effect and reports an error (the answer came after the request timeout);              *)
(*   "refused"  it reports an error and has no effect; over a lost association always;                         *)
(*   "dropped"  the association goes while it is outstanding.                                                  *)
Ends(up, can, late) ==
    {o \in {"ok", "late", "refused", "dropped"} :
        \/ o = "ok" /\ up /\ can
        \/ o = "late" /\ up /\ can /\ late \in Faults
        \/ o = "refused" /\ (~up \/ ~can \/ "refused" \in Faults)
        \/ o = "dropped" /\ up /\ "loss" \in Faults }

TakesEffect(o) == o \in {"ok", "late"}
===============================================================================
