----------------------------- MODULE DiagnosisLadder -----------------------------
(***************************************************************************)
(* diagnose: the layers in order, from the local address to the controls,  *)
(* stopped by the first that fails, with a verdict. Below the identity the *)
(* probes of AssociationProbe say what happened and Classify says what it  *)
(* means (diagnosis/diagnose.py, mms_protocol/diagnosis/connection.py and  *)
(* classify.py). What the upper layers find is the device's choice.        *)
(***************************************************************************)
EXTENDS AssociationProbe

VARIABLES
    at,         \* the layer or probe the command is at; "prompt" between commands
    icmp, tcp, tls,     \* results of the probes besides the attempt; "skipped" if not made
    link,       \* whether the session's own association is up
    layers,     \* DiagnosisReport.layers: [layer, status], in order
    findings,   \* DiagnosisReport.findings: [key, certainty], in order
    stopped, verdict    \* DiagnosisReport.stopped_at, .verdict

ladderVars == <<at, icmp, tcp, tls, link, layers, findings, stopped, verdict>>

Layers == <<"bind", "network", "transport-session", "mms-initiate", "association", "identity", "model", "reports", "controls">>

ASSUME LayersAssumption == \A i \in DOMAIN Layers : Layers[i] # None

If(b, x) == IF b THEN <<x>> ELSE <<>>
Finding(key, certainty) == [key |-> key, certainty |-> certainty]

(***************************************************************************)
(* classify_association                                                    *)
(***************************************************************************)
TlsCheckOutcomes == {"tcp-refused", "tcp-timeout", "tcp-closed-immediately", "cotp-rejected",
                     "cotp-invalid-response", "cotp-no-response"}
SlotPatterns == {"tcp-closed-immediately", "acse-rejected-transient", "accepted-then-closed",
                 "cotp-no-response", "initiate-no-response"}

Attempted == TcpOk(tcp) = "yes"
Observed == IF Attempted THEN p.outcome ELSE TcpOutcome(tcp)
Step(name) == {i \in DOMAIN p.steps : Attempted /\ p.steps[i].name = name}
Why(name) == IF Step(name) = {} THEN "none" ELSE p.steps[CHOOSE i \in Step(name) : \A j \in Step(name) : i <= j].why

Reachable == Attempted \/ icmp = "reply"

Congestion ==
    Attempted /\ \E i \in DOMAIN p.steps : p.steps[i].ok = "no" /\ p.steps[i].why \in {"busy", "busy-selector"}

SuspectsTls ==
    \/ tls \in {"tls", "tls-alert", "open"} /\ Observed \in TlsCheckOutcomes
    \/ Observed = "cotp-invalid-response" /\ Why("cotp") = "tls"

SuspectsAuthentication ==
    /\ Attempted
    /\ ~SuspectsTls
    /\ \/ p.acse.kind = "AARE" /\ p.acse.result \in {1, 2} /\ p.acse.why \in {"auth", "auth-required"}
       \/ p.acse.kind = "ABRT" /\ p.acse.why = "auth"

Outcome == CASE SuspectsTls -> "tls-suspected" [] SuspectsAuthentication -> "authentication-suspected" [] OTHER -> Observed

(* Addressing mismatches that the reason codes point to. *)
LayerFindings ==
    If(Why("cotp") = "selector", Finding("cotp-rejected", "check"))
    \o If(Why("iso-session") = "selector", Finding("session-refused", "check"))
    \o If(Why("presentation") \in {"selector", "busy-selector"}, Finding("presentation-rejected", "check"))
    \o CASE Why("acse") = "title" -> <<Finding(Observed, "check")>>
         [] Why("acse") # "title" /\ Observed = "acse-rejected-permanent" /\ Why("acse") = "plain" ->
                <<Finding("acse-rejected-permanent", "check")>>
         [] OTHER -> <<>>

SecurityFindings ==
    If(SuspectsTls, Finding("security-not-supported", "likely"))
    \o If(SuspectsAuthentication,
          Finding("security-not-supported",
                  IF p.acse.kind = "AARE" /\ p.acse.why = "auth-required" THEN "fact" ELSE "likely"))

FailedLayer ==
    LET layer == IF Attempted THEN p.layer ELSE "network"
    IN  CASE layer \in {"transport", "session"} -> "transport-session"
          [] layer = "mms" -> "mms-initiate"
          [] OTHER -> "network"

(* assess_association_limits *)
(* Seeded bug: any refusal below the session looks like exhausted slots. *)
SlotPatternLoose == Observed \in SlotPatterns \cup {"cotp-rejected"} \/ Congestion

SlotPattern ==
    \/ Observed \in SlotPatterns
    \/ Observed = "tcp-timeout" /\ Reachable
    \/ Congestion

LimitFindings(limitKnown) ==
    If(limitKnown, Finding("known-association-limit", "check"))
    \o If(SlotPattern /\ Outcome # "accepted", Finding("slots-probably-exhausted", "likely"))
    \o <<Finding("association-slot-occupied-by-tool", "fact")>>

(***************************************************************************)
(* best_finding: the first finding of the best rank; a reminder is never   *)
(* the verdict.                                                            *)
(***************************************************************************)
Reminders == {"association-slot-occupied-by-tool", "known-association-limit"}
Priority(f) == CASE f.key = "security-not-supported" -> 0 [] f.key = "slots-probably-exhausted" -> 1 [] OTHER -> 2
CertaintyOrder == [fact |-> 0, likely |-> 1, check |-> 2]
Rank(f) == Priority(f) * 4 + CertaintyOrder[f.certainty]

NoFinding == Finding("none", "fact")
BestFinding(fs) ==
    LET candidates == {i \in DOMAIN fs : fs[i].key \notin Reminders}
    IN  IF candidates = {} THEN NoFinding
        ELSE fs[CHOOSE i \in candidates : \A j \in candidates :
                    Rank(fs[i]) < Rank(fs[j]) \/ (Rank(fs[i]) = Rank(fs[j]) /\ i <= j)]

(***************************************************************************)
(* The command                                                             *)
(***************************************************************************)
NoVerdict == [about |-> "none", certainty |-> "check", layer |-> None]
Verdict(about, certainty, layer) == [about |-> about, certainty |-> certainty, layer |-> layer]

LadderInit ==
    /\ at = "prompt" /\ icmp = "skipped" /\ tcp = "skipped" /\ tls = "skipped"
    /\ link \in BOOLEAN
    /\ layers = <<>> /\ findings = <<>> /\ stopped = None /\ verdict = NoVerdict
    /\ pc = "idle" /\ p = NewProbe /\ sockets = 0 /\ dev = "none"

Report(layer, status) == layers' = Append(layers, [layer |-> layer, status |-> status])

Stop(layer, v) ==
    /\ at' = "over"
    /\ stopped' = layer
    /\ verdict' = v

(* diagnose_cmd: the shell's own association is released first. *)
Diagnose(bound) ==
    /\ at = "prompt"
    /\ link' = FALSE
    /\ at' = IF bound THEN "bind" ELSE "icmp"
    /\ icmp' = "skipped" /\ tcp' = "skipped" /\ tls' = "skipped"
    /\ layers' = <<>> /\ findings' = <<>> /\ stopped' = None /\ verdict' = NoVerdict
    /\ UNCHANGED probeVars

(* check_bind_address *)
Bind(present) ==
    /\ at = "bind"
    /\ Report("bind", IF present THEN "pass" ELSE "fail")
    /\ IF present THEN at' = "icmp" /\ UNCHANGED <<stopped, verdict>>
       ELSE Stop("bind", Verdict("local-address-missing", "fact", "bind"))
    /\ UNCHANGED <<icmp, tcp, tls, link, findings, probeVars>>

(* ping: informational; a missing reply stops nothing *)
Ping(r) ==
    /\ at = "icmp"
    /\ icmp' = r
    /\ at' = "tcp"
    /\ UNCHANGED <<tcp, tls, link, layers, findings, stopped, verdict, probeVars>>

(* The bare connection, closed at once, and the attempt if it was accepted. *)
BareConnect(o) ==
    /\ at = "tcp"
    /\ tcp' = o
    /\ IF o = "accepted" THEN at' = "attempt" /\ StartAttempt
       ELSE /\ at' = IF TcpOk(o) = "no" /\ TcpOutcome(o) \in TlsCheckOutcomes THEN "tls" ELSE "classify"
            /\ UNCHANGED <<pc, dev>>
    /\ UNCHANGED <<icmp, tls, link, layers, findings, stopped, verdict, p, sockets>>

Attempt ==
    /\ at = "attempt"
    /\ AttemptStep
    /\ at' = CASE pc' = "done" -> IF p'.outcome \in TlsCheckOutcomes THEN "tls" ELSE "classify"
               [] pc' = "raised" -> "raised"
               [] OTHER -> "attempt"
    /\ UNCHANGED <<icmp, tcp, tls, link, layers, findings, stopped, verdict>>

(* tls_port_open; the connection is closed whatever the handshake shows *)
TlsPort(r) ==
    /\ at = "tls"
    /\ tls' = r
    /\ at' = "classify"
    /\ UNCHANGED <<icmp, tcp, link, layers, findings, stopped, verdict, probeVars>>

Entry(layer, status) == [layer |-> layer, status |-> status]

Classified(limitKnown) ==
    /\ at = "classify"
    /\ pc' = "idle"
    /\ LET failed == FailedLayer
           status(layer) == IF Outcome # "accepted" /\ layer = failed THEN "fail" ELSE "pass"
           found == SecurityFindings \o LayerFindings \o LimitFindings(limitKnown)
           best == BestFinding(found)
       IN  IF Outcome = "accepted"
           THEN /\ layers' = layers \o <<Entry("network", "pass"), Entry("transport-session", "pass"), Entry("mms-initiate", "pass")>>
                /\ findings' = SecurityFindings \o LayerFindings
                /\ at' = "association"
                /\ UNCHANGED <<stopped, verdict>>
           ELSE /\ layers' = layers \o <<Entry("network", status("network"))>>
                                    \o If(failed # "network", Entry("transport-session", status("transport-session")))
                                    \o If(failed = "mms-initiate", Entry("mms-initiate", "fail"))
                /\ findings' = found
                /\ Stop(failed,
                        Verdict(CASE SuspectsTls -> "needs-tls"
                                  [] SuspectsAuthentication -> "needs-authentication"
                                  [] OTHER -> IF best = NoFinding THEN Outcome ELSE best.key,
                                IF SuspectsTls \/ SuspectsAuthentication THEN "likely" ELSE best.certainty,
                                failed))
    /\ UNCHANGED <<icmp, tcp, tls, link, p, sockets, dev>>

(* The association through libiec61850: Session.connect *)
Associate(o, limitKnown) ==
    /\ at = "association"
    /\ IF o = "ok"
       THEN /\ link' = TRUE
            /\ Report("association", "pass")
            /\ findings' = findings \o LimitFindings(limitKnown)
            /\ at' = "identity"
            /\ UNCHANGED <<stopped, verdict>>
       ELSE /\ Report("association", "fail")
            /\ Stop("association", Verdict("association-failed", "likely", "association"))
            /\ UNCHANGED <<link, findings>>
    /\ UNCHANGED <<icmp, tcp, tls, probeVars>>

UpperLayers == <<"identity", "model", "reports", "controls">>

(* Each upper layer passes, passes with a warning, or fails; the authority *)
(* probe of the controls fails nothing, and is made only when asked for.   *)
Upper(layer, status, next) ==
    /\ at = layer
    /\ status = "fail" => layer # "controls"
    /\ Report(layer, status)
    /\ CASE status = "fail" -> Stop(layer, Verdict(layer, "fact", layer))
         [] status # "fail" /\ next = "over" ->
                at' = "over" /\ verdict' = Verdict("no-problem", "fact", None) /\ UNCHANGED stopped
         [] OTHER -> at' = next /\ UNCHANGED <<stopped, verdict>>
    /\ UNCHANGED <<icmp, tcp, tls, link, findings, probeVars>>

Identity(status) == Upper("identity", status, "model")
Model(status) == Upper("model", status, "reports")
Reports(status, controls) == Upper("reports", status, IF controls THEN "controls" ELSE "over")
Controls(status) == Upper("controls", status, "over")

(* Anything but a service error (the association gone, Ctrl-C) leaves      *)
(* through the finally of diagnose, which still puts a verdict.  The row   *)
(* of a layer from the association up is appended, as passed, before the   *)
(* layer is looked at, and stays so; the association may be open by then.  *)
RowSoFar ==
    \/ UNCHANGED layers
    \/ \E s \in {"pass", "warn"} : Report(at, s) /\ (s = "warn" => at \in {"model", "controls"})

Raise ==
    /\ \/ at \in {"icmp", "tcp", "tls"} /\ UNCHANGED <<probeVars, layers, link>>
       \/ at \in {"attempt", "raised"} /\ Unwind /\ UNCHANGED <<layers, link>>
       \/ at = "association" /\ RowSoFar /\ link' \in BOOLEAN /\ UNCHANGED probeVars
       \/ at \in Range(UpperLayers) /\ RowSoFar /\ UNCHANGED <<probeVars, link>>
    /\ at' = "over"
    /\ verdict' = Verdict("did-not-complete", "check", None)
    /\ UNCHANGED <<icmp, tcp, tls, findings, stopped>>

LadderStep ==
    \/ \E bound \in BOOLEAN : Diagnose(bound)
    \/ \E present \in BOOLEAN : Bind(present)
    \/ \E r \in {"skipped", "reply", "no-reply"} : Ping(r)
    \/ \E o \in TcpOutcomes : BareConnect(o)
    \/ Attempt
    \/ \E r \in TcpOutcomes \cup {"tls", "tls-alert", "open"} : TlsPort(r)
    \/ \E known \in BOOLEAN : Classified(known)
    \/ \E o \in {"ok", "failed"}, known \in BOOLEAN : Associate(o, known)
    \/ \E s \in {"pass", "fail"} : Identity(s)
    \/ \E s \in {"pass", "warn", "fail"} : Model(s)
    \/ \E s \in {"pass", "fail"}, controls \in BOOLEAN : Reports(s, controls)
    \/ \E s \in {"pass", "warn", "not-run"} : Controls(s)
    \/ Raise

(***************************************************************************)
(* Properties                                                              *)
(***************************************************************************)
(* DIA-1, DIA-2: the layers reported are a prefix of the ladder (without   *)
(* the bind layer when no address is bound), only the last may have        *)
(* failed, and then it is the one the diagnosis says it stopped at and     *)
(* blames.                                                                 *)
StopsAtFirstFailure ==
    /\ \A i \in DOMAIN layers : layers[i].status = "fail" => i = Len(layers)
    /\ \E from \in {1, 2} : \A i \in DOMAIN layers : layers[i].layer = Layers[i + from - 1]
    /\ at = "over" /\ stopped # None =>
           Last(layers) = Entry(stopped, "fail") /\ verdict.layer = stopped
    /\ at = "over" /\ verdict.about = "no-problem" =>
           stopped = None /\ link /\ \A i \in DOMAIN layers : layers[i].status # "fail"

(* DIA-4, DIA-6: security is blamed only on evidence of its own, the hint  *)
(* at exhausted slots is never more than likely and never given of a       *)
(* device that accepted, or gave another permanent reason without saying   *)
(* that it is busy.                                                        *)
BlamesOnEvidence ==
    at = "over" /\ stopped \in {"network", "transport-session", "mms-initiate"} =>
        /\ verdict.about = "needs-tls" => tls \in {"tls", "tls-alert", "open"} \/ Why("cotp") = "tls"
        /\ verdict.about = "needs-authentication" => Why("acse") \in {"auth", "auth-required"}
        /\ \A i \in DOMAIN findings : findings[i].key = "slots-probably-exhausted" =>
               /\ findings[i].certainty = "likely"
               /\ Reachable
               /\ Observed \in {"acse-rejected-permanent", "session-refused", "presentation-rejected", "cotp-rejected"} => Congestion
        /\ verdict.about \notin Reminders
=================================================================================
