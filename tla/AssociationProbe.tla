---------------------------- MODULE AssociationProbe ----------------------------
(***************************************************************************)
(* The association attempt with which the diagnosis finds the layer that   *)
(* stops a connection (mms_protocol/diagnosis/probes.py): TCP, COTP, one   *)
(* request that carries session, presentation, ACSE and MMS, an answer     *)
(* decoded layer by layer, and the clean end of what was begun. The device *)
(* answers as it likes: the set Answers holds every shape of answer the    *)
(* decoder tells apart. A reason code is the class of codes it belongs to. *)
(***************************************************************************)
EXTENDS Naturals, Sequences, SequencesExt

CONSTANT None

ASSUME NoneAssumption == None \notin {"network", "transport", "session", "mms", "release", "abort"}

VARIABLES
    pc,         \* where the attempt is; "idle" and "done" between attempts
    p,          \* _Assoc and AssociationProbe: what the attempt has found
    sockets,    \* TCP connections this side has open to the MMS port
    dev         \* the device's view of the association: none, up, released, aborted, closed by
                \* itself, or dropped: its connection has ended without a word of either kind

probeVars == <<pc, p, sockets, dev>>

(***************************************************************************)
(* Layers, steps and the rule that the deepest rejection wins.             *)
(***************************************************************************)
Depth == [network |-> 0, transport |-> 1, session |-> 2, mms |-> 3]

StepLayer(name) ==
    CASE name = "tcp" -> "network"
      [] name \in {"cotp", "cotp-disconnect"} -> "transport"
      [] name \in {"iso-session", "presentation"} -> "session"
      [] OTHER -> "mms"

NewProbe == [steps |-> <<>>, outcome |-> "unknown", layer |-> None, initiate |-> FALSE,
             acse |-> [kind |-> "none"], endedBy |-> None]

(* Seeded bug: not to understand a deeper PDU hides the rejection. *)
FailLatest(q, layer, outcome) ==
    IF q.layer = None \/ Depth[layer] >= Depth[q.layer] THEN [q EXCEPT !.outcome = outcome, !.layer = layer] ELSE q

(* A rejection replaces a shallower or equally deep one, unless it is only *)
(* that an answer was not understood.                                      *)
Fail(q, layer, outcome) ==
    IF q.layer = None \/ (Depth[layer] >= Depth[q.layer] /\ outcome # "invalid-response")
    THEN [q EXCEPT !.outcome = outcome, !.layer = layer]
    ELSE q

(* why: the class of the reason code in the PDU of the step. *)
Add(q, name, ok, outcome, why) ==
    LET r == [q EXCEPT !.steps = Append(@, [name |-> name, ok |-> ok, outcome |-> outcome, why |-> why])]
    IN  IF ok = "no" THEN Fail(r, StepLayer(name), outcome) ELSE r

(***************************************************************************)
(* Answers. An MMS PDU is the payload of an ACSE PDU, that of a            *)
(* presentation PDU, that of the session PDU. The decoder takes one layer  *)
(* at a time, so a peculiar reason at one layer need not meet every shape  *)
(* of the layers above.                                                    *)
(***************************************************************************)
NoMms == [kind |-> "none", why |-> "plain"]
InitiateError == [kind |-> "initiate-error", why |-> "plain"]
MmsPdus == {NoMms, InitiateError, [InitiateError EXCEPT !.why = "busy"]}
             \cup [kind : {"unparsable", "initiate-response", "other"}, why : {"plain"}]

NoAcse == [kind |-> "none"]
AcsePdus ==
         [kind : {"unparsable", "RLRE"}, result : {None}, why : {"plain"}, mms : {NoMms}]
    \cup [kind : {"ABRT"}, result : {None}, why : {"plain", "auth"}, mms : {NoMms}]
    \cup [kind : {"AARE"}, result : {0, 1, 2, 3}, why : {"plain"}, mms : MmsPdus]
    \cup [kind : {"AARE"}, result : {1, 2}, why : {"title", "auth", "auth-required", "other"}, mms : {NoMms, InitiateError}]

(* CPA: a context may be rejected. CPR: the provider's reason may be a     *)
(* congestion, an unknown selector, or (7) both; or there is none.         *)
Ppdu(kind, why, acse) == [kind |-> kind, why |-> why, acse |-> acse]
NoPpdu == Ppdu("none", "plain", NoAcse)
UnparsablePpdu == Ppdu("unparsable", "plain", NoAcse)
ConnectPpdus == {Ppdu("CPA", why, acse) : why \in {"plain", "context-rejected"}, acse \in AcsePdus \cup {NoAcse}}
                  \cup {Ppdu("CPR", "plain", acse) : acse \in AcsePdus \cup {NoAcse}}
                  \cup {Ppdu("CPR", why, NoAcse) : why \in {"busy", "selector", "busy-selector"}}
                  \cup {UnparsablePpdu, NoPpdu}
AbortPpdus == {Ppdu("ARU", "plain", acse) : acse \in AcsePdus \cup {NoAcse}}
                \cup {UnparsablePpdu, NoPpdu, Ppdu("ARP", "plain", NoAcse)}

Spdus == [si : {"AC", "RF"}, why : {"plain"}, ppdu : ConnectPpdus]
    \cup [si : {"AC"}, why : {"bad-item"}, ppdu : {NoPpdu}]
    \cup [si : {"RF"}, why : {"busy", "selector"}, ppdu : {NoPpdu}]
    \cup [si : {"AB"}, why : {"plain"}, ppdu : AbortPpdus]
    \cup [si : {"other", "unparsable"}, why : {"plain"}, ppdu : {NoPpdu}]

TcpOutcomes == {"accepted", "tcp-refused", "tcp-timeout", "host-unreachable", "unknown", "unresolved", "no-local-address"}
TcpOk(o) == CASE o = "accepted" -> "yes" [] o \in {"unresolved", "no-local-address"} -> "unknown" [] OTHER -> "no"
TcpOutcome(o) == IF o \in {"unresolved", "no-local-address"} THEN "unknown" ELSE o

CotpAnswers == [kind : {"timeout", "closed", "not-understood", "tls-record", "CC", "ER", "other"}, why : {"plain"}]
                 \cup [kind : {"DR"}, why : {"plain", "busy", "selector"}]

(***************************************************************************)
(* Decoding, one operator per layer.                                       *)
(***************************************************************************)
PresentationLayer(q, ppdu) ==
    CASE ppdu.kind = "unparsable" -> Add(q, "presentation", "no", "invalid-response", "plain")
      [] ppdu.kind = "CPA" /\ ppdu.why # "context-rejected" -> Add(q, "presentation", "yes", "accepted", "plain")
      [] ppdu.kind = "CPR" \/ (ppdu.kind = "CPA" /\ ppdu.why = "context-rejected") ->
            Add(q, "presentation", "no", "presentation-rejected", ppdu.why)
      [] ppdu.kind = "ARP" -> Add(q, "presentation", "no", "session-aborted", "plain")
      [] ppdu.kind = "ARU" -> Add(q, "presentation", "unknown", "user-abort", "plain")

AareOutcome(result) ==
    CASE result = 1 -> "acse-rejected-permanent" [] result = 2 -> "acse-rejected-transient" [] OTHER -> "invalid-response"

AcseLayer(q, ppdu) ==
    LET acse == ppdu.acse
        known == [q EXCEPT !.acse = acse]
    IN  CASE ppdu.kind = "unparsable" -> q
          [] acse.kind = "none" ->
                IF ppdu.kind = "CPA" THEN Add(q, "acse", "no", "invalid-response", "plain") ELSE q
          [] acse.kind = "unparsable" -> Add(q, "acse", "no", "invalid-response", "plain")
          [] acse.kind = "ABRT" -> Add(known, "acse", "no", "acse-aborted", acse.why)
          [] acse.kind = "RLRE" -> Add(known, "acse", "no", "invalid-response", "plain")
          [] acse.kind = "AARE" ->
                IF acse.result = 0 THEN Add(known, "acse", "yes", "accepted", "plain")
                ELSE Add(known, "acse", "no", AareOutcome(acse.result), acse.why)

MmsLayer(q, acse) ==
    IF acse.kind # "AARE" THEN q
    ELSE CASE acse.mms.kind = "none" ->
                IF acse.result = 0 THEN Add(q, "mms-initiate", "no", "invalid-response", "plain") ELSE q
           [] acse.mms.kind = "initiate-response" ->
                Add([q EXCEPT !.initiate = TRUE], "mms-initiate",
                    IF acse.result = 0 THEN "yes" ELSE "unknown",
                    IF acse.result = 0 THEN "accepted" ELSE "response-in-rejection", "plain")
           [] acse.mms.kind = "initiate-error" -> Add(q, "mms-initiate", "no", "initiate-error", acse.mms.why)
           [] OTHER -> Add(q, "mms-initiate", "no", "invalid-response", "plain")

SessionLayer(q, spdu) ==
    CASE spdu.si = "AC" -> Add(q, "iso-session", "yes", "accepted", "plain")
      [] spdu.si = "RF" -> Add(q, "iso-session", "no", "session-refused", spdu.why)
      [] spdu.si = "AB" -> Add(q, "iso-session", "no", "session-aborted", "plain")
      [] OTHER -> Add(q, "iso-session", "no", "invalid-response", "plain")

(* Everything the answer says, from the session up. *)
Decode(q, spdu) ==
    LET session == SessionLayer(q, spdu)
        ppdu == spdu.ppdu
        above == IF ppdu.kind # "none"
                 THEN MmsLayer(AcseLayer(PresentationLayer(session, ppdu), ppdu), ppdu.acse)
                 ELSE IF spdu.si = "AC" THEN Add(session, "presentation", "no", "invalid-response", "plain")
                 ELSE session
    IN  IF spdu.si \in {"other", "unparsable"} THEN session
        ELSE IF above.layer = None /\ ~(spdu.si = "AC" /\ above.initiate) THEN Fail(above, "mms", "invalid-response")
        ELSE above

(***************************************************************************)
(* The attempt.                                                            *)
(***************************************************************************)
Finish(q, endedBy) ==
    /\ p' = [q EXCEPT !.endedBy = endedBy]
    /\ pc' = "done"

CloseSocket == sockets' = sockets - 1

(* What becomes of the association at the device when this side closes the *)
(* connection and nothing else.                                            *)
OnClose == IF dev = "up" THEN "dropped" ELSE dev

(* open_tcp, to begin with *)
TcpOpen(o) ==
    /\ pc = "tcp"
    /\ LET q == [Add(NewProbe, "tcp", TcpOk(o), TcpOutcome(o), o) EXCEPT !.outcome = TcpOutcome(o), !.layer = "network"]
       IN  IF o = "accepted"
           THEN /\ pc' = "cotp"
                /\ p' = [q EXCEPT !.outcome = "unknown", !.layer = None]
                /\ sockets' = sockets + 1
           ELSE Finish(q, None) /\ UNCHANGED sockets
    /\ UNCHANGED dev

CotpOutcome(a) ==
    CASE a.kind = "timeout" -> "cotp-no-response"
      [] a.kind = "closed" -> "tcp-closed-immediately"
      [] a.kind = "CC" -> "accepted"
      [] a.kind \in {"DR", "ER"} -> "cotp-rejected"
      [] OTHER -> "cotp-invalid-response"

CotpAnswer(a) ==
    /\ pc = "cotp"
    /\ LET o == CotpOutcome(a)
           q == Add(p, "cotp", IF o = "accepted" THEN "yes" ELSE "no", o, IF a.kind = "tls-record" THEN "tls" ELSE a.why)
       IN  IF o = "accepted"
           THEN pc' = "request" /\ p' = q /\ UNCHANGED sockets
           ELSE /\ CloseSocket
                /\ Finish(q, IF o = "tcp-closed-immediately" THEN "server-closed" ELSE "client-closed")
    /\ UNCHANGED dev

(* The request is answered by silence, by a closed connection, by bytes    *)
(* that are no TPDU, or by a TPDU that is no DT.  A device whose answer is *)
(* late or garbled may have accepted.                                      *)
NoAnswer(how) ==
    /\ pc = "request"
    /\ CloseSocket
    /\ Finish(CASE how = "not-understood" -> Add(p, "iso-session", "no", "invalid-response", "plain")
                [] how \in {"DR", "DR-busy"} ->
                     Add(p, "cotp-disconnect", "no", "cotp-rejected", IF how = "DR" THEN "plain" ELSE "busy")
                [] OTHER -> Add(p, "iso-session", "no", "initiate-no-response", "plain"),
              IF how \in {"timeout", "not-understood"} THEN "client-closed" ELSE "server-closed")
    /\ dev' \in IF how \in {"timeout", "not-understood"} THEN {dev, "dropped"} ELSE {dev}

(* A DT arrives. An ACCEPT that leads nowhere is aborted. *)
Answer(spdu) ==
    /\ pc = "request"
    /\ spdu.why # "bad-item"
    /\ LET q == Decode(p, spdu)
           accepted == spdu.si = "AC" /\ q.layer = None
       IN  CASE accepted ->
                    /\ pc' = "linger"
                    /\ p' = [q EXCEPT !.outcome = "accepted"]
                    /\ dev' = "up"
                    /\ UNCHANGED sockets
             [] ~accepted /\ spdu.si = "AC" ->
                    /\ pc' = "abort"
                    /\ p' = q
                    /\ dev' = "up"
                    /\ UNCHANGED sockets
             [] OTHER ->
                    /\ CloseSocket
                    /\ Finish(q, IF spdu.si \in {"RF", "AB"} THEN "server-closed" ELSE "client-closed")
                    /\ UNCHANGED dev

(* An ACCEPT whose Connect/Accept item is truncated: Spdu.version parses   *)
(* it again while the step's evidence is put together, outside the try, so *)
(* the exception leaves iso_associate with the socket open (Unwind).       *)
AnswerRaises(spdu) ==
    /\ pc = "request"
    /\ spdu.why = "bad-item"
    /\ pc' = "raised"
    /\ dev' = "up"
    /\ UNCHANGED <<p, sockets>>

(* wait_closed, after acceptance *)
Linger(closed) ==
    /\ pc = "linger"
    /\ IF closed
       THEN /\ dev' = "closed"
            /\ CloseSocket
            /\ Finish(Add(p, "linger", "no", "accepted-then-closed", "plain"), "server-closed")
       ELSE /\ p' = Add(p, "linger", "yes", "still-open", "plain")
            /\ pc' = "conclude"
            /\ UNCHANGED <<sockets, dev>>

(***************************************************************************)
(* _end: conclude and release, or abort                                    *)
(***************************************************************************)
Conclude(a) ==
    /\ pc = "conclude"
    /\ a \in {"concluded", "refused", "timeout", "closed", "not-understood"}
    /\ pc' = IF a = "concluded" THEN "release" ELSE "abort"
    /\ dev' = IF a = "closed" THEN "closed" ELSE dev
    /\ UNCHANGED <<p, sockets>>

ReleaseStep(ok, how) == [name |-> "release", ok |-> ok, outcome |-> IF ok = "yes" THEN "released" ELSE how, why |-> "plain"]

(* A failed release does not change the classification: the step is not    *)
(* added through Add.  An attempt that was not accepted reports an abort   *)
(* whether or not _end could send it.                                      *)
EndAs(how, ok) ==
    /\ CloseSocket
    /\ Finish([p EXCEPT !.steps = Append(@, ReleaseStep(ok, how))], IF p.layer = None THEN how ELSE "abort")

Release(a) ==
    /\ pc = "release"
    /\ a \in {"DN", "other", "timeout", "closed", "not-understood"}
    /\ CASE a = "DN" -> EndAs("release", "yes") /\ dev' = "released"
         [] a = "closed" -> pc' = "abort" /\ dev' = "closed" /\ UNCHANGED <<p, sockets>>
         [] OTHER -> pc' = "abort" /\ UNCHANGED <<p, sockets, dev>>

(* Seeded bug: the connection is closed as if the ABORT had been sent. *)
AbortNeverSent(sent) ==
    /\ pc = "abort"
    /\ EndAs("abort", "no")
    /\ dev' = OnClose

Abort(sent) ==
    /\ pc = "abort"
    /\ IF sent
       THEN EndAs("abort", "no") /\ dev' = IF dev = "up" THEN "aborted" ELSE dev
       ELSE EndAs("server-closed", "no") /\ dev' = OnClose

(***************************************************************************)
(* iso_associate as a whole; StartAttempt is its call, Unwind an exception *)
(* that leaves it: no handler of its closes anything, the socket goes with *)
(* the frame, and there is no result.  Before the answer is read, the      *)
(* device may have accepted.                                               *)
(***************************************************************************)
StartAttempt == pc' = "tcp" /\ dev' = "none"

Unwind ==
    /\ pc' = "idle" /\ p' = NewProbe /\ sockets' = 0
    /\ dev' \in IF pc = "request" THEN {OnClose, "dropped"} ELSE {OnClose}

AttemptStep ==
    \/ \E o \in TcpOutcomes : TcpOpen(o)
    \/ \E a \in CotpAnswers : CotpAnswer(a)
    \/ \E how \in {"timeout", "closed", "not-understood", "DR", "DR-busy"} : NoAnswer(how)
    \/ \E spdu \in Spdus : Answer(spdu) \/ AnswerRaises(spdu)
    \/ \E closed \in BOOLEAN : Linger(closed)
    \/ \E a \in {"concluded", "refused", "timeout", "closed", "not-understood"} : Conclude(a)
    \/ \E a \in {"DN", "other", "timeout", "closed", "not-understood"} : Release(a)
    \/ \E sent \in BOOLEAN : Abort(sent)

(***************************************************************************)
(* Properties                                                              *)
(***************************************************************************)
DepthOf(q, i) == Depth[StepLayer(q.steps[i].name)]
Failed(q) == {i \in DOMAIN q.steps : q.steps[i].ok = "no" /\ q.steps[i].name # "release"}
Understood(q) == {i \in Failed(q) : q.steps[i].outcome # "invalid-response"}

(* The last of the deepest steps that failed and were understood. *)
Deepest(q, i) ==
    /\ i \in Understood(q)
    /\ \A j \in Understood(q) : DepthOf(q, j) < DepthOf(q, i) \/ (DepthOf(q, j) = DepthOf(q, i) /\ j <= i)

(* DIA-3: the outcome of a finished attempt is the last of the deepest     *)
(* rejections that were understood; "not understood" is the outcome only   *)
(* if nothing else was said, and "accepted" only if no step failed.        *)
DeepestRejectionWins ==
    pc = "done" /\ p.steps[1].ok = "yes" =>
        CASE Failed(p) = {} ->
                p.outcome = IF Last(p.steps).name = "release" /\ p.initiate THEN "accepted" ELSE "invalid-response"
          [] Failed(p) # {} /\ Understood(p) = {} -> p.outcome = "invalid-response"
          [] Understood(p) # {} -> \E i \in Understood(p) : Deepest(p, i) /\ p.outcome = p.steps[i].outcome

(* An ACCEPT of the device has been understood as far as the session.      *)
Taken(q) == \E i \in DOMAIN q.steps : q.steps[i].name = "iso-session" /\ q.steps[i].ok = "yes"

(* The connection was gone before the abort could be sent, and the step says so. *)
AbortUnsent(q) == Last(q.steps) = ReleaseStep("no", "server-closed")

(* The attempt uses one connection at a time and leaves none, so that one  *)
(* free slot of the device is enough.  Once an ACCEPT has been understood, *)
(* the connection is not closed over an association that the device takes  *)
(* to be up, unless the abort could not be sent or an exception (Ctrl-C)   *)
(* has left the attempt without a result.  What a result says of the end   *)
(* is what the device saw: released only when the device has confirmed.    *)
EndsWhatItBegan ==
    /\ sockets \in {0, 1}
    /\ pc \in {"idle", "done"} => sockets = 0
    /\ dev = "dropped" => p = NewProbe \/ ~Taken(p) \/ AbortUnsent(p)
    /\ pc = "done" /\ p.endedBy = "release" => dev = "released"
    /\ pc = "done" /\ p.endedBy = "abort" => dev \in {"aborted", "closed"} \/ AbortUnsent(p)

=============================================================================
