---------------------------- MODULE DiagnosisProofs ----------------------------
(***************************************************************************)
(* Proofs about diagnose and discover: the connection an attempt takes,    *)
(* the verdict it comes to, and what the diagnosis makes of it.            *)
(***************************************************************************)
EXTENDS Discovery, SequenceTheorems, WellFoundedInduction, TLAPS

(***************************************************************************)
(* Which place of the command and of the attempt has the connection, and   *)
(* what the device then takes the association to be.                       *)
(***************************************************************************)
Connected == {"cotp", "request", "linger", "conclude", "release", "abort", "raised"}

(* What may be dropped: an association this side knows nothing of, or cannot abort. *)
Excused(q) == q = NewProbe \/ ~Taken(q) \/ AbortUnsent(q)

ConnectionInv ==
    /\ pc \in {"idle", "tcp", "done"} \cup Connected
    /\ sockets = IF pc \in Connected THEN 1 ELSE 0
    /\ dev = "up" => pc \in {"linger", "conclude", "release", "abort", "raised"}
    /\ pc \in {"linger", "conclude", "release"} => dev = "up"
    /\ pc = "abort" => dev \in {"up", "closed"}
    /\ dev = "dropped" => pc \in {"idle", "done"} /\ Excused(p)
    /\ pc = "done" /\ p.endedBy = "release" => dev = "released"
    /\ pc = "done" /\ p.endedBy = "abort" => dev \in {"aborted", "closed"} \/ AbortUnsent(p)

PlaceInv ==
    /\ at = "attempt" => pc \in {"tcp"} \cup (Connected \ {"raised"})
    /\ at = "probe-host" => pc \in {"tcp", "done"} \cup Connected
    /\ at = "raised" => pc = "raised"
    /\ at \in {"tls", "classify", "over"} => pc \in {"idle", "done"}
    /\ at \notin {"attempt", "probe-host", "raised", "tls", "classify", "over"} => pc = "idle"

-----------------------------------------------------------------------------
(* What an attempt has found *)

StepNames == {"tcp", "cotp", "cotp-disconnect", "iso-session", "presentation", "acse", "mms-initiate", "linger", "release"}
Outcomes ==
    {"unknown", "accepted", "tcp-refused", "tcp-timeout", "host-unreachable", "cotp-no-response", "tcp-closed-immediately",
     "cotp-rejected", "cotp-invalid-response", "invalid-response", "initiate-no-response", "presentation-rejected",
     "session-aborted", "user-abort", "acse-rejected-permanent", "acse-rejected-transient", "acse-aborted",
     "response-in-rejection", "initiate-error", "session-refused", "accepted-then-closed", "still-open",
     "released", "release", "abort", "server-closed"}
Whys ==
    {"plain", "tls", "busy", "selector", "busy-selector", "context-rejected", "title", "auth", "auth-required", "other",
     "bad-item", "accepted", "tcp-refused", "tcp-timeout", "host-unreachable", "unknown", "unresolved", "no-local-address"}
StepLayers == {"network", "transport", "session", "mms"}
Steps == [name : StepNames, ok : {"yes", "no", "unknown"}, outcome : Outcomes, why : Whys]
Probes ==
    [steps : Seq(Steps), outcome : Outcomes, layer : StepLayers \cup {None}, initiate : BOOLEAN,
     acse : AcsePdus \cup {NoAcse}, endedBy : {None, "client-closed", "server-closed", "release", "abort"}]

LEMMA LayerType ==
    /\ \A name : StepLayer(name) \in StepLayers
    /\ \A l \in StepLayers : Depth[l] \in 0..3
BY DEF StepLayer, StepLayers, Depth

LEMMA Depths ==
    /\ Depth[StepLayer("tcp")] = 0 /\ Depth[StepLayer("cotp")] = 1 /\ Depth[StepLayer("cotp-disconnect")] = 1
    /\ Depth[StepLayer("iso-session")] = 2 /\ Depth[StepLayer("presentation")] = 2
    /\ Depth[StepLayer("acse")] = 3 /\ Depth[StepLayer("mms-initiate")] = 3 /\ Depth[StepLayer("linger")] = 3
BY DEF StepLayer, Depth

(* The outcome is that of the last of the deepest failures understood, or of a failure if none is. *)
Judged(q) ==
    /\ Failed(q) = {} <=> q.layer = None
    /\ Failed(q) # {} =>
        \E i \in Failed(q) :
            /\ q.outcome = q.steps[i].outcome /\ q.layer = StepLayer(q.steps[i].name)
            /\ Understood(q) # {} => Deepest(q, i)

(* The layers are taken from below: no step so far is of one deeper than d. *)
Below(q, d) == \A i \in DOMAIN q.steps : DepthOf(q, i) <= d

Sound(q, d) ==
    /\ q \in Probes /\ q.steps # <<>> /\ q.steps[1].ok = "yes"
    /\ Judged(q) /\ Below(q, d)

(* The evidence of an authentication: the step says why the ACSE PDU does. *)
AcseTrue(q) ==
    q.acse.kind \in {"AARE", "ABRT"} =>
        /\ \E i \in DOMAIN q.steps : q.steps[i].name = "acse"
        /\ q.acse.kind = "ABRT" \/ q.acse.result # 0 =>
               \A i \in DOMAIN q.steps : q.steps[i].name = "acse" => q.steps[i].why = q.acse.why

LEMMA AddIs ==
    ASSUME NEW q \in Probes, NEW name \in StepNames, NEW ok \in {"yes", "no", "unknown"}, NEW outcome \in Outcomes, NEW why \in Whys
    PROVE  LET s == [name |-> name, ok |-> ok, outcome |-> outcome, why |-> why]
               r == Add(q, name, ok, outcome, why)
               layer == StepLayer(name)
               replaces == ok = "no" /\ (q.layer = None \/ (Depth[layer] >= Depth[q.layer] /\ outcome # "invalid-response"))
           IN  /\ r \in Probes /\ s \in Steps
               /\ r.steps = Append(q.steps, s)
               /\ r.outcome = IF replaces THEN outcome ELSE q.outcome
               /\ r.layer = IF replaces THEN layer ELSE q.layer
               /\ r.initiate = q.initiate /\ r.acse = q.acse /\ r.endedBy = q.endedBy
<1> DEFINE s == [name |-> name, ok |-> ok, outcome |-> outcome, why |-> why]
           t == [q EXCEPT !.steps = Append(@, s)]
           layer == StepLayer(name)
<1>1. s \in Steps
  BY DEF Steps
<1>2. q.steps \in Seq(Steps)
  BY DEF Probes
<1>3. Append(q.steps, s) \in Seq(Steps)
  BY <1>1, <1>2, AppendProperties
<1>4. t \in Probes /\ t.steps = Append(q.steps, s) /\ t.outcome = q.outcome /\ t.layer = q.layer
      /\ t.initiate = q.initiate /\ t.acse = q.acse /\ t.endedBy = q.endedBy
  BY <1>3 DEF Probes
<1>5. layer \in StepLayers
  BY LayerType
<1> HIDE DEF layer
<1>6. [t EXCEPT !.outcome = outcome, !.layer = layer] \in Probes
  BY <1>4, <1>5 DEF Probes
<1>7. /\ [t EXCEPT !.outcome = outcome, !.layer = layer].steps = t.steps
      /\ [t EXCEPT !.outcome = outcome, !.layer = layer].outcome = outcome
      /\ [t EXCEPT !.outcome = outcome, !.layer = layer].layer = layer
      /\ [t EXCEPT !.outcome = outcome, !.layer = layer].initiate = t.initiate
      /\ [t EXCEPT !.outcome = outcome, !.layer = layer].acse = t.acse
      /\ [t EXCEPT !.outcome = outcome, !.layer = layer].endedBy = t.endedBy
  BY <1>4 DEF Probes
<1> DEFINE replaces == ok = "no" /\ (q.layer = None \/ (Depth[layer] >= Depth[q.layer] /\ outcome # "invalid-response"))
<1>8. Add(q, name, ok, outcome, why) = IF replaces THEN [t EXCEPT !.outcome = outcome, !.layer = layer] ELSE t
  BY <1>4 DEF Add, Fail, layer
<1> HIDE DEF t, s, replaces
<1>9. QED
  BY <1>1, <1>4, <1>6, <1>7, <1>8 DEF s, replaces, layer

(* A step of a layer no shallower than the ones before it. *)
LEMMA AddSound ==
    ASSUME NEW q, NEW d \in 0..3, Sound(q, d), NEW name \in StepNames \ {"release"}, NEW ok \in {"yes", "no", "unknown"},
           NEW outcome \in Outcomes, NEW why \in Whys, d <= Depth[StepLayer(name)]
    PROVE  LET r == Add(q, name, ok, outcome, why)
           IN  /\ Sound(r, Depth[StepLayer(name)])
               /\ ok = "no" => Failed(r) # {} /\ r.layer # None
               /\ ok # "no" => r.layer = q.layer /\ r.outcome = q.outcome /\ (Failed(q) = {} => Failed(r) = {})
               /\ r.initiate = q.initiate /\ r.acse = q.acse /\ r.endedBy = q.endedBy
<1> DEFINE s == [name |-> name, ok |-> ok, outcome |-> outcome, why |-> why]
           r == Add(q, name, ok, outcome, why)
           layer == StepLayer(name)
           n == Len(q.steps)
           replaces == ok = "no" /\ (q.layer = None \/ (Depth[layer] >= Depth[q.layer] /\ outcome # "invalid-response"))
<1>1. /\ r \in Probes /\ s \in Steps /\ r.steps = Append(q.steps, s)
      /\ r.outcome = IF replaces THEN outcome ELSE q.outcome
      /\ r.layer = IF replaces THEN layer ELSE q.layer
      /\ r.initiate = q.initiate /\ r.acse = q.acse /\ r.endedBy = q.endedBy
  BY AddIs DEF Sound
<1>2. q \in Probes /\ q.steps \in Seq(Steps) /\ q.steps # <<>> /\ q.steps[1].ok = "yes"
  BY DEF Sound, Probes
<1> HIDE DEF r
<1>3. /\ n \in Nat \ {0} /\ DOMAIN q.steps = 1..n /\ DOMAIN r.steps = 1..n + 1
      /\ r.steps[n + 1] = s /\ \A i \in 1..n : r.steps[i] = q.steps[i]
  BY <1>1, <1>2, AppendProperties, LenProperties, EmptySeq
<1> HIDE DEF n
<1>4. s.name = name /\ s.ok = ok /\ s.outcome = outcome
  OBVIOUS
<1> HIDE DEF s
<1>5. layer \in StepLayers /\ Depth[layer] \in 0..3 /\ layer # None
  BY LayerType, NoneAssumption DEF StepLayers
<1>6. \A i \in 1..n : DepthOf(r, i) = DepthOf(q, i) /\ DepthOf(q, i) \in 0..3 /\ DepthOf(q, i) <= Depth[layer]
  <2>1. \A i \in 1..n : DepthOf(q, i) <= d
    BY <1>3 DEF Sound, Below
  <2>2. \A i \in 1..n : DepthOf(r, i) = DepthOf(q, i) /\ DepthOf(q, i) \in 0..3
    BY <1>3, LayerType DEF DepthOf
  <2>3. QED
    BY <1>5, <2>1, <2>2
<1>7. DepthOf(r, n + 1) = Depth[layer]
  BY <1>3, <1>4 DEF DepthOf
<1> HIDE DEF layer
<1>8. Below(r, Depth[layer])
  <2>1. ASSUME NEW i \in 1..n + 1 PROVE DepthOf(r, i) <= Depth[layer]
    <3>1. CASE i = n + 1
      BY <1>5, <1>7, <3>1
    <3>2. CASE i # n + 1
      <4>1. i \in 1..n
        BY <1>3, <3>2
      <4>2. QED
        BY <1>6, <4>1
    <3>3. QED
      BY <3>1, <3>2
  <2>2. QED
    BY <1>3, <2>1 DEF Below
<1>9. 1 \in 1..n /\ n + 1 \in 1..n + 1 /\ n + 1 \notin 1..n /\ \A i \in 1..n : i \in 1..n + 1 /\ i <= n + 1
  BY <1>3
<1>10. \A i \in 1..n + 1 : i \in 1..n \/ i = n + 1
  BY <1>3
<1>11. Failed(r) = Failed(q) \cup (IF ok = "no" THEN {n + 1} ELSE {}) /\ Failed(q) \subseteq 1..n
  BY <1>3, <1>4, <1>9, <1>10 DEF Failed
<1>12. /\ Understood(r) = Understood(q) \cup (IF ok = "no" /\ outcome # "invalid-response" THEN {n + 1} ELSE {})
       /\ Understood(q) \subseteq 1..n /\ Understood(q) \subseteq Failed(q)
  BY <1>3, <1>4, <1>9, <1>10, <1>11 DEF Understood
<1>13. \A i \in 1..n : Understood(r) = Understood(q) /\ Deepest(q, i) => Deepest(r, i)
  <2>1. ASSUME NEW i \in 1..n, Understood(r) = Understood(q), Deepest(q, i) PROVE Deepest(r, i)
    <3>1. \A j \in Understood(q) : DepthOf(r, j) = DepthOf(q, j)
      BY <1>6, <1>12
    <3>2. QED
      BY <1>6, <2>1, <3>1 DEF Deepest
  <2>2. QED
    BY <2>1
<1>14. Judged(q)
  BY DEF Sound
<1>15. Judged(r)
  <2>1. CASE ok # "no"
    <3>1. Failed(r) = Failed(q) /\ Understood(r) = Understood(q) /\ r.outcome = q.outcome /\ r.layer = q.layer
      BY <1>1, <1>11, <1>12, <2>1
    <3>2. CASE Failed(q) = {}
      BY <1>14, <3>1, <3>2 DEF Judged
    <3>3. CASE Failed(q) # {}
      <4>1. PICK i \in Failed(q) :
              /\ q.outcome = q.steps[i].outcome /\ q.layer = StepLayer(q.steps[i].name)
              /\ Understood(q) # {} => Deepest(q, i)
        BY <1>14, <3>3 DEF Judged
      <4>2. i \in 1..n /\ r.steps[i] = q.steps[i]
        BY <1>3, <1>11
      <4>3. Understood(r) # {} => Deepest(r, i)
        BY <1>13, <3>1, <4>1, <4>2
      <4>4. QED
        BY <1>14, <3>1, <3>3, <4>1, <4>2, <4>3 DEF Judged
    <3>4. QED
      BY <3>2, <3>3
  <2>2. CASE replaces
    <3>1. r.outcome = outcome /\ r.layer = layer /\ n + 1 \in Failed(r)
      BY <1>1, <1>11, <2>2
    <3>2. r.steps[n + 1].outcome = outcome /\ StepLayer(r.steps[n + 1].name) = layer
      BY <1>3, <1>4 DEF layer
    <3>3. ASSUME Understood(r) # {} PROVE Deepest(r, n + 1)
      <4>1. outcome # "invalid-response"
        <5>1. CASE q.layer = None
          <6>1. Failed(q) = {}
            BY <1>14, <5>1 DEF Judged
          <6>2. QED
            BY <1>12, <3>3, <6>1
        <5>2. QED
          BY <2>2, <5>1
      <4>2. n + 1 \in Understood(r)
        BY <1>12, <2>2, <4>1
      <4>3. ASSUME NEW j \in Understood(r)
            PROVE  DepthOf(r, j) < DepthOf(r, n + 1) \/ (DepthOf(r, j) = DepthOf(r, n + 1) /\ j <= n + 1)
        <5>1. CASE j = n + 1
          BY <1>3, <5>1
        <5>2. CASE j # n + 1
          <6>1. j \in 1..n
            BY <1>12, <5>2
          <6>2. DepthOf(r, j) \in 0..3 /\ DepthOf(r, j) <= Depth[layer] /\ j <= n + 1
            BY <1>6, <1>9, <6>1
          <6>3. QED
            BY <1>5, <1>7, <6>2
        <5>3. QED
          BY <5>1, <5>2
      <4>4. QED
        BY <4>2, <4>3 DEF Deepest
    <3>4. QED
      BY <1>5, <3>1, <3>2, <3>3 DEF Judged
  <2>3. CASE ok = "no" /\ ~replaces
    <3>1. r.outcome = q.outcome /\ r.layer = q.layer /\ q.layer # None
      BY <1>1, <2>3
    <3>2. PICK i \in Failed(q) :
            /\ q.outcome = q.steps[i].outcome /\ q.layer = StepLayer(q.steps[i].name)
            /\ Understood(q) # {} => Deepest(q, i)
      BY <1>14, <3>1 DEF Judged
    <3>3. i \in 1..n /\ r.steps[i] = q.steps[i] /\ i \in Failed(r)
      BY <1>3, <1>11
    <3>4. Depth[layer] >= Depth[q.layer]
      <4>1. Depth[q.layer] = DepthOf(q, i)
        BY <3>2 DEF DepthOf
      <4>2. QED
        BY <1>5, <1>6, <3>3, <4>1
    <3>5. outcome = "invalid-response"
      BY <2>3, <3>1, <3>4
    <3>6. Understood(r) = Understood(q)
      BY <1>12, <3>5
    <3>7. QED
      BY <1>13, <3>1, <3>2, <3>3, <3>6 DEF Judged
  <2>4. QED
    BY <2>1, <2>2, <2>3
<1>16. r.steps # <<>> /\ r.steps[1].ok = "yes"
  <2>1. r.steps # <<>>
    BY <1>1, <1>2, AppendProperties
  <2>2. QED
    BY <1>2, <1>3, <1>9, <2>1
<1>17. Sound(r, Depth[layer])
  BY <1>1, <1>8, <1>15, <1>16 DEF Sound
<1>18. ok = "no" => Failed(r) # {} /\ r.layer # None
  BY <1>11, <1>15 DEF Judged
<1>19. ok # "no" => r.layer = q.layer /\ r.outcome = q.outcome /\ (Failed(q) = {} => Failed(r) = {})
  BY <1>1, <1>11
<1>20. QED
  BY <1>1, <1>17, <1>18, <1>19 DEF r, layer

LEMMA AppendSteps ==
    ASSUME NEW q \in Probes, NEW s \in Steps
    PROVE  /\ Append(q.steps, s) \in Seq(Steps) /\ Append(q.steps, s) # <<>>
           /\ Len(q.steps) \in Nat
           /\ DOMAIN q.steps = 1..Len(q.steps)
           /\ DOMAIN Append(q.steps, s) = 1..Len(q.steps) + 1
           /\ Append(q.steps, s)[Len(q.steps) + 1] = s
           /\ \A i \in 1..Len(q.steps) : Append(q.steps, s)[i] = q.steps[i]
<1>1. q.steps \in Seq(Steps)
  BY DEF Probes
<1>2. QED
  BY <1>1, AppendProperties, LenProperties

LEMMA AddAcse ==
    ASSUME NEW q \in Probes, AcseTrue(q), NEW name \in StepNames \ {"acse"}, NEW ok \in {"yes", "no", "unknown"},
           NEW outcome \in Outcomes, NEW why \in Whys
    PROVE  AcseTrue(Add(q, name, ok, outcome, why))
<1> DEFINE s == [name |-> name, ok |-> ok, outcome |-> outcome, why |-> why]
           r == Add(q, name, ok, outcome, why)
           n == Len(q.steps)
<1>1. r.steps = Append(q.steps, s) /\ s \in Steps /\ r.acse = q.acse
  BY AddIs
<1>2. s.name # "acse"
  OBVIOUS
<1> HIDE DEF r, s
<1>3. /\ n \in Nat /\ DOMAIN q.steps = 1..n /\ DOMAIN r.steps = 1..n + 1
      /\ r.steps[n + 1] = s /\ \A i \in 1..n : r.steps[i] = q.steps[i]
  BY <1>1, AppendSteps
<1> HIDE DEF n
<1>4. (\A i \in 1..n + 1 : i \in 1..n \/ i = n + 1) /\ \A i \in 1..n : i \in 1..n + 1
  BY <1>3
<1>5. AcseTrue(r)
  BY <1>1, <1>2, <1>3, <1>4 DEF AcseTrue
<1>6. QED
  BY <1>5 DEF r

(* The first step of the ACSE, which says why its PDU does. *)
LEMMA AcseAdded ==
    ASSUME NEW q \in Probes, NEW acse \in AcsePdus, Below(q, 2), NEW ok \in {"yes", "no", "unknown"},
           NEW outcome \in Outcomes, NEW why \in Whys,
           acse.kind = "ABRT" \/ (acse.kind = "AARE" /\ acse.result # 0) => why = acse.why
    PROVE  AcseTrue(Add([q EXCEPT !.acse = acse], "acse", ok, outcome, why))
<1> DEFINE s == [name |-> "acse", ok |-> ok, outcome |-> outcome, why |-> why]
           t == [q EXCEPT !.acse = acse]
           r == Add(t, "acse", ok, outcome, why)
           n == Len(q.steps)
<1>1. t \in Probes /\ t.steps = q.steps /\ t.acse = acse
  BY DEF Probes
<1>2. "acse" \in StepNames
  BY DEF StepNames
<1> HIDE DEF t
<1>3. r.steps = Append(q.steps, s) /\ s \in Steps /\ r.acse = acse
  BY <1>1, <1>2, AddIs
<1>4. s.name = "acse" /\ s.why = why
  OBVIOUS
<1> HIDE DEF r, s
<1>5. /\ n \in Nat /\ DOMAIN q.steps = 1..n /\ DOMAIN r.steps = 1..n + 1
      /\ r.steps[n + 1] = s /\ \A i \in 1..n : r.steps[i] = q.steps[i]
  BY <1>3, AppendSteps
<1> HIDE DEF n
<1>6. (\A i \in 1..n + 1 : i \in 1..n \/ i = n + 1) /\ n + 1 \in 1..n + 1
  BY <1>5
<1>7. \A i \in 1..n : q.steps[i].name # "acse"
  <2>1. ASSUME NEW i \in 1..n, q.steps[i].name = "acse" PROVE FALSE
    <3>1. DepthOf(q, i) = 3
      BY <2>1, Depths DEF DepthOf
    <3>2. DepthOf(q, i) <= 2
      BY <1>5, <2>1 DEF Below
    <3>3. QED
      BY <3>1, <3>2
  <2>2. QED
    BY <2>1
<1>8. AcseTrue(r)
  BY <1>3, <1>4, <1>5, <1>6, <1>7 DEF AcseTrue
<1>9. QED
  BY <1>8 DEF r, t

-----------------------------------------------------------------------------
(* The answers *)

AcseKinds == {"none", "unparsable", "RLRE", "ABRT", "AARE"}

LEMMA MmsPdusType ==
    ASSUME NEW m \in MmsPdus
    PROVE  m.kind \in {"none", "unparsable", "initiate-response", "initiate-error", "other"} /\ m.why \in Whys
BY DEF MmsPdus, NoMms, InitiateError, Whys

LEMMA AcsePdusType ==
    ASSUME NEW a \in AcsePdus \cup {NoAcse}
    PROVE  /\ a.kind \in AcseKinds
           /\ a.kind # "none" => a \in AcsePdus /\ a.why \in Whys
           /\ a.kind = "AARE" => a.result \in 0..3 /\ a.mms \in MmsPdus
<1>1. NoMms \in MmsPdus /\ InitiateError \in MmsPdus
  BY DEF MmsPdus
<1>2. CASE a = NoAcse
  BY <1>2 DEF NoAcse, AcseKinds
<1>3. CASE a \in [kind : {"unparsable", "RLRE"}, result : {None}, why : {"plain"}, mms : {NoMms}]
  BY <1>3 DEF AcseKinds, AcsePdus, Whys
<1>4. CASE a \in [kind : {"ABRT"}, result : {None}, why : {"plain", "auth"}, mms : {NoMms}]
  BY <1>4 DEF AcseKinds, AcsePdus, Whys
<1>5. CASE a \in [kind : {"AARE"}, result : {0, 1, 2, 3}, why : {"plain"}, mms : MmsPdus]
  BY <1>5 DEF AcseKinds, AcsePdus, Whys
<1>6. CASE a \in [kind : {"AARE"}, result : {1, 2}, why : {"title", "auth", "auth-required", "other"}, mms : {NoMms, InitiateError}]
  BY <1>1, <1>6 DEF AcseKinds, AcsePdus, Whys
<1>7. QED
  BY <1>2, <1>3, <1>4, <1>5, <1>6 DEF AcsePdus

PpduTyped(ppdu) ==
    /\ ppdu.kind \in {"none", "unparsable", "CPA", "CPR", "ARU", "ARP"} /\ ppdu.why \in Whys
    /\ ppdu.acse \in AcsePdus \cup {NoAcse}
    /\ ppdu.kind \in {"none", "unparsable", "ARP"} => ppdu.acse = NoAcse

LEMMA PpduType ==
    ASSUME NEW ppdu \in ConnectPpdus \cup AbortPpdus
    PROVE  PpduTyped(ppdu)
<1> USE DEF PpduTyped, Ppdu, Whys
<1>1. PpduTyped(NoPpdu) /\ PpduTyped(UnparsablePpdu)
  BY DEF NoPpdu, UnparsablePpdu, NoAcse
<1>2. CASE \E why \in {"plain", "context-rejected"}, acse \in AcsePdus \cup {NoAcse} : ppdu = Ppdu("CPA", why, acse)
  BY <1>2
<1>3. CASE \E acse \in AcsePdus \cup {NoAcse} : ppdu = Ppdu("CPR", "plain", acse)
  BY <1>3
<1>4. CASE \E why \in {"busy", "selector", "busy-selector"} : ppdu = Ppdu("CPR", why, NoAcse)
  BY <1>4
<1>5. CASE \E acse \in AcsePdus \cup {NoAcse} : ppdu = Ppdu("ARU", "plain", acse)
  BY <1>5
<1>6. CASE ppdu = Ppdu("ARP", "plain", NoAcse)
  BY <1>6
<1>7. QED
  BY <1>1, <1>2, <1>3, <1>4, <1>5, <1>6 DEF ConnectPpdus, AbortPpdus

LEMMA SpduType ==
    ASSUME NEW spdu \in Spdus
    PROVE  /\ spdu.si \in {"AC", "RF", "AB", "other", "unparsable"} /\ spdu.why \in Whys
           /\ PpduTyped(spdu.ppdu)
<1>1. NoPpdu \in ConnectPpdus
  BY DEF ConnectPpdus
<1>2. spdu.si \in {"AC", "RF", "AB", "other", "unparsable"} /\ spdu.why \in Whys /\ spdu.ppdu \in ConnectPpdus \cup AbortPpdus
  BY <1>1 DEF Spdus, AbortPpdus, Whys
<1>3. QED
  BY <1>2, PpduType

-----------------------------------------------------------------------------
(* The decoder, layer by layer *)

LEMMA SoundDeeper ==
    ASSUME NEW q, NEW d \in 0..3, NEW e \in 0..3, d <= e, Sound(q, d)
    PROVE  Sound(q, e)
<1>1. q.steps \in Seq(Steps)
  BY DEF Sound, Probes
<1>2. \A i \in DOMAIN q.steps : DepthOf(q, i) \in 0..3 /\ DepthOf(q, i) <= d
  BY LayerType DEF Sound, Below, DepthOf
<1>3. Below(q, e)
  BY <1>2 DEF Below
<1>4. QED
  BY <1>3 DEF Sound

LEMMA SessionSound ==
    ASSUME NEW q, Sound(q, 1), AcseTrue(q), NEW spdu \in Spdus
    PROVE  LET r == SessionLayer(q, spdu)
           IN  /\ Sound(r, 2) /\ AcseTrue(r) /\ r.initiate = q.initiate /\ r.acse = q.acse
               /\ spdu.si # "AC" => r.layer # None
               /\ spdu.si = "AC" => r.layer = q.layer
<1>1. spdu.si \in {"AC", "RF", "AB", "other", "unparsable"} /\ spdu.why \in Whys
  BY SpduType
<1>2. "iso-session" \in StepNames \ {"release"} /\ "iso-session" \in StepNames \ {"acse"} /\ q \in Probes
  BY DEF StepNames, Sound
<1>3. {"accepted", "session-refused", "session-aborted", "invalid-response"} \subseteq Outcomes
  BY DEF Outcomes
<1>4. "plain" \in Whys
  BY DEF Whys
<1>5. ASSUME NEW ok \in {"yes", "no", "unknown"}, NEW o \in Outcomes, NEW why \in Whys
      PROVE  LET r == Add(q, "iso-session", ok, o, why)
             IN  /\ Sound(r, 2) /\ AcseTrue(r) /\ r.initiate = q.initiate /\ r.acse = q.acse
                 /\ ok = "no" => r.layer # None
                 /\ ok # "no" => r.layer = q.layer
  BY <1>2, Depths, AddSound, AddAcse
<1>6. CASE spdu.si = "AC"
  <2>1. SessionLayer(q, spdu) = Add(q, "iso-session", "yes", "accepted", "plain")
    BY <1>6 DEF SessionLayer
  <2>2. QED
    BY <1>3, <1>4, <1>5, <1>6, <2>1
<1>7. CASE spdu.si = "RF"
  <2>1. SessionLayer(q, spdu) = Add(q, "iso-session", "no", "session-refused", spdu.why)
    BY <1>7 DEF SessionLayer
  <2>2. QED
    BY <1>1, <1>3, <1>5, <1>7, <2>1
<1>8. CASE spdu.si \notin {"AC", "RF"}
  <2>1. \E o \in {"session-aborted", "invalid-response"} : SessionLayer(q, spdu) = Add(q, "iso-session", "no", o, "plain")
    BY <1>1, <1>8 DEF SessionLayer
  <2>2. QED
    BY <1>3, <1>4, <1>5, <1>8, <2>1
<1>9. QED
  BY <1>6, <1>7, <1>8

LEMMA PresentationSound ==
    ASSUME NEW q, Sound(q, 2), AcseTrue(q), NEW ppdu, PpduTyped(ppdu), ppdu.kind # "none"
    PROVE  LET r == PresentationLayer(q, ppdu)
           IN  /\ Sound(r, 2) /\ AcseTrue(r) /\ r.initiate = q.initiate /\ r.acse = q.acse
               /\ q.layer # None => r.layer # None
               /\ ppdu.kind = "unparsable" => r.layer # None
<1>1. ppdu.kind \in {"unparsable", "CPA", "CPR", "ARU", "ARP"} /\ ppdu.why \in Whys
  BY DEF PpduTyped
<1>2. "presentation" \in StepNames \ {"release"} /\ "presentation" \in StepNames \ {"acse"} /\ q \in Probes
  BY DEF StepNames, Sound
<1>3. {"accepted", "presentation-rejected", "session-aborted", "user-abort", "invalid-response"} \subseteq Outcomes
  BY DEF Outcomes
<1>4. "plain" \in Whys
  BY DEF Whys
<1>5. ASSUME NEW ok \in {"yes", "no", "unknown"}, NEW o \in Outcomes, NEW why \in Whys
      PROVE  LET r == Add(q, "presentation", ok, o, why)
             IN  /\ Sound(r, 2) /\ AcseTrue(r) /\ r.initiate = q.initiate /\ r.acse = q.acse
                 /\ ok = "no" => r.layer # None
                 /\ ok # "no" => r.layer = q.layer
  BY <1>2, Depths, AddSound, AddAcse
<1>6. CASE ppdu.kind = "unparsable"
  <2>1. PresentationLayer(q, ppdu) = Add(q, "presentation", "no", "invalid-response", "plain")
    BY <1>6 DEF PresentationLayer
  <2>2. QED
    BY <1>3, <1>5, <1>4, <2>1
<1>7. CASE ppdu.kind = "CPA" /\ ppdu.why # "context-rejected"
  <2>1. PresentationLayer(q, ppdu) = Add(q, "presentation", "yes", "accepted", "plain")
    BY <1>7 DEF PresentationLayer
  <2>2. QED
    BY <1>3, <1>5, <1>4, <1>7, <2>1
<1>8. CASE ppdu.kind = "CPR" \/ (ppdu.kind = "CPA" /\ ppdu.why = "context-rejected")
  <2>1. PresentationLayer(q, ppdu) = Add(q, "presentation", "no", "presentation-rejected", ppdu.why)
    BY <1>8 DEF PresentationLayer
  <2>2. QED
    BY <1>1, <1>3, <1>5, <2>1
<1>9. CASE ppdu.kind = "ARP"
  <2>1. PresentationLayer(q, ppdu) = Add(q, "presentation", "no", "session-aborted", "plain")
    BY <1>9 DEF PresentationLayer
  <2>2. QED
    BY <1>3, <1>5, <1>4, <2>1
<1>10. CASE ppdu.kind = "ARU"
  <2>1. PresentationLayer(q, ppdu) = Add(q, "presentation", "unknown", "user-abort", "plain")
    BY <1>10 DEF PresentationLayer
  <2>2. QED
    BY <1>3, <1>5, <1>4, <1>10, <2>1
<1>11. QED
  BY <1>1, <1>6, <1>7, <1>8, <1>9, <1>10

(* What is judged of a probe are its steps, its outcome and its layer. *)
LEMMA SameFindings ==
    ASSUME NEW q, NEW d \in 0..3, Sound(q, d), NEW t \in Probes,
           t.steps = q.steps, t.layer = q.layer, t.outcome = q.outcome
    PROVE  Sound(t, d)
<1>1. Failed(t) = Failed(q)
  BY DEF Failed
<1>2. Understood(t) = Understood(q)
  BY <1>1 DEF Understood
<1>3. \A i : DepthOf(t, i) = DepthOf(q, i)
  BY DEF DepthOf
<1>4. \A i : Deepest(t, i) = Deepest(q, i)
  BY <1>2, <1>3 DEF Deepest
<1>5. Judged(t) /\ Below(t, d)
  BY <1>1, <1>2, <1>3, <1>4 DEF Sound, Judged, Below
<1>6. QED
  BY <1>5 DEF Sound

LEMMA WithAcse ==
    ASSUME NEW q, NEW d \in 0..3, Sound(q, d), NEW acse \in AcsePdus
    PROVE  LET t == [q EXCEPT !.acse = acse]
           IN  Sound(t, d) /\ t.layer = q.layer /\ t.initiate = q.initiate
<1> DEFINE t == [q EXCEPT !.acse = acse]
<1>1. /\ t \in Probes /\ t.steps = q.steps /\ t.layer = q.layer /\ t.outcome = q.outcome /\ t.initiate = q.initiate
  BY DEF Sound, Probes
<1> HIDE DEF t
<1>2. Sound(t, d)
  BY <1>1, SameFindings
<1>3. QED
  BY <1>1, <1>2 DEF t

LEMMA WithInitiate ==
    ASSUME NEW q, NEW d \in 0..3, Sound(q, d), AcseTrue(q)
    PROVE  LET t == [q EXCEPT !.initiate = TRUE]
           IN  Sound(t, d) /\ AcseTrue(t) /\ t.layer = q.layer
<1> DEFINE t == [q EXCEPT !.initiate = TRUE]
<1>1. /\ t \in Probes /\ t.steps = q.steps /\ t.layer = q.layer /\ t.outcome = q.outcome /\ t.acse = q.acse
  BY DEF Sound, Probes
<1> HIDE DEF t
<1>2. Sound(t, d)
  BY <1>1, SameFindings
<1>3. AcseTrue(t)
  BY <1>1 DEF AcseTrue
<1>4. QED
  BY <1>1, <1>2, <1>3 DEF t

(* What the layers above the session have said, of an ACCEPT that nothing in it has contradicted or not. *)
LEMMA AcseSound ==
    ASSUME NEW q, Sound(q, 2), q.acse = NoAcse, NEW ppdu, PpduTyped(ppdu)
    PROVE  LET r == AcseLayer(q, ppdu)
           IN  /\ Sound(r, 3) /\ AcseTrue(r) /\ r.initiate = q.initiate
               /\ q.layer # None => r.layer # None
<1> DEFINE acse == ppdu.acse
           known == [q EXCEPT !.acse = acse]
<1>1. /\ acse \in AcsePdus \cup {NoAcse} /\ acse.kind \in AcseKinds
      /\ acse.kind # "none" => acse \in AcsePdus /\ acse.why \in Whys
      /\ acse.kind = "AARE" => acse.result \in 0..3
  BY AcsePdusType DEF PpduTyped
<1>2. "acse" \in StepNames \ {"release"} /\ q \in Probes /\ Below(q, 2) /\ "plain" \in Whys
  BY DEF StepNames, Sound, Whys
<1>3. {"accepted", "acse-aborted", "acse-rejected-permanent", "acse-rejected-transient", "invalid-response"} \subseteq Outcomes
  BY DEF Outcomes
<1>4. ASSUME NEW t, Sound(t, 2), NEW ok \in {"yes", "no", "unknown"}, NEW o \in Outcomes, NEW why \in Whys
      PROVE  LET r == Add(t, "acse", ok, o, why)
             IN  /\ Sound(r, 3) /\ r.initiate = t.initiate /\ r.acse = t.acse
                 /\ ok = "no" => r.layer # None
                 /\ ok # "no" => r.layer = t.layer
  BY <1>2, <1>4, Depths, AddSound
<1>5. ASSUME acse.kind # "none"
      PROVE  Sound(known, 2) /\ known.layer = q.layer /\ known.initiate = q.initiate
  BY <1>1, <1>5, WithAcse
<1>6. Sound(q, 3) /\ AcseTrue(q)
  BY SoundDeeper DEF AcseTrue, NoAcse
<1>7. ASSUME NEW o \in Outcomes, NEW why \in Whys
      PROVE  AcseTrue(Add(q, "acse", "no", o, why))
  <2>1. Add(q, "acse", "no", o, why).acse = NoAcse
    BY <1>4, <1>7
  <2>2. QED
    BY <2>1 DEF AcseTrue, NoAcse
<1>8. CASE ppdu.kind = "unparsable" \/ (acse.kind = "none" /\ ppdu.kind # "CPA")
  <2>1. AcseLayer(q, ppdu) = q
    <3>1. CASE ppdu.kind = "unparsable"
      <4>1. acse.kind = "none" /\ ppdu.kind # "CPA"
        BY <3>1 DEF PpduTyped, NoAcse
      <4>2. QED
        BY <3>1, <4>1 DEF AcseLayer
    <3>2. CASE ppdu.kind # "unparsable" /\ acse.kind = "none" /\ ppdu.kind # "CPA"
      BY <3>2 DEF AcseLayer
    <3>3. QED
      BY <1>8, <3>1, <3>2
  <2>2. QED
    BY <1>6, <2>1
<1>9. CASE ppdu.kind # "unparsable" /\ ((acse.kind = "none" /\ ppdu.kind = "CPA") \/ acse.kind = "unparsable")
  <2>1. AcseLayer(q, ppdu) = Add(q, "acse", "no", "invalid-response", "plain")
    BY <1>9 DEF AcseLayer
  <2>2. QED
    BY <1>2, <1>3, <1>4, <1>7, <2>1
<1>10. CASE ppdu.kind # "unparsable" /\ acse.kind \in {"RLRE", "ABRT", "AARE"}
  <2>1. PICK ok \in {"yes", "no"}, o \in Outcomes, why \in Whys :
          /\ AcseLayer(q, ppdu) = Add(known, "acse", ok, o, why)
          /\ acse.kind = "ABRT" \/ (acse.kind = "AARE" /\ acse.result # 0) => why = acse.why
    <3>1. CASE acse.kind = "RLRE"
      <4>1. AcseLayer(q, ppdu) = Add(known, "acse", "no", "invalid-response", "plain")
        BY <1>10, <3>1 DEF AcseLayer
      <4>2. QED
        BY <1>2, <1>3, <3>1, <4>1
    <3>2. CASE acse.kind = "ABRT"
      <4>1. AcseLayer(q, ppdu) = Add(known, "acse", "no", "acse-aborted", acse.why)
        BY <1>10, <3>2 DEF AcseLayer
      <4>2. QED
        BY <1>1, <1>3, <3>2, <4>1
    <3>3. CASE acse.kind = "AARE" /\ acse.result = 0
      <4>1. AcseLayer(q, ppdu) = Add(known, "acse", "yes", "accepted", "plain")
        BY <1>10, <3>3 DEF AcseLayer
      <4>2. QED
        BY <1>2, <1>3, <3>3, <4>1
    <3>4. CASE acse.kind = "AARE" /\ acse.result # 0
      <4>1. AcseLayer(q, ppdu) = Add(known, "acse", "no", AareOutcome(acse.result), acse.why)
        BY <1>10, <3>4 DEF AcseLayer
      <4>2. AareOutcome(acse.result) \in Outcomes
        BY <1>3 DEF AareOutcome
      <4>3. QED
        BY <1>1, <3>4, <4>1, <4>2
    <3>5. QED
      BY <1>10, <3>1, <3>2, <3>3, <3>4
  <2>2. Sound(known, 2) /\ known.layer = q.layer /\ known.initiate = q.initiate
    BY <1>5, <1>10
  <2>3. AcseTrue(Add(known, "acse", ok, o, why))
    BY <1>1, <1>2, <1>10, <2>1, AcseAdded
  <2>4. ok \in {"yes", "no", "unknown"}
    OBVIOUS
  <2> HIDE DEF known
  <2>5. /\ Sound(Add(known, "acse", ok, o, why), 3) /\ Add(known, "acse", ok, o, why).initiate = known.initiate
        /\ ok = "no" => Add(known, "acse", ok, o, why).layer # None
        /\ ok # "no" => Add(known, "acse", ok, o, why).layer = known.layer
    BY <1>4, <2>2, <2>4
  <2>6. QED
    BY <2>1, <2>2, <2>3, <2>5
<1>11. QED
  BY <1>1, <1>8, <1>9, <1>10 DEF AcseKinds

LEMMA MmsSound ==
    ASSUME NEW q, Sound(q, 3), AcseTrue(q), NEW acse \in AcsePdus \cup {NoAcse}
    PROVE  LET r == MmsLayer(q, acse)
           IN  /\ Sound(r, 3) /\ AcseTrue(r)
               /\ q.layer # None => r.layer # None
<1>1. acse.kind \in AcseKinds /\ (acse.kind = "AARE" => acse.result \in 0..3 /\ acse.mms \in MmsPdus)
  BY AcsePdusType
<1>2. "mms-initiate" \in StepNames \ {"release"} /\ "mms-initiate" \in StepNames \ {"acse"} /\ "plain" \in Whys
  BY DEF StepNames, Whys
<1>3. {"accepted", "response-in-rejection", "initiate-error", "invalid-response"} \subseteq Outcomes
  BY DEF Outcomes
<1>4. ASSUME NEW t, Sound(t, 3), AcseTrue(t), NEW ok \in {"yes", "no", "unknown"}, NEW o \in Outcomes, NEW why \in Whys
      PROVE  LET r == Add(t, "mms-initiate", ok, o, why)
             IN  /\ Sound(r, 3) /\ AcseTrue(r)
                 /\ t.layer # None => r.layer # None
  <2>1. t \in Probes
    BY <1>4 DEF Sound
  <2>2. AcseTrue(Add(t, "mms-initiate", ok, o, why))
    BY <1>2, <1>4, <2>1, AddAcse
  <2>3. /\ Sound(Add(t, "mms-initiate", ok, o, why), 3)
        /\ ok = "no" => Add(t, "mms-initiate", ok, o, why).layer # None
        /\ ok # "no" => Add(t, "mms-initiate", ok, o, why).layer = t.layer
    BY <1>2, <1>4, Depths, AddSound
  <2>4. QED
    BY <2>2, <2>3
<1>5. CASE acse.kind # "AARE" \/ (acse.mms.kind = "none" /\ acse.result # 0)
  <2>1. MmsLayer(q, acse) = q
    BY <1>5 DEF MmsLayer
  <2>2. QED
    BY <2>1
<1>6. CASE acse.kind = "AARE" /\ acse.mms.kind = "initiate-response"
  <2> DEFINE t == [q EXCEPT !.initiate = TRUE]
  <2>1. PICK ok \in {"yes", "unknown"}, o \in {"accepted", "response-in-rejection"} :
          MmsLayer(q, acse) = Add(t, "mms-initiate", ok, o, "plain")
    BY <1>6 DEF MmsLayer
  <2>2. Sound(t, 3) /\ AcseTrue(t) /\ t.layer = q.layer
    BY WithInitiate
  <2>3. ok \in {"yes", "no", "unknown"} /\ o \in Outcomes
    BY <1>3
  <2> HIDE DEF t
  <2>4. QED
    BY <1>2, <1>4, <2>1, <2>2, <2>3
<1>7. CASE acse.kind = "AARE" /\ acse.mms.kind # "initiate-response" /\ ~(acse.mms.kind = "none" /\ acse.result # 0)
  <2>1. \E o \in {"initiate-error", "invalid-response"}, why \in Whys :
          MmsLayer(q, acse) = Add(q, "mms-initiate", "no", o, why)
    <3>1. CASE acse.mms.kind = "initiate-error"
      <4>1. MmsLayer(q, acse) = Add(q, "mms-initiate", "no", "initiate-error", acse.mms.why)
        BY <1>7, <3>1 DEF MmsLayer
      <4>2. QED
        BY <1>1, <1>7, <4>1, MmsPdusType
    <3>2. CASE acse.mms.kind # "initiate-error"
      <4>1. MmsLayer(q, acse) = Add(q, "mms-initiate", "no", "invalid-response", "plain")
        BY <1>7, <3>2 DEF MmsLayer
      <4>2. QED
        BY <1>2, <4>1
    <3>3. QED
      BY <3>1, <3>2
  <2>2. QED
    BY <1>3, <1>4, <2>1
<1>8. QED
  BY <1>5, <1>6, <1>7

(* An attempt that nothing has contradicted, and one whose verdict stands. *)
Fine(q) == Sound(q, 3) /\ Failed(q) = {} /\ q.initiate /\ AcseTrue(q)

Settled(q) ==
    /\ q \in Probes /\ AcseTrue(q) /\ q.steps # <<>> /\ q.steps[1].ok = "yes"
    /\ Failed(q) = {} => q.outcome = "invalid-response" /\ ~q.initiate
    /\ Failed(q) # {} =>
        \E i \in Failed(q) : q.outcome = q.steps[i].outcome /\ (Understood(q) # {} => Deepest(q, i))

LEMMA FailedSettled ==
    ASSUME NEW q, NEW d, Sound(q, d), AcseTrue(q), q.layer # None
    PROVE  Settled(q)
BY DEF Sound, Judged, Settled

(* What Decode makes of an answer: a probe that is fine, of an ACCEPT that carries an initiate response, or settled. *)
LEMMA DecodeSound ==
    ASSUME NEW q, Sound(q, 1), q.acse = NoAcse, q.layer = None, ~q.initiate, NEW spdu \in Spdus
    PROVE  LET r == Decode(q, spdu)
           IN  IF spdu.si = "AC" /\ r.layer = None THEN Fine(r) ELSE Settled(r)
<1> DEFINE session == SessionLayer(q, spdu)
           ppdu == spdu.ppdu
           presentation == PresentationLayer(session, ppdu)
           acse == AcseLayer(presentation, ppdu)
           above == IF ppdu.kind # "none" THEN MmsLayer(acse, ppdu.acse)
                    ELSE IF spdu.si = "AC" THEN Add(session, "presentation", "no", "invalid-response", "plain")
                    ELSE session
           r == Decode(q, spdu)
<1>1. AcseTrue(q)
  BY DEF AcseTrue, NoAcse
<1>2. spdu.si \in {"AC", "RF", "AB", "other", "unparsable"} /\ PpduTyped(ppdu)
  BY SpduType
<1>3. /\ Sound(session, 2) /\ AcseTrue(session) /\ session.acse = NoAcse
      /\ spdu.si # "AC" => session.layer # None
  BY <1>1, SessionSound
<1>4. r = IF spdu.si \in {"other", "unparsable"} THEN session
          ELSE IF above.layer = None /\ ~(spdu.si = "AC" /\ above.initiate) THEN Fail(above, "mms", "invalid-response")
          ELSE above
  BY DEF Decode
<1> HIDE DEF r
<1>5. Sound(above, 3) /\ AcseTrue(above) /\ (spdu.si # "AC" => above.layer # None)
  <2>1. CASE ppdu.kind # "none"
    <3>1. /\ Sound(presentation, 2) /\ AcseTrue(presentation) /\ presentation.acse = NoAcse
          /\ session.layer # None => presentation.layer # None
      BY <1>2, <1>3, <2>1, PresentationSound
    <3> HIDE DEF presentation
    <3>2. Sound(acse, 3) /\ AcseTrue(acse) /\ (presentation.layer # None => acse.layer # None)
      BY <1>2, <3>1, AcseSound
    <3>3. ppdu.acse \in AcsePdus \cup {NoAcse}
      BY <1>2 DEF PpduTyped
    <3> DEFINE mms == MmsLayer(acse, ppdu.acse)
    <3> HIDE DEF acse
    <3>4. Sound(mms, 3) /\ AcseTrue(mms) /\ (acse.layer # None => mms.layer # None)
      BY <3>2, <3>3, MmsSound
    <3>5. above = mms
      BY <2>1
    <3> HIDE DEF mms, above
    <3>6. QED
      BY <1>3, <3>1, <3>2, <3>4, <3>5
  <2>2. CASE ppdu.kind = "none" /\ spdu.si = "AC"
    <3> DEFINE wrong == Add(session, "presentation", "no", "invalid-response", "plain")
    <3>1. "presentation" \in StepNames \ {"release"} /\ "presentation" \in StepNames \ {"acse"} /\ session \in Probes
      BY <1>3 DEF StepNames, Sound
    <3>2. "invalid-response" \in Outcomes /\ "plain" \in Whys
      BY DEF Outcomes, Whys
    <3>3. Sound(wrong, 2) /\ AcseTrue(wrong)
      BY <1>3, <3>1, <3>2, Depths, AddSound, AddAcse
    <3>4. above = wrong
      BY <2>2
    <3> HIDE DEF wrong, above
    <3>5. Sound(wrong, 3)
      BY <3>3, SoundDeeper
    <3>6. QED
      BY <2>2, <3>3, <3>4, <3>5
  <2>3. CASE ppdu.kind = "none" /\ spdu.si # "AC"
    <3>1. above = session /\ Sound(session, 3)
      BY <1>3, <2>3, SoundDeeper
    <3>2. QED
      BY <1>3, <3>1
  <2>4. QED
    BY <2>1, <2>2, <2>3
<1> HIDE DEF above, session
<1>6. CASE spdu.si \in {"other", "unparsable"}
  <2>1. r = session /\ spdu.si # "AC"
    BY <1>4, <1>6
  <2>2. Settled(session)
    BY <1>3, <2>1, FailedSettled
  <2>3. QED
    BY <2>1, <2>2 DEF r
<1>7. CASE spdu.si \notin {"other", "unparsable"} /\ above.layer # None
  <2>1. r = above
    BY <1>4, <1>7
  <2>2. Settled(above)
    BY <1>5, <1>7, FailedSettled
  <2>3. QED
    BY <1>7, <2>1, <2>2 DEF r
<1>8. CASE above.layer = None
  <2>1. spdu.si = "AC" /\ Failed(above) = {}
    BY <1>5, <1>8 DEF Sound, Judged
  <2>2. CASE above.initiate
    <3>1. r = above
      BY <1>4, <2>1, <2>2
    <3>2. Fine(above)
      BY <1>5, <2>1, <2>2 DEF Fine
    <3>3. QED
      BY <1>8, <2>1, <3>1, <3>2 DEF r
  <2>3. CASE ~above.initiate
    <3>1. r = [above EXCEPT !.outcome = "invalid-response", !.layer = "mms"]
      BY <1>4, <1>8, <2>1, <2>3 DEF Fail
    <3>2. above \in Probes /\ above.steps # <<>> /\ above.steps[1].ok = "yes"
      BY <1>5 DEF Sound
    <3>3. /\ r \in Probes /\ r.steps = above.steps /\ r.outcome = "invalid-response" /\ r.layer = "mms"
          /\ r.initiate = above.initiate /\ r.acse = above.acse
      BY <3>1, <3>2 DEF Probes, Outcomes, StepLayers
    <3>4. Failed(r) = {}
      BY <2>1, <3>3 DEF Failed
    <3>5. AcseTrue(r)
      BY <1>5, <3>3 DEF AcseTrue
    <3>6. Settled(r) /\ r.layer # None
      BY <2>3, <3>2, <3>3, <3>4, <3>5, NoneAssumption DEF Settled
    <3>7. QED
      BY <2>1, <3>6 DEF r
  <2>4. QED
    BY <2>2, <2>3
<1>9. QED
  BY <1>2, <1>6, <1>7, <1>8

-----------------------------------------------------------------------------
(* The attempt *)

Begun(q, d) == Sound(q, d) /\ q.layer = None /\ ~q.initiate /\ q.acse = NoAcse

(* DIA-3, of a probe. *)
Told(q) ==
    q.steps[1].ok = "yes" =>
        CASE Failed(q) = {} ->
                q.outcome = IF Last(q.steps).name = "release" /\ q.initiate THEN "accepted" ELSE "invalid-response"
          [] Failed(q) # {} /\ Understood(q) = {} -> q.outcome = "invalid-response"
          [] Understood(q) # {} -> \E i \in Understood(q) : Deepest(q, i) /\ q.outcome = q.steps[i].outcome

ProbeInv ==
    /\ p \in Probes /\ AcseTrue(p)
    /\ pc = "cotp" => Begun(p, 0)
    /\ pc = "request" => Begun(p, 1)
    /\ pc \in {"linger", "conclude", "release"} => Fine(p) /\ p.outcome = "accepted"
    /\ pc = "abort" => (Fine(p) /\ p.outcome = "accepted") \/ Settled(p)
    /\ pc = "done" => Told(p)

Endings == {None, "client-closed", "server-closed", "release", "abort"}

(* How the attempt ended is no part of its verdict. *)
LEMMA SettledTold ==
    ASSUME NEW q, Settled(q), NEW e \in Endings
    PROVE  LET t == [q EXCEPT !.endedBy = e]
           IN  t \in Probes /\ AcseTrue(t) /\ Told(t) /\ t.endedBy = e
<1> DEFINE t == [q EXCEPT !.endedBy = e]
<1>1. q \in Probes
  BY DEF Settled
<1>2. /\ t \in Probes /\ t.steps = q.steps /\ t.outcome = q.outcome /\ t.initiate = q.initiate /\ t.acse = q.acse
      /\ t.endedBy = e
  BY <1>1 DEF Probes, Endings
<1> HIDE DEF t
<1>3. Failed(t) = Failed(q)
  BY <1>2 DEF Failed
<1>4. Understood(t) = Understood(q) /\ Understood(q) \subseteq Failed(q)
  BY <1>2, <1>3 DEF Understood
<1>5. \A i : Deepest(t, i) = Deepest(q, i)
  BY <1>2, <1>4 DEF Deepest, DepthOf
<1>6. AcseTrue(t)
  BY <1>2 DEF Settled, AcseTrue
<1>7. CASE Failed(q) = {}
  <2>1. t.outcome = "invalid-response" /\ ~t.initiate
    BY <1>2, <1>7 DEF Settled
  <2>2. Told(t)
    BY <1>3, <1>4, <1>7, <2>1 DEF Told
  <2>3. QED
    BY <1>2, <1>6, <2>2 DEF t
<1>8. CASE Failed(q) # {}
  <2>1. PICK i \in Failed(q) : q.outcome = q.steps[i].outcome /\ (Understood(q) # {} => Deepest(q, i))
    BY <1>8 DEF Settled
  <2>2. CASE Understood(q) = {}
    <3>1. q.steps[i].outcome = "invalid-response"
      BY <2>1, <2>2 DEF Understood
    <3>2. Told(t)
      BY <1>2, <1>3, <1>4, <1>8, <2>1, <2>2, <3>1 DEF Told
    <3>3. QED
      BY <1>2, <1>6, <3>2 DEF t
  <2>3. CASE Understood(q) # {}
    <3>1. i \in Understood(t) /\ Deepest(t, i) /\ t.outcome = t.steps[i].outcome
      BY <1>2, <1>4, <1>5, <2>1, <2>3 DEF Deepest
    <3>2. Told(t)
      BY <1>3, <1>4, <1>8, <2>3, <3>1 DEF Told
    <3>3. QED
      BY <1>2, <1>6, <3>2 DEF t
  <2>4. QED
    BY <2>2, <2>3
<1>9. QED
  BY <1>7, <1>8

(* The step of the release is not one of those that are judged. *)
EndedBy(q, how) == IF q.layer = None THEN how ELSE "abort"
Ended(q, ok, how) == [[q EXCEPT !.steps = Append(@, ReleaseStep(ok, how))] EXCEPT !.endedBy = EndedBy(q, how)]

LEMMA EndTold ==
    ASSUME NEW q, (Fine(q) /\ q.outcome = "accepted") \/ Settled(q), NEW ok \in {"yes", "no"},
           NEW how \in {"release", "abort", "server-closed"}
    PROVE  LET t == Ended(q, ok, how)
           IN  /\ t \in Probes /\ AcseTrue(t) /\ Told(t) /\ t.endedBy = EndedBy(q, how)
               /\ Last(t.steps) = ReleaseStep(ok, how)
<1> DEFINE s == ReleaseStep(ok, how)
           n == Len(q.steps)
           t == Ended(q, ok, how)
<1>1. s \in Steps /\ s.name = "release"
  BY DEF ReleaseStep, Steps, StepNames, Outcomes, Whys
<1>2. q \in Probes /\ AcseTrue(q) /\ q.steps # <<>> /\ q.steps[1].ok = "yes"
  BY DEF Fine, Settled, Sound
<1> DEFINE e == EndedBy(q, how)
<1>3. t = [[q EXCEPT !.steps = Append(q.steps, s)] EXCEPT !.endedBy = e]
  BY DEF Ended
<1>3a. e \in Endings
  BY DEF EndedBy, Endings
<1> HIDE DEF s, t, e
<1>4. Append(q.steps, s) \in Seq(Steps)
  BY <1>1, <1>2, AppendSteps
<1>5. /\ t \in Probes /\ t.steps = Append(q.steps, s) /\ t.outcome = q.outcome /\ t.initiate = q.initiate /\ t.acse = q.acse
      /\ t.endedBy = e
  BY <1>2, <1>3, <1>3a, <1>4 DEF Probes, Endings
<1>6. /\ n \in Nat /\ DOMAIN q.steps = 1..n /\ DOMAIN t.steps = 1..n + 1
      /\ t.steps[n + 1] = s /\ \A i \in 1..n : t.steps[i] = q.steps[i]
  BY <1>1, <1>2, <1>5, AppendSteps
<1>7. Last(t.steps) = s /\ Last(t.steps).name = "release"
  <2>1. Len(t.steps) = n + 1
    BY <1>1, <1>2, <1>4, <1>5, <1>6, AppendProperties DEF Probes
  <2>2. QED
    BY <1>1, <1>6, <2>1 DEF Last
<1> HIDE DEF n
<1>8. (\A i \in 1..n + 1 : i \in 1..n \/ i = n + 1) /\ \A i \in 1..n : i \in 1..n + 1
  BY <1>6
<1>9. Failed(t) = Failed(q) /\ Failed(q) \subseteq 1..n
  BY <1>1, <1>6, <1>8 DEF Failed
<1>10. Understood(t) = Understood(q) /\ Understood(q) \subseteq Failed(q)
  BY <1>6, <1>9 DEF Understood
<1>11. \A i \in 1..n : DepthOf(t, i) = DepthOf(q, i)
  BY <1>6 DEF DepthOf
<1>12. \A i : Deepest(q, i) => Deepest(t, i)
  BY <1>9, <1>10, <1>11 DEF Deepest
<1>13. AcseTrue(t)
  BY <1>1, <1>2, <1>5, <1>6, <1>8 DEF AcseTrue
<1>14. CASE Failed(q) = {}
  <2>1. t.outcome = IF t.initiate THEN "accepted" ELSE "invalid-response"
    <3>1. CASE Fine(q) /\ q.outcome = "accepted"
      BY <1>5, <3>1 DEF Fine
    <3>2. CASE Settled(q)
      BY <1>5, <1>14, <3>2 DEF Settled
    <3>3. QED
      BY <3>1, <3>2
  <2>2. Told(t)
    BY <1>7, <1>9, <1>10, <1>14, <2>1 DEF Told
  <2>3. QED
    BY <1>5, <1>7, <1>13, <2>2 DEF t, s, e
<1>15. CASE Failed(q) # {}
  <2>1. Settled(q)
    BY <1>15 DEF Fine
  <2>2. PICK i \in Failed(q) : q.outcome = q.steps[i].outcome /\ (Understood(q) # {} => Deepest(q, i))
    BY <1>15, <2>1 DEF Settled
  <2>3. t.outcome = t.steps[i].outcome
    BY <1>5, <1>6, <1>9, <2>2
  <2>4. CASE Understood(q) = {}
    <3>1. q.steps[i].outcome = "invalid-response"
      BY <2>2, <2>4 DEF Understood
    <3>2. Told(t)
      BY <1>5, <1>9, <1>10, <1>15, <2>2, <2>4, <3>1 DEF Told
    <3>3. QED
      BY <1>5, <1>7, <1>13, <3>2 DEF t, s, e
  <2>5. CASE Understood(q) # {}
    <3>1. i \in Understood(t) /\ Deepest(t, i)
      BY <1>10, <1>12, <2>2, <2>5 DEF Deepest
    <3>2. Told(t)
      BY <1>9, <1>10, <1>15, <2>3, <2>5, <3>1 DEF Told
    <3>3. QED
      BY <1>5, <1>7, <1>13, <3>2 DEF t, s, e
  <2>6. QED
    BY <2>4, <2>5
<1>16. QED
  BY <1>14, <1>15

(* A step that failed, and the attempt is over. *)
LEMMA AddTold ==
    ASSUME NEW q, NEW d \in 0..3, Sound(q, d), AcseTrue(q), NEW name \in StepNames \ {"release", "acse"},
           NEW outcome \in Outcomes, NEW why \in Whys, d <= Depth[StepLayer(name)], NEW e \in Endings
    PROVE  LET t == [Add(q, name, "no", outcome, why) EXCEPT !.endedBy = e]
           IN  t \in Probes /\ AcseTrue(t) /\ Told(t) /\ t.endedBy = e
<1> DEFINE r == Add(q, name, "no", outcome, why)
<1>1. Sound(r, Depth[StepLayer(name)]) /\ r.layer # None
  BY AddSound
<1>2. q \in Probes
  BY DEF Sound
<1>3. AcseTrue(r)
  BY <1>2, AddAcse
<1> HIDE DEF r
<1>4. Settled(r)
  BY <1>1, <1>3, FailedSettled
<1>5. QED
  BY <1>4, SettledTold DEF r

(***************************************************************************)
(* The steps of an attempt.                                                *)
(***************************************************************************)
AttemptInv == ConnectionInv /\ ProbeInv

LEMMA AttemptTcpOpen ==
    ASSUME AttemptInv, NEW o \in TcpOutcomes, TcpOpen(o)
    PROVE  AttemptInv'
<1> DEFINE s == [name |-> "tcp", ok |-> TcpOk(o), outcome |-> TcpOutcome(o), why |-> o]
           a == Add(NewProbe, "tcp", TcpOk(o), TcpOutcome(o), o)
           q == [a EXCEPT !.outcome = TcpOutcome(o), !.layer = "network"]
<1>1. NewProbe \in Probes /\ NewProbe.steps = <<>> /\ NewProbe.acse = NoAcse /\ ~NewProbe.initiate
  <2>1. <<>> \in Seq(Steps)
    OBVIOUS
  <2>2. QED
    BY <2>1 DEF NewProbe, Probes, Outcomes, NoAcse
<1>2. /\ TcpOk(o) \in {"yes", "no", "unknown"} /\ TcpOutcome(o) \in Outcomes /\ o \in Whys /\ "tcp" \in StepNames
      /\ TcpOk(o) = "yes" <=> o = "accepted"
  BY DEF TcpOutcomes, TcpOk, TcpOutcome, Outcomes, Whys, StepNames
<1>3. a \in Probes /\ s \in Steps /\ a.steps = Append(NewProbe.steps, s) /\ a.acse = NoAcse /\ ~a.initiate
  BY <1>1, <1>2, AddIs
<1>4. a.steps = <<s>>
  BY <1>1, <1>3
<1>5. s.name = "tcp" /\ s.ok = TcpOk(o)
  OBVIOUS
<1> HIDE DEF a, s
<1>6. q \in Probes /\ q.steps = <<s>> /\ q.acse = NoAcse /\ ~q.initiate
  BY <1>2, <1>3, <1>4 DEF Probes, StepLayers
<1>7. pc = "tcp" /\ UNCHANGED dev /\ sockets = 0 /\ dev \notin {"up", "dropped"}
  BY DEF TcpOpen, AttemptInv, ConnectionInv, Connected
<1>8. CASE o = "accepted"
  <2> DEFINE r == [q EXCEPT !.outcome = "unknown", !.layer = None]
  <2>1. pc' = "cotp" /\ sockets' = sockets + 1
    BY <1>8 DEF TcpOpen
  <2>2. p' = r
    BY <1>8 DEF TcpOpen, a
  <2> HIDE DEF q
  <2>3. r \in Probes /\ r.steps = <<s>> /\ r.acse = NoAcse /\ ~r.initiate /\ r.layer = None
    BY <1>6 DEF Probes, Outcomes
  <2> HIDE DEF r
  <2>4. DOMAIN r.steps = {1} /\ r.steps[1] = s /\ r.steps # <<>>
    BY <2>3
  <2>5. s.ok = "yes"
    BY <1>2, <1>5, <1>8
  <2>6. Failed(r) = {}
    BY <2>4, <2>5 DEF Failed
  <2>7. Below(r, 0)
    BY <1>5, <2>4, Depths DEF Below, DepthOf
  <2>8. Begun(r, 0)
    BY <2>3, <2>4, <2>5, <2>6, <2>7 DEF Begun, Sound, Judged
  <2>9. AcseTrue(r)
    BY <2>3 DEF AcseTrue, NoAcse
  <2>10. ProbeInv'
    BY <2>1, <2>2, <2>3, <2>8, <2>9 DEF ProbeInv
  <2>11. ConnectionInv'
    BY <1>7, <2>1 DEF ConnectionInv, Connected
  <2>12. QED
    BY <2>10, <2>11 DEF AttemptInv
<1>9. CASE o # "accepted"
  <2> DEFINE r == [q EXCEPT !.endedBy = None]
  <2>1. pc' = "done" /\ sockets' = sockets
    BY <1>9 DEF TcpOpen, Finish
  <2>2. p' = r
    BY <1>9 DEF TcpOpen, Finish, a
  <2> HIDE DEF q
  <2>3. r \in Probes /\ r.steps = <<s>> /\ r.acse = NoAcse /\ r.endedBy = None
    BY <1>6 DEF Probes
  <2> HIDE DEF r
  <2>4. r.steps[1].ok # "yes"
    BY <1>2, <1>5, <1>9, <2>3
  <2>5. AcseTrue(r)
    BY <2>3 DEF AcseTrue, NoAcse
  <2>6. Told(r)
    BY <2>4 DEF Told
  <2>7. ProbeInv'
    BY <2>1, <2>2, <2>3, <2>5, <2>6 DEF ProbeInv
  <2>8. ConnectionInv'
    BY <1>7, <2>1, <2>2, <2>3, NoneAssumption DEF ConnectionInv, Connected
  <2>9. QED
    BY <2>7, <2>8 DEF AttemptInv
<1>10. QED
  BY <1>8, <1>9

(* The socket is closed and the attempt over, as e says. *)
LEMMA AttemptOver ==
    ASSUME NEW t \in Probes, AcseTrue(t), Told(t), p' = t, pc' = "done", ConnectionInv, pc \in Connected, CloseSocket,
           dev' # "up", dev' = "dropped" => Excused(t), t.endedBy = "release" => dev' = "released",
           t.endedBy = "abort" => dev' \in {"aborted", "closed"} \/ AbortUnsent(t)
    PROVE  AttemptInv'
<1>1. sockets = 1 /\ sockets' = 0
  BY DEF ConnectionInv, CloseSocket
<1>2. ConnectionInv'
  BY <1>1 DEF ConnectionInv, Connected
<1>3. ProbeInv'
  BY DEF ProbeInv
<1>4. QED
  BY <1>2, <1>3 DEF AttemptInv

LEMMA AttemptCotpAnswer ==
    ASSUME AttemptInv, NEW a \in CotpAnswers, CotpAnswer(a)
    PROVE  AttemptInv'
<1> DEFINE o == CotpOutcome(a)
           why == IF a.kind = "tls-record" THEN "tls" ELSE a.why
<1>1. pc = "cotp" /\ UNCHANGED dev /\ Begun(p, 0) /\ p \in Probes /\ AcseTrue(p)
  BY DEF CotpAnswer, AttemptInv, ProbeInv
<1>2. o \in Outcomes /\ why \in Whys
  BY DEF CotpAnswers, CotpOutcome, Outcomes, Whys
<1>3. "cotp" \in StepNames \ {"release", "acse"} /\ "cotp" \in StepNames \ {"acse"} /\ Sound(p, 0) /\ dev \notin {"up", "dropped"}
  BY <1>1 DEF StepNames, Begun, AttemptInv, ConnectionInv
<1>4. CASE o = "accepted"
  <2> DEFINE q == Add(p, "cotp", "yes", o, why)
  <2>1. pc' = "request" /\ p' = q /\ UNCHANGED sockets
    BY <1>4 DEF CotpAnswer
  <2> HIDE DEF o, why
  <2>2. Sound(q, 1) /\ q.layer = None /\ ~q.initiate /\ q.acse = NoAcse
    BY <1>1, <1>2, <1>3, Depths, AddSound DEF Begun
  <2>3. AcseTrue(q)
    BY <1>1, <1>2, <1>3, AddAcse
  <2>4. ProbeInv'
    BY <2>1, <2>2, <2>3 DEF ProbeInv, Begun, Sound
  <2>5. ConnectionInv'
    BY <1>1, <1>3, <2>1 DEF AttemptInv, ConnectionInv, Connected
  <2>6. QED
    BY <2>4, <2>5 DEF AttemptInv
<1>5. CASE o # "accepted"
  <2> DEFINE e == IF o = "tcp-closed-immediately" THEN "server-closed" ELSE "client-closed"
             t == [Add(p, "cotp", "no", o, why) EXCEPT !.endedBy = e]
  <2>1. CloseSocket /\ pc' = "done" /\ p' = t
    BY <1>5 DEF CotpAnswer, Finish
  <2>2. e \in Endings /\ e \notin {"release", "abort"}
    BY DEF Endings
  <2> HIDE DEF o, why, e
  <2>3. t \in Probes /\ AcseTrue(t) /\ Told(t) /\ t.endedBy = e
    BY <1>1, <1>2, <1>3, <2>2, Depths, AddTold
  <2> HIDE DEF t
  <2>4. QED
    BY <1>1, <1>3, <2>1, <2>2, <2>3, AttemptOver DEF AttemptInv, Connected
<1>6. QED
  BY <1>4, <1>5

(* Before the session has answered, no ACCEPT has been understood. *)
LEMMA NothingTaken ==
    ASSUME NEW q \in Probes, Below(q, 1), NEW name \in StepNames, NEW outcome \in Outcomes, NEW why \in Whys
    PROVE  ~Taken(Add(q, name, "no", outcome, why))
<1> DEFINE s == [name |-> name, ok |-> "no", outcome |-> outcome, why |-> why]
           t == Add(q, name, "no", outcome, why)
           n == Len(q.steps)
<1>1. t.steps = Append(q.steps, s) /\ s \in Steps /\ s.ok = "no"
  BY AddIs
<1> HIDE DEF s, t
<1>2. /\ n \in Nat /\ DOMAIN q.steps = 1..n /\ DOMAIN t.steps = 1..n + 1
      /\ t.steps[n + 1] = s /\ \A i \in 1..n : t.steps[i] = q.steps[i]
  BY <1>1, AppendSteps
<1>3. \A i \in 1..n : q.steps[i].name # "iso-session"
  <2>1. \A i \in 1..n : DepthOf(q, i) <= 1
    BY <1>2 DEF Below
  <2>2. QED
    BY <2>1, Depths DEF DepthOf
<1> HIDE DEF n
<1>4. \A i \in DOMAIN t.steps : i \in 1..n \/ i = n + 1
  BY <1>2
<1>5. QED
  BY <1>1, <1>2, <1>3, <1>4 DEF Taken, t

LEMMA AttemptNoAnswer ==
    ASSUME AttemptInv, NEW how \in {"timeout", "closed", "not-understood", "DR", "DR-busy"}, NoAnswer(how)
    PROVE  AttemptInv'
<1> DEFINE e == IF how \in {"timeout", "not-understood"} THEN "client-closed" ELSE "server-closed"
<1>1. pc = "request" /\ CloseSocket /\ pc' = "done" /\ Sound(p, 1) /\ AcseTrue(p) /\ dev' # "up"
  BY DEF NoAnswer, Finish, AttemptInv, ProbeInv, Begun, ConnectionInv
<1>2. PICK name \in {"iso-session", "cotp-disconnect"}, outcome \in {"invalid-response", "cotp-rejected", "initiate-no-response"},
           why \in {"plain", "busy"} : p' = [Add(p, name, "no", outcome, why) EXCEPT !.endedBy = e]
  <2>1. CASE how = "not-understood"
    <3>1. p' = [Add(p, "iso-session", "no", "invalid-response", "plain") EXCEPT !.endedBy = e]
      BY <2>1 DEF NoAnswer, Finish
    <3>2. QED
      BY <3>1
  <2>2. CASE how \in {"DR", "DR-busy"}
    <3>1. p' = [Add(p, "cotp-disconnect", "no", "cotp-rejected", IF how = "DR" THEN "plain" ELSE "busy") EXCEPT !.endedBy = e]
      BY <2>2 DEF NoAnswer, Finish
    <3>2. QED
      BY <3>1
  <2>3. CASE how \in {"timeout", "closed"}
    <3>1. p' = [Add(p, "iso-session", "no", "initiate-no-response", "plain") EXCEPT !.endedBy = e]
      BY <2>3 DEF NoAnswer, Finish
    <3>2. QED
      BY <3>1
  <2>4. QED
    BY <2>1, <2>2, <2>3
<1>3. e \in Endings /\ e \notin {"release", "abort"}
  BY DEF Endings
<1>4. name \in StepNames \ {"release", "acse"} /\ outcome \in Outcomes /\ why \in Whys /\ 1 <= Depth[StepLayer(name)]
  BY Depths DEF StepNames, Outcomes, Whys
<1> DEFINE t == [Add(p, name, "no", outcome, why) EXCEPT !.endedBy = e]
<1>5. p' = t
  BY <1>2
<1> HIDE DEF e
<1>6. t \in Probes /\ AcseTrue(t) /\ Told(t) /\ t.endedBy = e
  BY <1>1, <1>3, <1>4, AddTold
<1>7. Excused(t)
  <2>1. p \in Probes /\ Below(p, 1)
    BY <1>1 DEF Sound
  <2>2. ~Taken(Add(p, name, "no", outcome, why))
    BY <1>4, <2>1, NothingTaken
  <2>3. Add(p, name, "no", outcome, why) \in Probes
    BY <1>4, <2>1, AddIs
  <2>4. t.steps = Add(p, name, "no", outcome, why).steps
    BY <2>3 DEF Probes
  <2>5. QED
    BY <2>2, <2>4 DEF Taken, Excused
<1> HIDE DEF t
<1>8. QED
  BY <1>1, <1>3, <1>5, <1>6, <1>7, AttemptOver DEF AttemptInv, Connected

LEMMA AttemptAnswer ==
    ASSUME AttemptInv, NEW spdu \in Spdus, Answer(spdu)
    PROVE  AttemptInv'
<1> DEFINE q == Decode(p, spdu)
<1>1. pc = "request" /\ Begun(p, 1) /\ dev \notin {"up", "dropped"} /\ sockets = 1
  BY DEF Answer, AttemptInv, ProbeInv, ConnectionInv, Connected
<1>2. IF spdu.si = "AC" /\ q.layer = None THEN Fine(q) ELSE Settled(q)
  BY <1>1, DecodeSound DEF Begun
<1>3. CASE spdu.si = "AC" /\ q.layer = None
  <2> DEFINE r == [q EXCEPT !.outcome = "accepted"]
  <2>1. pc' = "linger" /\ p' = r /\ dev' = "up" /\ UNCHANGED sockets
    BY <1>3 DEF Answer
  <2>2. Fine(q)
    BY <1>2, <1>3
  <2> HIDE DEF q
  <2>3. /\ r \in Probes /\ r.steps = q.steps /\ r.layer = q.layer /\ r.outcome = "accepted"
        /\ r.initiate /\ r.acse = q.acse
    BY <2>2 DEF Fine, Sound, Probes, Outcomes
  <2> HIDE DEF r
  <2>4. Failed(r) = {}
    BY <2>2, <2>3 DEF Fine, Failed
  <2>5. Below(r, 3)
    BY <2>2, <2>3 DEF Fine, Sound, Below, DepthOf
  <2>6. Sound(r, 3)
    BY <1>3, <2>2, <2>3, <2>4, <2>5 DEF Fine, Sound, Judged, q
  <2>7. AcseTrue(r)
    BY <2>2, <2>3 DEF Fine, AcseTrue
  <2>8. ProbeInv'
    BY <2>1, <2>3, <2>4, <2>6, <2>7 DEF ProbeInv, Fine
  <2>9. ConnectionInv'
    BY <1>1, <2>1 DEF ConnectionInv, Connected
  <2>10. QED
    BY <2>8, <2>9 DEF AttemptInv
<1>4. CASE spdu.si = "AC" /\ q.layer # None
  <2>1. pc' = "abort" /\ p' = q /\ dev' = "up" /\ UNCHANGED sockets
    BY <1>4 DEF Answer
  <2>2. Settled(q)
    BY <1>2, <1>4
  <2> HIDE DEF q
  <2>3. ProbeInv'
    BY <2>1, <2>2 DEF ProbeInv, Settled
  <2>4. ConnectionInv'
    BY <1>1, <2>1 DEF ConnectionInv, Connected
  <2>5. QED
    BY <2>3, <2>4 DEF AttemptInv
<1>5. CASE spdu.si # "AC"
  <2> DEFINE e == IF spdu.si \in {"RF", "AB"} THEN "server-closed" ELSE "client-closed"
             t == [q EXCEPT !.endedBy = e]
  <2>1. CloseSocket /\ pc' = "done" /\ p' = t /\ UNCHANGED dev
    BY <1>5 DEF Answer, Finish
  <2>2. Settled(q)
    BY <1>2, <1>5
  <2>3. e \in Endings /\ e \notin {"release", "abort"}
    BY DEF Endings
  <2> HIDE DEF q, e
  <2>4. t \in Probes /\ AcseTrue(t) /\ Told(t) /\ t.endedBy = e
    BY <2>2, <2>3, SettledTold
  <2> HIDE DEF t
  <2>5. QED
    BY <1>1, <2>1, <2>3, <2>4, AttemptOver DEF AttemptInv, Connected
<1>6. QED
  BY <1>3, <1>4, <1>5

LEMMA AttemptLinger ==
    ASSUME AttemptInv, NEW closed \in BOOLEAN, Linger(closed)
    PROVE  AttemptInv'
<1>1. pc = "linger" /\ Fine(p) /\ p.outcome = "accepted" /\ p \in Probes /\ AcseTrue(p) /\ Sound(p, 3) /\ dev = "up" /\ sockets = 1
  BY DEF Linger, AttemptInv, ProbeInv, Fine, ConnectionInv, Connected
<1>2. "linger" \in StepNames \ {"release", "acse"} /\ {"accepted-then-closed", "still-open"} \subseteq Outcomes /\ "plain" \in Whys
  BY DEF StepNames, Outcomes, Whys
<1>3. CASE closed
  <2> DEFINE t == [Add(p, "linger", "no", "accepted-then-closed", "plain") EXCEPT !.endedBy = "server-closed"]
  <2>1. CloseSocket /\ pc' = "done" /\ p' = t /\ dev' = "closed"
    BY <1>3 DEF Linger, Finish
  <2>2. /\ 3 \in 0..3 /\ 3 <= Depth[StepLayer("linger")] /\ "server-closed" \in Endings
        /\ "accepted-then-closed" \in Outcomes
    BY <1>2, Depths DEF Endings
  <2>3. t \in Probes /\ AcseTrue(t) /\ Told(t) /\ t.endedBy = "server-closed"
    BY <1>1, <1>2, <2>2, AddTold
  <2> HIDE DEF t
  <2>4. QED
    BY <1>1, <2>1, <2>3, AttemptOver DEF AttemptInv, Connected
<1>4. CASE ~closed
  <2> DEFINE q == Add(p, "linger", "yes", "still-open", "plain")
  <2>1. pc' = "conclude" /\ p' = q /\ UNCHANGED <<sockets, dev>>
    BY <1>4 DEF Linger
  <2>2. Sound(q, 3) /\ q.outcome = "accepted" /\ Failed(q) = {} /\ q.initiate
    BY <1>1, <1>2, Depths, AddSound DEF Fine
  <2>3. AcseTrue(q)
    BY <1>1, <1>2, AddAcse
  <2> HIDE DEF q
  <2>4. ProbeInv'
    BY <2>1, <2>2, <2>3 DEF ProbeInv, Fine, Sound
  <2>5. ConnectionInv'
    BY <1>1, <2>1 DEF ConnectionInv, Connected
  <2>6. QED
    BY <2>4, <2>5 DEF AttemptInv
<1>5. QED
  BY <1>3, <1>4

(* EndAs: the attempt is over, its verdict unchanged. *)
LEMMA AttemptEndAs ==
    ASSUME AttemptInv, pc \in {"release", "abort"}, NEW ok \in {"yes", "no"}, NEW how \in {"release", "abort", "server-closed"},
           EndAs(how, ok), dev' # "up",
           how = "release" => pc = "release" /\ dev' = "released", how = "abort" => dev' \in {"aborted", "closed"},
           how = "server-closed" => ok = "no"
    PROVE  AttemptInv'
<1> DEFINE t == Ended(p, ok, how)
<1>1. CloseSocket /\ pc' = "done" /\ p' = t
  BY DEF EndAs, Finish, Ended, EndedBy
<1>2. (Fine(p) /\ p.outcome = "accepted") \/ Settled(p)
  BY DEF AttemptInv, ProbeInv
<1>3. t \in Probes /\ AcseTrue(t) /\ Told(t) /\ t.endedBy = EndedBy(p, how) /\ Last(t.steps) = ReleaseStep(ok, how)
  BY <1>2, EndTold
<1>4. pc = "release" => p.layer = None
  BY DEF AttemptInv, ProbeInv, Fine, Sound, Judged
<1> HIDE DEF t
<1>5. how = "server-closed" => AbortUnsent(t)
  BY <1>3 DEF AbortUnsent
<1>6. t.endedBy \in {how, "abort"} /\ (how = "release" => t.endedBy = "release")
  BY <1>3, <1>4 DEF EndedBy
<1>7. dev' = "dropped" => Excused(t)
  BY <1>5 DEF Excused
<1>8. QED
  BY <1>1, <1>3, <1>5, <1>6, <1>7, AttemptOver DEF AttemptInv, Connected

(* On to the next step of the ending, with what was found so far. *)
LEMMA AttemptGoesOn ==
    ASSUME AttemptInv, UNCHANGED <<p, sockets>>,
           \/ pc = "conclude" /\ pc' = "release" /\ dev' = dev
           \/ pc \in {"conclude", "release"} /\ pc' = "abort" /\ dev' \in {dev, "closed"}
           \/ pc = "request" /\ pc' = "raised" /\ dev' = "up"
    PROVE  AttemptInv'
<1>1. ProbeInv'
  BY DEF AttemptInv, ProbeInv
<1>2. ConnectionInv'
  BY DEF AttemptInv, ConnectionInv, Connected
<1>3. QED
  BY <1>1, <1>2 DEF AttemptInv

LEMMA AttemptStepInv ==
    ASSUME AttemptInv, AttemptStep
    PROVE  AttemptInv'
<1>1. ASSUME NEW spdu \in Spdus, AnswerRaises(spdu) PROVE AttemptInv'
  BY <1>1, AttemptGoesOn DEF AnswerRaises
<1>2. ASSUME NEW a, Conclude(a) PROVE AttemptInv'
  BY <1>2, AttemptGoesOn DEF Conclude
<1>3. ASSUME NEW a, Release(a) PROVE AttemptInv'
  <2>1. CASE a = "DN"
    <3>1. pc = "release" /\ EndAs("release", "yes") /\ dev' = "released"
      BY <1>3, <2>1 DEF Release
    <3>2. QED
      BY <3>1, AttemptEndAs
  <2>2. CASE a # "DN"
    <3>1. pc = "release" /\ pc' = "abort" /\ UNCHANGED <<p, sockets>> /\ dev' \in {dev, "closed"}
      BY <1>3, <2>2 DEF Release
    <3>2. QED
      BY <3>1, AttemptGoesOn
  <2>3. QED
    BY <2>1, <2>2
<1>4. ASSUME NEW sent \in BOOLEAN, Abort(sent) PROVE AttemptInv'
  <2>1. pc = "abort" /\ dev \in {"up", "closed"}
    BY <1>4 DEF Abort, AttemptInv, ConnectionInv
  <2>2. CASE sent
    <3>1. EndAs("abort", "no") /\ dev' \in {"aborted", "closed"}
      BY <1>4, <2>1, <2>2 DEF Abort
    <3>2. QED
      BY <2>1, <3>1, AttemptEndAs
  <2>3. CASE ~sent
    <3>1. EndAs("server-closed", "no") /\ dev' \in {"dropped", "closed"}
      BY <1>4, <2>1, <2>3 DEF Abort, OnClose
    <3>2. QED
      BY <2>1, <3>1, AttemptEndAs
  <2>4. QED
    BY <2>2, <2>3
<1>5. QED
  BY <1>1, <1>2, <1>3, <1>4, AttemptTcpOpen, AttemptCotpAnswer, AttemptNoAnswer, AttemptAnswer, AttemptLinger DEF AttemptStep

-----------------------------------------------------------------------------
(* The commands about the attempt *)

CommandInv == AttemptInv /\ PlaceInv

LEMMA InitCommandInv == Init => CommandInv
<1>1. NewProbe \in Probes /\ NewProbe.acse = NoAcse
  <2>1. <<>> \in Seq(Steps)
    OBVIOUS
  <2>2. QED
    BY <2>1 DEF NewProbe, Probes, Outcomes, NoAcse
<1>2. AcseTrue(NewProbe)
  BY <1>1 DEF AcseTrue, NoAcse
<1>3. QED
  BY <1>1, <1>2 DEF Init, LadderInit, CommandInv, AttemptInv, ConnectionInv, ProbeInv, PlaceInv, Connected

(* An attempt gets on, or is over. *)
LEMMA AttemptMoves ==
    ASSUME AttemptStep
    PROVE  pc' \in Connected \cup {"done"}
<1> DEFINE moves == pc' \in Connected \cup {"done"}
<1>1. \A q, e : Finish(q, e) => moves
  BY DEF Finish
<1>2. \A how, ok : EndAs(how, ok) => moves
  BY <1>1 DEF EndAs
<1>3. ASSUME NEW o, TcpOpen(o) PROVE moves
  BY <1>1, <1>3 DEF TcpOpen, Connected
<1>4. ASSUME NEW a, CotpAnswer(a) PROVE moves
  BY <1>1, <1>4 DEF CotpAnswer, Connected
<1>5. ASSUME NEW how, NoAnswer(how) PROVE moves
  BY <1>1, <1>5 DEF NoAnswer
<1>6. ASSUME NEW spdu, Answer(spdu) PROVE moves
  <2>1. CASE spdu.si = "AC"
    BY <1>6, <2>1 DEF Answer, Connected
  <2>2. CASE spdu.si # "AC"
    BY <1>1, <1>6, <2>2 DEF Answer
  <2>3. QED
    BY <2>1, <2>2
<1>7. ASSUME NEW closed, Linger(closed) PROVE moves
  BY <1>1, <1>7 DEF Linger, Connected
<1>8. ASSUME NEW a, Release(a) PROVE moves
  BY <1>2, <1>8 DEF Release, Connected
<1>9. ASSUME NEW sent, Abort(sent) PROVE moves
  BY <1>2, <1>9 DEF Abort
<1>10. \A spdu, a : AnswerRaises(spdu) \/ Conclude(a) => moves
  BY DEF AnswerRaises, Conclude, Connected
<1> HIDE DEF moves
<1>11. moves
  BY <1>3, <1>4, <1>5, <1>6, <1>7, <1>8, <1>9, <1>10 DEF AttemptStep
<1>12. QED
  BY <1>11 DEF moves

(* The rest of the command touches neither the attempt nor its connection. *)
LEMMA Elsewhere ==
    ASSUME CommandInv, UNCHANGED probeVars, {at, at'} \cap {"attempt", "probe-host", "raised"} = {},
           at \in {"tls", "classify", "over"} => at' \in {"tls", "classify", "over"}
    PROVE  CommandInv'
<1>1. AttemptInv'
  BY DEF CommandInv, AttemptInv, ConnectionInv, ProbeInv, probeVars
<1>2. PlaceInv'
  BY DEF CommandInv, PlaceInv, probeVars
<1>3. QED
  BY <1>1, <1>2 DEF CommandInv

(* No attempt runs, and nothing is connected. *)
LEMMA Forgotten ==
    ASSUME CommandInv, sockets' = 0, pc' = "idle", dev' # "up",
           p' = NewProbe \/ (p' = p /\ dev' = dev),
           at' \notin {"attempt", "probe-host", "raised"}
    PROVE  CommandInv'
<1>1. p' \in Probes /\ AcseTrue(p')
  <2>1. <<>> \in Seq(Steps)
    OBVIOUS
  <2>2. NewProbe \in Probes /\ NewProbe.acse = NoAcse
    BY <2>1 DEF NewProbe, Probes, Outcomes, NoAcse
  <2>3. AcseTrue(NewProbe)
    BY <2>2 DEF AcseTrue, NoAcse
  <2>4. QED
    BY <2>2, <2>3 DEF CommandInv, AttemptInv, ProbeInv
<1>2. AttemptInv'
  BY <1>1 DEF CommandInv, AttemptInv, ConnectionInv, ProbeInv, Connected, Excused
<1>3. PlaceInv'
  BY DEF PlaceInv
<1>4. QED
  BY <1>2, <1>3 DEF CommandInv

(* Where there is no attempt, one begins. *)
LEMMA AttemptBegins ==
    ASSUME CommandInv, pc = "idle", StartAttempt, UNCHANGED <<p, sockets>>, at' \in {"attempt", "probe-host"}
    PROVE  CommandInv'
<1>1. AttemptInv'
  BY DEF CommandInv, AttemptInv, ConnectionInv, ProbeInv, StartAttempt, Connected
<1>2. PlaceInv'
  BY DEF PlaceInv, StartAttempt
<1>3. QED
  BY <1>1, <1>2 DEF CommandInv

(* An exception has left the attempt. *)
LEMMA Unwound ==
    ASSUME CommandInv, Unwind, at' = "over"
    PROVE  CommandInv'
<1>1. sockets' = 0 /\ pc' = "idle" /\ p' = NewProbe /\ dev' # "up"
  BY DEF Unwind, OnClose
<1>2. QED
  BY <1>1, Forgotten

LEMMA LadderCommandInv ==
    ASSUME CommandInv, LadderStep
    PROVE  CommandInv'
<1>1. ASSUME NEW bound \in BOOLEAN, Diagnose(bound) PROVE CommandInv'
  BY <1>1, Elsewhere DEF Diagnose
<1>2. ASSUME NEW present \in BOOLEAN, Bind(present) PROVE CommandInv'
  BY <1>2, Elsewhere DEF Bind, Stop
<1>3. ASSUME NEW r, Ping(r) PROVE CommandInv'
  BY <1>3, Elsewhere DEF Ping
<1>4. ASSUME NEW o \in TcpOutcomes, BareConnect(o) PROVE CommandInv'
  <2>1. at = "tcp" /\ UNCHANGED <<p, sockets>>
    BY <1>4 DEF BareConnect
  <2>2. CASE o = "accepted"
    BY <1>4, <2>1, <2>2, AttemptBegins DEF BareConnect, CommandInv, PlaceInv
  <2>3. CASE o # "accepted"
    BY <1>4, <2>1, <2>3, Elsewhere DEF BareConnect, probeVars
  <2>4. QED
    BY <2>2, <2>3
<1>5. CASE Attempt
  <2>1. at = "attempt" /\ AttemptStep
    BY <1>5 DEF Attempt
  <2>2. AttemptInv' /\ pc' \in Connected \cup {"done"}
    BY <2>1, AttemptStepInv, AttemptMoves DEF CommandInv
  <2>3. PlaceInv'
    <3>1. CASE pc' = "done"
      BY <1>5, <3>1 DEF Attempt, PlaceInv
    <3>2. CASE pc' = "raised"
      BY <1>5, <3>2 DEF Attempt, PlaceInv
    <3>3. CASE pc' \in Connected \ {"raised"}
      <4>1. at' = "attempt"
        BY <1>5, <3>3 DEF Attempt, Connected
      <4>2. QED
        BY <3>3, <4>1 DEF PlaceInv
    <3>4. QED
      BY <2>2, <3>1, <3>2, <3>3
  <2>4. QED
    BY <2>2, <2>3 DEF CommandInv
<1>6. ASSUME NEW r, TlsPort(r) PROVE CommandInv'
  BY <1>6, Elsewhere DEF TlsPort
<1>7. ASSUME NEW known \in BOOLEAN, Classified(known) PROVE CommandInv'
  <2>1. pc' = "idle" /\ UNCHANGED <<p, sockets, dev>> /\ at = "classify" /\ at' \in {"association", "over"}
    BY <1>7 DEF Classified, Stop
  <2>2. sockets = 0 /\ dev # "up"
    BY <2>1 DEF CommandInv, PlaceInv, AttemptInv, ConnectionInv, Connected
  <2>3. QED
    BY <2>1, <2>2, Forgotten
<1>8. ASSUME NEW o, NEW known \in BOOLEAN, Associate(o, known) PROVE CommandInv'
  BY <1>8, Elsewhere DEF Associate, Stop
<1>9. ASSUME NEW layer \in {"identity", "model", "reports", "controls"}, NEW status,
             NEW next \in {"model", "reports", "controls", "over"}, Upper(layer, status, next)
      PROVE  CommandInv'
  <2>1. at = layer /\ at' \in {next, "over"} /\ UNCHANGED probeVars
    <3>1. CASE status = "fail"
      BY <1>9, <3>1 DEF Upper, Stop
    <3>2. CASE status # "fail" /\ next = "over"
      BY <1>9, <3>2 DEF Upper
    <3>3. CASE status # "fail" /\ next # "over"
      BY <1>9, <3>3 DEF Upper
    <3>4. QED
      BY <3>1, <3>2, <3>3
  <2>2. QED
    BY <2>1, Elsewhere
<1>10. CASE Raise
  <2>1. CASE at \in {"attempt", "raised"}
    <3>1. Unwind /\ at' = "over"
      BY <1>10, <2>1 DEF Raise, Range, UpperLayers
    <3>2. QED
      BY <3>1, Unwound
  <2>2. CASE at \notin {"attempt", "raised"}
    <3>1. UNCHANGED probeVars /\ at' = "over" /\ at \in {"icmp", "tcp", "tls", "association", "identity", "model", "reports", "controls"}
      BY <1>10, <2>2 DEF Raise, Range, UpperLayers
    <3>2. QED
      BY <3>1, Elsewhere
  <2>3. QED
    BY <2>1, <2>2
<1>11. QED
  BY <1>1, <1>2, <1>3, <1>4, <1>5, <1>6, <1>7, <1>8, <1>9, <1>10 DEF LadderStep, Identity, Model, Reports, Controls

LEMMA DiscoverCommandInv ==
    ASSUME CommandInv, DiscoverStep
    PROVE  CommandInv'
<1>1. ASSUME NEW n \in 1..MaxHosts, Discover(n) PROVE CommandInv'
  BY <1>1, Elsewhere DEF Discover
<1>2. ASSUME NEW device, HostOver(device) PROVE at' \in {"scan", "over"}
  BY <1>2 DEF HostOver
<1>3. ASSUME NEW o \in TcpOutcomes, NEW associate \in BOOLEAN, Scan(o, associate) PROVE CommandInv'
  <2>1. at = "scan" /\ UNCHANGED probeVars /\ at' \in {"open", "scan", "over"}
    BY <1>2, <1>3 DEF Scan
  <2>2. QED
    BY <2>1, Elsewhere
<1>4. ASSUME NEW ok \in BOOLEAN, Open(ok) PROVE CommandInv'
  BY <1>4, Elsewhere DEF Open
<1>5. ASSUME NEW gone, NEW ok, Identify(ok, gone) PROVE CommandInv'
  BY <1>5, Elsewhere DEF Identify
<1>5a. ASSUME NEW gone, NEW answer, LogicalDevices(answer, gone) PROVE CommandInv'
  BY <1>5a, Elsewhere DEF LogicalDevices
<1>6. ASSUME NEW confirmed \in BOOLEAN, ReleaseBrief(confirmed) PROVE CommandInv'
  BY <1>6, Elsewhere DEF ReleaseBrief
<1>7. CASE ProbeFailure
  BY <1>7, AttemptBegins DEF ProbeFailure, CommandInv, PlaceInv
<1>8. CASE NextHost
  <2>1. at = "told" /\ UNCHANGED probeVars /\ at' \in {"scan", "over"}
    BY <1>2, <1>8 DEF NextHost
  <2>2. QED
    BY <2>1, Elsewhere
<1>9. CASE AttemptHost
  <2>1. AttemptStep /\ at = "probe-host" /\ at' = "probe-host"
    BY <1>9 DEF AttemptHost
  <2>2. AttemptInv' /\ pc' \in Connected \cup {"done"}
    BY <2>1, AttemptStepInv, AttemptMoves DEF CommandInv
  <2>3. PlaceInv'
    BY <2>1, <2>2 DEF PlaceInv
  <2>4. QED
    BY <2>2, <2>3 DEF CommandInv
<1>10. ASSUME NEW r, ClassifyHost(r) PROVE CommandInv'
  <2>1. pc = "done" /\ pc' = "idle" /\ p' = NewProbe /\ dev' = "none" /\ UNCHANGED sockets /\ at' \in {"scan", "over"}
    BY <1>2, <1>10 DEF ClassifyHost
  <2>2. sockets = 0
    BY <2>1 DEF CommandInv, AttemptInv, ConnectionInv, Connected
  <2>3. QED
    BY <2>1, <2>2, Forgotten
<1>11. CASE ScanRaises
  <2>1. CASE at = "probe-host"
    <3>1. Unwind /\ at' = "over"
      BY <1>11, <2>1 DEF ScanRaises
    <3>2. QED
      BY <3>1, Unwound
  <2>2. CASE at # "probe-host"
    <3>1. UNCHANGED probeVars /\ at' = "over" /\ at \in {"scan", "told", "open", "identify", "names", "release"}
      BY <1>11, <2>2 DEF ScanRaises
    <3>2. QED
      BY <3>1, Elsewhere
  <2>3. QED
    BY <2>1, <2>2
<1>12. QED
  BY <1>1, <1>3, <1>4, <1>5, <1>5a, <1>6, <1>7, <1>8, <1>9, <1>10, <1>11 DEF DiscoverStep

LEMMA NextCommandInv == CommandInv /\ [Next]_vars => CommandInv'
<1> SUFFICES ASSUME CommandInv, [Next]_vars PROVE CommandInv'
  OBVIOUS
<1>1. CASE Shown
  <2>1. at = "over" /\ pc' = "idle" /\ p' = NewProbe /\ dev' = "none" /\ UNCHANGED sockets /\ at' = "prompt"
    BY <1>1 DEF Shown
  <2>2. sockets = 0
    BY <2>1 DEF CommandInv, PlaceInv, AttemptInv, ConnectionInv, Connected
  <2>3. QED
    BY <2>1, <2>2, Forgotten
<1>2. CASE UNCHANGED vars
  BY <1>2 DEF CommandInv, AttemptInv, ConnectionInv, ProbeInv, PlaceInv, vars, probeVars, ladderVars
<1>3. QED
  BY <1>1, <1>2, LadderCommandInv, DiscoverCommandInv DEF Next

(* Whatever the device answers, an attempt and its place in the command    *)
(* agree, and what it has found so far justifies its verdict.              *)
THEOREM CommandInvariant == Spec => []CommandInv
<1>1. QED
  BY InitCommandInv, NextCommandInv, PTL DEF Spec

-----------------------------------------------------------------------------
(* What the diagnosis makes of it *)

LEMMA LeastElement ==
    ASSUME NEW S \in SUBSET Nat, S # {}
    PROVE  \E i \in S : \A j \in S : i <= j
<1> DEFINE Less == {pair \in Nat \X Nat : pair[1] < pair[2]}
<1>1. IsWellFoundedOn(Less, Nat)
  BY NatLessThanWellFounded DEF OpToRel
<1>2. \A i, j \in Nat : j < i => <<j, i>> \in Less
  OBVIOUS
<1> HIDE DEF Less
<1>3. PICK i \in S : \A j \in S : ~(<<j, i>> \in Less)
  BY <1>1, WFMin
<1>4. ASSUME NEW j \in S PROVE i <= j
  <2>1. ~(j < i)
    BY <1>2, <1>3
  <2>2. QED
    BY <2>1
<1>5. QED
  BY <1>4

(* Why is what the first step of that name says. *)
LEMMA WhyIs ==
    ASSUME p \in Probes, NEW name, Step(name) # {}
    PROVE  \E i \in Step(name) : Why(name) = p.steps[i].why
<1> DEFINE First(i) == i \in Step(name) /\ \A j \in Step(name) : i <= j
           first == CHOOSE i \in Step(name) : \A j \in Step(name) : i <= j
<1>1. p.steps \in Seq(Steps)
  BY DEF Probes
<1>2. Step(name) \in SUBSET Nat
  BY <1>1, LenProperties DEF Step
<1>3. \E i \in Step(name) : \A j \in Step(name) : i <= j
  BY <1>2, LeastElement
<1>4. first \in Step(name)
  BY <1>3
<1>5. Why(name) = p.steps[first].why
  BY DEF Why
<1> HIDE DEF first
<1>6. QED
  BY <1>4, <1>5

TcpResults == TcpOutcomes \cup {"skipped"}

LEMMA ObservedType ==
    ASSUME p \in Probes, tcp \in TcpResults
    PROVE  /\ Observed \in Outcomes \cup {"skipped"}
           /\ Observed \in SlotPatterns => Attempted
BY DEF Probes, TcpResults, TcpOutcomes, Observed, Attempted, TcpOutcome, TcpOk, Outcomes, SlotPatterns

(* DIA-6: what the hint at exhausted slots rests on. *)
LEMMA SlotEvidence ==
    ASSUME p \in Probes, tcp \in TcpResults, SlotPattern
    PROVE  /\ Reachable
           /\ Observed \in {"acse-rejected-permanent", "session-refused", "presentation-rejected", "cotp-rejected"} => Congestion
<1>1. CASE Congestion
  BY <1>1 DEF Congestion, Reachable
<1>2. CASE Observed \in SlotPatterns
  BY <1>2, ObservedType DEF Reachable, SlotPatterns
<1>3. CASE Observed = "tcp-timeout" /\ Reachable
  BY <1>3
<1>4. QED
  BY <1>1, <1>2, <1>3 DEF SlotPattern

(* DIA-4: authentication is suspected of what the ACSE step says. *)
LEMMA AuthenticationEvidence ==
    ASSUME p \in Probes, AcseTrue(p), SuspectsAuthentication
    PROVE  Why("acse") \in {"auth", "auth-required"}
<1>1. /\ Attempted /\ p.acse.kind \in {"AARE", "ABRT"} /\ p.acse.why \in {"auth", "auth-required"}
      /\ p.acse.kind = "ABRT" \/ p.acse.result # 0
  BY DEF SuspectsAuthentication
<1>2. /\ \E i \in DOMAIN p.steps : p.steps[i].name = "acse"
      /\ \A i \in DOMAIN p.steps : p.steps[i].name = "acse" => p.steps[i].why = p.acse.why
  BY <1>1 DEF AcseTrue
<1>3. Step("acse") # {}
  BY <1>1, <1>2 DEF Step
<1>4. PICK i \in Step("acse") : Why("acse") = p.steps[i].why
  BY <1>3, WhyIs
<1>5. QED
  BY <1>1, <1>2, <1>4 DEF Step

Certainties == {"fact", "likely", "check"}
Keys ==
    Outcomes \cup {"skipped", "security-not-supported", "slots-probably-exhausted", "known-association-limit",
                   "association-slot-occupied-by-tool"}
Findings ==
    {f \in [key : Keys, certainty : Certainties] :
        f.key = "slots-probably-exhausted" => f.certainty = "likely" /\ SlotPattern}

LEMMA IfType ==
    ASSUME NEW T, NEW b \in BOOLEAN, NEW x, b => x \in T
    PROVE  If(b, x) \in Seq(T)
BY DEF If

LEMMA FindingType ==
    ASSUME NEW key \in Keys \ {"slots-probably-exhausted"}, NEW certainty \in Certainties
    PROVE  Finding(key, certainty) \in Findings
BY DEF Finding, Findings

LEMMA FindingsType ==
    ASSUME p \in Probes, tcp \in TcpResults, NEW known \in BOOLEAN
    PROVE  SecurityFindings \o LayerFindings \o LimitFindings(known) \in Seq(Findings)
<1>1. /\ {"fact", "likely", "check"} \subseteq Certainties
      /\ {"security-not-supported", "known-association-limit", "association-slot-occupied-by-tool", "cotp-rejected",
          "session-refused", "presentation-rejected", "acse-rejected-permanent"} \subseteq Keys \ {"slots-probably-exhausted"}
      /\ Observed \in Keys \ {"slots-probably-exhausted"}
  BY ObservedType DEF Certainties, Keys, Outcomes
<1>2. SecurityFindings \in Seq(Findings)
  <2> DEFINE certainty == IF p.acse.kind = "AARE" /\ p.acse.why = "auth-required" THEN "fact" ELSE "likely"
  <2>1. certainty \in Certainties
    BY <1>1
  <2> HIDE DEF certainty
  <2>2. /\ Finding("security-not-supported", "likely") \in Findings
        /\ Finding("security-not-supported", certainty) \in Findings
    BY <1>1, <2>1, FindingType
  <2>3. SuspectsTls \in BOOLEAN /\ SuspectsAuthentication \in BOOLEAN
    BY DEF SuspectsTls, SuspectsAuthentication
  <2>4. /\ If(SuspectsTls, Finding("security-not-supported", "likely")) \in Seq(Findings)
        /\ If(SuspectsAuthentication, Finding("security-not-supported", certainty)) \in Seq(Findings)
    BY <2>2, <2>3, IfType
  <2>5. SecurityFindings = If(SuspectsTls, Finding("security-not-supported", "likely"))
                             \o If(SuspectsAuthentication, Finding("security-not-supported", certainty))
    BY DEF SecurityFindings, certainty
  <2>6. QED
    BY <2>4, <2>5, ConcatProperties
<1>3. LayerFindings \in Seq(Findings)
  <2> DEFINE a == If(Why("cotp") = "selector", Finding("cotp-rejected", "check"))
             b == If(Why("iso-session") = "selector", Finding("session-refused", "check"))
             c == If(Why("presentation") \in {"selector", "busy-selector"}, Finding("presentation-rejected", "check"))
             d == CASE Why("acse") = "title" -> <<Finding(Observed, "check")>>
                    [] Why("acse") # "title" /\ Observed = "acse-rejected-permanent" /\ Why("acse") = "plain" ->
                           <<Finding("acse-rejected-permanent", "check")>>
                    [] OTHER -> <<>>
  <2>1. /\ Finding("cotp-rejected", "check") \in Findings /\ Finding("session-refused", "check") \in Findings
        /\ Finding("presentation-rejected", "check") \in Findings /\ Finding("acse-rejected-permanent", "check") \in Findings
        /\ Finding(Observed, "check") \in Findings
    BY <1>1, FindingType
  <2>2. a \in Seq(Findings) /\ b \in Seq(Findings) /\ c \in Seq(Findings)
    <3>1. \A x \in Findings : <<x>> \in Seq(Findings)
      OBVIOUS
    <3>2. <<>> \in Seq(Findings)
      OBVIOUS
    <3>3. /\ (a = <<Finding("cotp-rejected", "check")>> \/ a = <<>>)
          /\ (b = <<Finding("session-refused", "check")>> \/ b = <<>>)
          /\ (c = <<Finding("presentation-rejected", "check")>> \/ c = <<>>)
      BY DEF If
    <3> HIDE DEF a, b, c
    <3>4. QED
      BY <2>1, <3>1, <3>2, <3>3
  <2>3. d \in Seq(Findings)
    <3>1. d \in {<<Finding(Observed, "check")>>, <<Finding("acse-rejected-permanent", "check")>>, <<>>}
      OBVIOUS
    <3> HIDE DEF d
    <3>2. \A x \in Findings : <<x>> \in Seq(Findings)
      OBVIOUS
    <3>3. <<>> \in Seq(Findings)
      OBVIOUS
    <3>4. QED
      BY <2>1, <3>1, <3>2, <3>3
  <2>4. LayerFindings = a \o b \o c \o d
    BY DEF LayerFindings
  <2> HIDE DEF a, b, c, d
  <2>5. a \o b \in Seq(Findings)
    BY <2>2, ConcatProperties
  <2>6. a \o b \o c \in Seq(Findings)
    BY <2>2, <2>5, ConcatProperties
  <2>7. QED
    BY <2>3, <2>4, <2>6, ConcatProperties
<1>4. LimitFindings(known) \in Seq(Findings)
  <2> DEFINE a == If(known, Finding("known-association-limit", "check"))
             b == If(SlotPattern /\ Outcome # "accepted", Finding("slots-probably-exhausted", "likely"))
             c == <<Finding("association-slot-occupied-by-tool", "fact")>>
  <2>1. /\ Finding("known-association-limit", "check") \in Findings
        /\ Finding("association-slot-occupied-by-tool", "fact") \in Findings
    BY <1>1, FindingType
  <2>2. SlotPattern => Finding("slots-probably-exhausted", "likely") \in Findings
    BY <1>1 DEF Finding, Findings, Keys
  <2>3. a \in Seq(Findings) /\ b \in Seq(Findings)
    BY <2>1, <2>2, IfType
  <2>4. c \in Seq(Findings)
    BY <2>1
  <2>5. LimitFindings(known) = a \o b \o c
    BY DEF LimitFindings
  <2> HIDE DEF a, b, c
  <2>6. a \o b \in Seq(Findings)
    BY <2>3, ConcatProperties
  <2>7. QED
    BY <2>4, <2>5, <2>6, ConcatProperties
<1>5. SecurityFindings \o LayerFindings \in Seq(Findings)
  BY <1>2, <1>3, ConcatProperties
<1>6. QED
  BY <1>4, <1>5, ConcatProperties

(* The verdict is one of the findings and no reminder, if there is such a one. *)
LEMMA BestIs ==
    ASSUME NEW fs \in Seq(Findings)
    PROVE  BestFinding(fs) = NoFinding \/ (BestFinding(fs) \in Findings /\ BestFinding(fs).key \notin Reminders)
<1> DEFINE candidates == {i \in DOMAIN fs : fs[i].key \notin Reminders}
           Best(i) == \A j \in candidates : Rank(fs[i]) < Rank(fs[j]) \/ (Rank(fs[i]) = Rank(fs[j]) /\ i <= j)
           best == CHOOSE i \in candidates : Best(i)
<1>1. \A i \in DOMAIN fs : fs[i] \in Findings /\ i \in Nat
  BY LenProperties
<1>2. \A f \in Findings : Rank(f) \in Nat
  BY DEF Findings, Certainties, Rank, Priority, CertaintyOrder
<1>3. CASE candidates = {}
  BY <1>3 DEF BestFinding
<1>4. CASE candidates # {}
  <2> DEFINE ranks == {Rank(fs[i]) : i \in candidates}
  <2>1. ranks \in SUBSET Nat /\ ranks # {}
    BY <1>1, <1>2, <1>4
  <2>2. PICK m \in ranks : \A r \in ranks : m <= r
    <3> HIDE DEF ranks
    <3>1. QED
      BY <2>1, LeastElement
  <2> DEFINE lowest == {i \in candidates : Rank(fs[i]) = m}
  <2>3. lowest \in SUBSET Nat /\ lowest # {}
    BY <1>1, <2>2
  <2>4. PICK i \in lowest : \A j \in lowest : i <= j
    <3> HIDE DEF lowest
    <3>1. QED
      BY <2>3, LeastElement
  <2>5. i \in candidates /\ Rank(fs[i]) = m
    BY <2>4
  <2>6. ASSUME NEW j \in candidates PROVE Rank(fs[i]) < Rank(fs[j]) \/ (Rank(fs[i]) = Rank(fs[j]) /\ i <= j)
    <3>1. m <= Rank(fs[j]) /\ Rank(fs[j]) \in Nat /\ m \in Nat
      BY <1>1, <1>2, <2>1, <2>2
    <3>2. CASE m = Rank(fs[j])
      BY <2>4, <2>5, <3>2
    <3>3. CASE m # Rank(fs[j])
      BY <2>5, <3>1, <3>3
    <3>4. QED
      BY <3>2, <3>3
  <2>7. \E k \in candidates : Best(k)
    BY <2>5, <2>6
  <2>8. best \in candidates
    <3> HIDE DEF Best, candidates
    <3>1. QED
      BY <2>7
  <2>9. BestFinding(fs) = fs[best]
    BY <1>4 DEF BestFinding
  <2> HIDE DEF best
  <2>10. QED
    BY <1>1, <2>8, <2>9
<1>5. QED
  BY <1>3, <1>4

(***************************************************************************)
(* Where the diagnosis stands: it has stopped nowhere until it is over, and *)
(* then its blame is borne out by what the probes have seen.               *)
(***************************************************************************)
BlameInv ==
    /\ tcp \in TcpResults
    /\ at # "over" => stopped = None
    /\ BlamesOnEvidence

LowerLayers == {"network", "transport-session", "mms-initiate"}

LEMMA NoneIsNoLayer == None \notin LowerLayers
<1>1. DOMAIN Layers = 1..9 /\ Layers[2] = "network" /\ Layers[3] = "transport-session" /\ Layers[4] = "mms-initiate"
  BY DEF Layers
<1>2. QED
  BY <1>1, LayersAssumption DEF LowerLayers

(* What has not been stopped in the lower layers blames nothing of them. *)
LEMMA BlamesNothing ==
    ASSUME tcp' \in TcpResults, stopped' \notin LowerLayers, at' # "over" => stopped' = None
    PROVE  BlameInv'
BY DEF BlameInv, BlamesOnEvidence, LowerLayers

LEMMA InitBlameInv == Init => BlameInv
BY NoneIsNoLayer DEF Init, LadderInit, BlameInv, BlamesOnEvidence, LowerLayers, TcpResults

(* The evidence is that of the probes, and stays. *)
LEMMA SameEvidence ==
    ASSUME UNCHANGED <<p, icmp, tcp>>
    PROVE  /\ Why("cotp")' = Why("cotp") /\ Why("acse")' = Why("acse")
           /\ Reachable' = Reachable /\ Observed' = Observed /\ Congestion' = Congestion
BY DEF Why, Step, Reachable, Observed, Congestion, Attempted

LEMMA ClassifiedBlame ==
    ASSUME CommandInv, BlameInv, NEW known \in BOOLEAN, Classified(known)
    PROVE  BlameInv'
<1> DEFINE fs == SecurityFindings \o LayerFindings \o LimitFindings(known)
           best == BestFinding(fs)
           about == CASE SuspectsTls -> "needs-tls"
                      [] SuspectsAuthentication -> "needs-authentication"
                      [] OTHER -> IF best = NoFinding THEN Outcome ELSE best.key
<1>1. /\ p \in Probes /\ AcseTrue(p) /\ tcp \in TcpResults /\ stopped = None
      /\ UNCHANGED <<p, icmp, tcp, tls>>
  BY DEF CommandInv, AttemptInv, ProbeInv, BlameInv, Classified
<1>2. CASE Outcome = "accepted"
  <2>1. stopped' = stopped /\ at' = "association"
    BY <1>2 DEF Classified
  <2>2. QED
    BY <1>1, <2>1, NoneIsNoLayer, BlamesNothing
<1>3. CASE Outcome # "accepted"
  <2>1. findings' = fs /\ verdict'.about = about /\ at' = "over"
    BY <1>3 DEF Classified, Stop, Verdict
  <2>2. fs \in Seq(Findings)
    BY <1>1, FindingsType
  <2> HIDE DEF fs
  <2>3. best = NoFinding \/ (best \in Findings /\ best.key \notin Reminders)
    BY <2>2, BestIs
  <2>4. Outcome \in Outcomes \cup {"skipped", "tls-suspected", "authentication-suspected"}
    BY <1>1, ObservedType DEF Outcome
  <2> HIDE DEF best
  <2>5. about = "needs-tls" => SuspectsTls
    BY <2>3, <2>4 DEF Findings, Keys, Outcomes
  <2>6. about = "needs-authentication" => SuspectsAuthentication
    BY <2>3, <2>4 DEF Findings, Keys, Outcomes
  <2>7. about \notin Reminders
    BY <2>3, <2>4 DEF Reminders, Outcomes
  <2> HIDE DEF about
  <2>8. verdict'.about = "needs-tls" => tls \in {"tls", "tls-alert", "open"} \/ Why("cotp") = "tls"
    BY <2>1, <2>5 DEF SuspectsTls
  <2>9. verdict'.about = "needs-authentication" => Why("acse") \in {"auth", "auth-required"}
    BY <1>1, <2>1, <2>6, AuthenticationEvidence
  <2>10. ASSUME NEW i \in DOMAIN findings', findings'[i].key = "slots-probably-exhausted"
         PROVE  /\ findings'[i].certainty = "likely"
                /\ Reachable
                /\ Observed \in {"acse-rejected-permanent", "session-refused", "presentation-rejected", "cotp-rejected"} => Congestion
    <3>1. findings'[i] \in Findings
      BY <2>1, <2>2, <2>10
    <3>2. findings'[i].certainty = "likely" /\ SlotPattern
      BY <2>10, <3>1 DEF Findings
    <3>3. QED
      BY <1>1, <3>2, SlotEvidence
  <2>11. BlamesOnEvidence'
    BY <1>1, <2>1, <2>7, <2>8, <2>9, <2>10, SameEvidence DEF BlamesOnEvidence
  <2>12. QED
    BY <1>1, <2>1, <2>11 DEF BlameInv
<1>4. QED
  BY <1>2, <1>3

LEMMA LadderBlame ==
    ASSUME CommandInv, BlameInv, LadderStep
    PROVE  BlameInv'
<1>1. tcp \in TcpResults /\ (at # "over" => stopped = None) /\ None \notin LowerLayers
  BY NoneIsNoLayer DEF BlameInv
<1>2. ASSUME NEW bound \in BOOLEAN, Diagnose(bound) PROVE BlameInv'
  BY <1>1, <1>2, BlamesNothing DEF Diagnose, TcpResults
<1>3. ASSUME NEW present \in BOOLEAN, Bind(present) PROVE BlameInv'
  <2>1. tcp' = tcp /\ (stopped' = stopped \/ stopped' = "bind") /\ (at' # "over" => stopped' = stopped) /\ at # "over"
    BY <1>3 DEF Bind, Stop
  <2>2. QED
    BY <1>1, <2>1, BlamesNothing DEF LowerLayers
<1>4. ASSUME NEW r, Ping(r) PROVE BlameInv'
  BY <1>1, <1>4, BlamesNothing DEF Ping
<1>5. ASSUME NEW o \in TcpOutcomes, BareConnect(o) PROVE BlameInv'
  BY <1>1, <1>5, BlamesNothing DEF BareConnect, TcpResults
<1>6. CASE Attempt
  BY <1>1, <1>6, BlamesNothing DEF Attempt
<1>7. ASSUME NEW r, TlsPort(r) PROVE BlameInv'
  BY <1>1, <1>7, BlamesNothing DEF TlsPort
<1>8. ASSUME NEW o, NEW known \in BOOLEAN, Associate(o, known) PROVE BlameInv'
  <2>1. /\ tcp' = tcp /\ (stopped' = stopped \/ stopped' = "association") /\ at # "over"
        /\ at' # "over" => stopped' = stopped
    BY <1>8 DEF Associate, Stop
  <2>2. QED
    BY <1>1, <2>1, BlamesNothing DEF LowerLayers
<1>9. ASSUME NEW layer \in {"identity", "model", "reports", "controls"}, NEW status, NEW next, Upper(layer, status, next)
      PROVE  BlameInv'
  <2>1. /\ tcp' = tcp /\ (stopped' = stopped \/ stopped' = layer) /\ at # "over"
        /\ at' # "over" => stopped' = stopped
    <3>1. CASE status = "fail"
      BY <1>9, <3>1 DEF Upper, Stop
    <3>2. CASE status # "fail" /\ next = "over"
      BY <1>9, <3>2 DEF Upper
    <3>3. CASE status # "fail" /\ next # "over"
      BY <1>9, <3>3 DEF Upper
    <3>4. QED
      BY <3>1, <3>2, <3>3
  <2>2. layer \notin LowerLayers
    BY DEF LowerLayers
  <2>3. QED
    BY <1>1, <2>1, <2>2, BlamesNothing
<1>10. CASE Raise
  <2>1. at # "over" /\ UNCHANGED <<tcp, stopped>> /\ at' = "over"
    BY <1>10 DEF Raise, Range, UpperLayers
  <2>2. QED
    BY <1>1, <2>1, BlamesNothing
<1>11. QED
  BY <1>2, <1>3, <1>4, <1>5, <1>6, <1>7, <1>8, <1>9, <1>10, ClassifiedBlame DEF LadderStep, Identity, Model, Reports, Controls

LEMMA DiscoverBlame ==
    ASSUME BlameInv, DiscoverStep
    PROVE  BlameInv'
<1> DEFINE on == at # "over" /\ UNCHANGED stopped /\ tcp' \in TcpResults
<1>1. tcp \in TcpResults
  BY DEF BlameInv
<1>2. ASSUME NEW n, Discover(n) PROVE on
  BY <1>1, <1>2 DEF Discover, Scanning
<1>3. ASSUME NEW o \in TcpOutcomes, NEW associate, Scan(o, associate) PROVE on
  BY <1>3 DEF Scan, Scanning, TcpResults
<1>4. ASSUME NEW ok, Open(ok) PROVE on
  BY <1>1, <1>4 DEF Open, Scanning
<1>5. ASSUME NEW gone, NEW ok, Identify(ok, gone) PROVE on
  BY <1>1, <1>5 DEF Identify, Scanning
<1>5a. ASSUME NEW gone, NEW answer, LogicalDevices(answer, gone) PROVE on
  BY <1>1, <1>5a DEF LogicalDevices, Scanning
<1>6. ASSUME NEW confirmed, ReleaseBrief(confirmed) PROVE on
  BY <1>1, <1>6 DEF ReleaseBrief, Scanning
<1>7. ProbeFailure \/ NextHost \/ AttemptHost => on
  BY <1>1 DEF ProbeFailure, NextHost, AttemptHost, Scanning
<1>8. ASSUME NEW r, ClassifyHost(r) PROVE on
  BY <1>1, <1>8 DEF ClassifyHost, Scanning
<1>8a. ScanRaises => on
  BY <1>1 DEF ScanRaises, Scanning
<1> HIDE DEF on
<1>9. on
  BY <1>2, <1>3, <1>4, <1>5, <1>5a, <1>6, <1>7, <1>8, <1>8a DEF DiscoverStep
<1>10. QED
  BY <1>9, NoneIsNoLayer, BlamesNothing DEF BlameInv, on

LEMMA NextBlameInv == CommandInv /\ BlameInv /\ [Next]_vars => BlameInv'
<1> SUFFICES ASSUME CommandInv, BlameInv, [Next]_vars PROVE BlameInv'
  OBVIOUS
<1>1. CASE Shown
  BY <1>1, NoneIsNoLayer, BlamesNothing DEF Shown, TcpResults
<1>2. CASE UNCHANGED vars
  <2>1. UNCHANGED <<p, icmp, tcp, tls, at, stopped, verdict, findings>>
    BY <1>2 DEF vars, probeVars, ladderVars
  <2>2. QED
    BY <2>1, SameEvidence DEF BlameInv, BlamesOnEvidence
<1>3. QED
  BY <1>1, <1>2, LadderBlame, DiscoverBlame DEF Next

-----------------------------------------------------------------------------
(***************************************************************************)
(* The theorems                                                            *)
(***************************************************************************)

(* The attempt uses one connection at a time and leaves none behind. Once  *)
(* it has understood an ACCEPT it does not close the connection over an    *)
(* association the device takes to be up, but where the abort could not be *)
(* sent and its last step says so, or an exception left it without a       *)
(* result; it says "released" only if the device has confirmed, "aborted"  *)
(* only if the device has seen the ABORT or closed, or the step says no.   *)
(* Whatever the device answers, wherever an exception or Ctrl-C falls, in  *)
(* a diagnosis and for every host of a scan (iso_associate and _end,       *)
(* probes.py).                                                             *)
THEOREM AttemptEnds == Spec => []EndsWhatItBegan
<1>1. CommandInv => EndsWhatItBegan
  BY DEF CommandInv, AttemptInv, ConnectionInv, EndsWhatItBegan, Connected, Excused
<1>2. QED
  BY <1>1, CommandInvariant, PTL

(* DIA-3: the outcome of a finished attempt is that of the last of the     *)
(* deepest rejections that were understood, in whatever order the decoder  *)
(* met them (AssociationProbe.fail, probes.py).                            *)
THEOREM DeepestWins == Spec => []DeepestRejectionWins
<1>1. CommandInv => DeepestRejectionWins
  BY DEF CommandInv, AttemptInv, ProbeInv, Told, DeepestRejectionWins
<1>2. QED
  BY <1>1, CommandInvariant, PTL

(* DIA-4, DIA-6: a diagnosis that stops below the association blames TLS   *)
(* or authentication only on evidence of its own, hints at exhausted slots *)
(* never more than as likely and never of a device it could not reach or   *)
(* that gave another permanent reason without saying that it is busy, and  *)
(* a reminder is never its verdict (classify.py, connection.py).           *)
THEOREM BlameIsEvident == Spec => []BlamesOnEvidence
<1>1. BlameInv => BlamesOnEvidence
  BY DEF BlameInv
<1>2. Spec => []BlameInv
  <2>1. CommandInv /\ BlameInv /\ [Next]_vars => BlameInv'
    BY NextBlameInv
  <2>2. QED
    BY <2>1, CommandInvariant, InitBlameInv, PTL DEF Spec
<1>3. QED
  BY <1>1, <1>2, PTL

-----------------------------------------------------------------------------
(* The slots a command takes *)

SlotInv ==
    /\ at \in {"bind", "icmp", "tcp", "attempt", "tls", "classify", "association"} => ~link
    /\ at \in {"scan", "open"} => brief = "none"
    /\ at \in {"told", "probe-host"} => brief # "up"
    /\ contacts \in 0..3
    /\ at = "scan" => contacts = 0
    /\ at = "open" => contacts = 1
    /\ at \in {"identify", "names", "release", "told"} => contacts = 2

LEMMA LadderSlots ==
    ASSUME SlotInv, CommandInv, LadderStep, UNCHANGED discoverVars
    PROVE  SlotInv'
<1> DEFINE Free == {"bind", "icmp", "tcp", "attempt", "tls", "classify", "association"}
           Ladder == Free \cup {"raised", "identity", "model", "reports", "controls", "over"}
           on == at' \in Ladder /\ (at' \in Free => ~link')
<1>1. brief' = brief /\ contacts' = contacts
  BY DEF discoverVars
<1>2. ASSUME NEW bound, Diagnose(bound) PROVE on
  BY <1>2 DEF Diagnose
<1>3. ASSUME NEW present, Bind(present) PROVE on
  BY <1>3 DEF Bind, Stop, SlotInv
<1>4. ASSUME NEW r, Ping(r) PROVE on
  BY <1>4 DEF Ping, SlotInv
<1>5. ASSUME NEW o, BareConnect(o) PROVE on
  BY <1>5 DEF BareConnect, SlotInv
<1>6. ASSUME Attempt PROVE on
  <2>1. at = "attempt" /\ UNCHANGED link /\ at' \in {"tls", "classify", "raised", "attempt"}
    BY <1>6 DEF Attempt
  <2>2. QED
    BY <2>1 DEF SlotInv
<1>7. ASSUME NEW r, TlsPort(r) PROVE on
  BY <1>7 DEF TlsPort, SlotInv
<1>8. ASSUME NEW known, Classified(known) PROVE on
  <2>1. at = "classify" /\ UNCHANGED link /\ at' \in {"association", "over"}
    BY <1>8 DEF Classified, Stop
  <2>2. QED
    BY <2>1 DEF SlotInv
<1>9. ASSUME NEW o, NEW known, Associate(o, known) PROVE on
  BY <1>9 DEF Associate, Stop
<1>10. ASSUME NEW layer, NEW status, NEW next \in {"model", "reports", "controls", "over"}, Upper(layer, status, next) PROVE on
  <2>1. at' \in {next, "over"}
    <3>1. CASE status = "fail"
      BY <1>10, <3>1 DEF Upper, Stop
    <3>2. CASE status # "fail" /\ next = "over"
      BY <1>10, <3>2 DEF Upper
    <3>3. CASE status # "fail" /\ next # "over"
      BY <1>10, <3>3 DEF Upper
    <3>4. QED
      BY <3>1, <3>2, <3>3
  <2>2. QED
    BY <2>1
<1>11. Raise => on
  BY DEF Raise
<1> HIDE DEF on
<1>12. on
  BY <1>2, <1>3, <1>4, <1>5, <1>6, <1>7, <1>8, <1>9, <1>10, <1>11 DEF LadderStep, Identity, Model, Reports, Controls
<1>13. QED
  BY <1>1, <1>12 DEF SlotInv, on

LEMMA DiscoverSlots ==
    ASSUME SlotInv, DiscoverStep
    PROVE  SlotInv'
<1>1. ASSUME NEW n, Discover(n) PROVE SlotInv'
  BY <1>1 DEF Discover, SlotInv
<1>2. ASSUME NEW device, HostOver(device) PROVE SlotInv'
  <2>1. brief' = "none" /\ contacts' = 0 /\ at' \in {"scan", "over"}
    BY <1>2 DEF HostOver
  <2>2. QED
    BY <2>1 DEF SlotInv
<1>3. ASSUME NEW o, NEW associate, Scan(o, associate) PROVE SlotInv'
  <2> DEFINE device == [seen EXCEPT !.open = (o = "accepted"), !.error = (o = "no-local-address")]
  <2>1. CASE device.open /\ associate
    <3>1. at = "scan" /\ at' = "open" /\ contacts' = contacts + 1 /\ UNCHANGED brief
      BY <1>3, <2>1 DEF Scan
    <3>2. QED
      BY <3>1 DEF SlotInv
  <2>2. CASE ~(device.open /\ associate)
    <3>1. HostOver(device)
      BY <1>3, <2>2 DEF Scan
    <3>2. QED
      BY <1>2, <3>1
  <2>3. QED
    BY <2>1, <2>2
<1>4. ASSUME NEW ok, Open(ok) PROVE SlotInv'
  <2>1. at = "open" /\ contacts' = 2 /\ (at' = "identify" \/ (at' = "told" /\ brief' = "none"))
    BY <1>4 DEF Open, SlotInv
  <2>2. QED
    BY <2>1 DEF SlotInv
<1>5. ASSUME NEW gone, NEW ok, Identify(ok, gone) PROVE SlotInv'
  BY <1>5 DEF Identify, SlotInv
<1>5a. ASSUME NEW gone, NEW answer, LogicalDevices(answer, gone) PROVE SlotInv'
  BY <1>5a DEF LogicalDevices, SlotInv
<1>6. ASSUME NEW confirmed, ReleaseBrief(confirmed) PROVE SlotInv'
  <2>1. at = "release" /\ at' = "told" /\ brief' # "up" /\ UNCHANGED contacts
    <3>1. CASE confirmed
      BY <1>6, <3>1 DEF ReleaseBrief
    <3>2. CASE ~confirmed /\ brief = "up"
      BY <1>6, <3>2 DEF ReleaseBrief
    <3>3. CASE ~confirmed /\ brief # "up"
      BY <1>6, <3>3 DEF ReleaseBrief
    <3>4. QED
      BY <3>1, <3>2, <3>3
  <2>2. QED
    BY <2>1 DEF SlotInv
<1>7. CASE ProbeFailure
  BY <1>7 DEF ProbeFailure, SlotInv
<1>8. CASE NextHost
  BY <1>2, <1>8 DEF NextHost
<1>9. CASE AttemptHost
  <2>1. at = "probe-host" /\ at' = "probe-host" /\ UNCHANGED <<brief, contacts>>
    BY <1>9 DEF AttemptHost, discoverVars
  <2>2. QED
    BY <2>1 DEF SlotInv
<1>10. ASSUME NEW r, ClassifyHost(r) PROVE SlotInv'
  BY <1>2, <1>10 DEF ClassifyHost
<1>11. CASE ScanRaises
  <2>1. at' = "over" /\ contacts' = 0
    BY <1>11 DEF ScanRaises
  <2>2. QED
    BY <2>1 DEF SlotInv
<1>12. QED
  BY <1>1, <1>3, <1>4, <1>5, <1>5a, <1>6, <1>7, <1>8, <1>9, <1>10, <1>11 DEF DiscoverStep

(* DIA-4 c, DIA-5: neither diagnose nor a scan takes a second slot of a    *)
(* device: the attempt runs without the shell's own association, a brief   *)
(* association is over before the probe that explains its failure and      *)
(* before the next host, and no host costs more than three connections     *)
(* (diagnose_cmd, Discoverer._associate, discover.py).                     *)
THEOREM OneSlotIsEnough == Spec => []TakesOneSlot
<1>1. Init => SlotInv
  BY DEF Init, LadderInit, DiscoverInit, SlotInv
<1>2. CommandInv /\ SlotInv /\ [Next]_vars => SlotInv'
  <2> SUFFICES ASSUME CommandInv, SlotInv, [Next]_vars PROVE SlotInv'
    OBVIOUS
  <2>1. CASE Shown
    BY <2>1 DEF Shown, SlotInv
  <2>2. CASE UNCHANGED vars
    BY <2>2 DEF SlotInv, vars, ladderVars, discoverVars
  <2>3. QED
    BY <2>1, <2>2, LadderSlots, DiscoverSlots DEF Next
<1>3. CommandInv /\ SlotInv => TakesOneSlot
  BY DEF CommandInv, AttemptInv, ConnectionInv, PlaceInv, SlotInv, TakesOneSlot, Connected
<1>4. QED
  BY <1>1, <1>2, <1>3, CommandInvariant, PTL DEF Spec

-----------------------------------------------------------------------------
(* The ladder *)

Rows == [layer : {Layers[i] : i \in 1..9}, status : {"pass", "warn", "fail", "not-run"}]

(* The layers up to the k-th have been reported, without the bind layer if from is 2, and none has failed. *)
Rungs(ls, from, k) ==
    /\ ls \in Seq(Rows)
    /\ Len(ls) + from = k + 1
    /\ \A i \in DOMAIN ls : ls[i].layer = Layers[i + from - 1] /\ ls[i].status # "fail"
Passed(ls, k) == \E from \in {1, 2} : Rungs(ls, from, k)

(* Only the last has failed. *)
Prefix(ls) ==
    /\ \A i \in DOMAIN ls : ls[i].status = "fail" => i = Len(ls)
    /\ \E from \in {1, 2} : \A i \in DOMAIN ls : ls[i].layer = Layers[i + from - 1]
FailedAt(ls, layer) == Prefix(ls) /\ Last(ls) = Entry(layer, "fail")

LEMMA PassedPrefix ==
    ASSUME NEW ls, NEW k, Passed(ls, k)
    PROVE  Prefix(ls) /\ \A i \in DOMAIN ls : ls[i].status # "fail"
BY DEF Passed, Rungs, Prefix

LEMMA NextRung ==
    ASSUME NEW ls, NEW k \in 0..8, Passed(ls, k), NEW status \in {"pass", "warn", "fail", "not-run"}
    PROVE  LET more == Append(ls, Entry(Layers[k + 1], status))
           IN  /\ ls \in Seq(Rows)
               /\ status # "fail" => Passed(more, k + 1)
               /\ status = "fail" => FailedAt(more, Layers[k + 1])
<1> DEFINE e == Entry(Layers[k + 1], status)
           more == Append(ls, e)
           n == Len(ls)
<1>1. PICK from \in {1, 2} : Rungs(ls, from, k)
  BY DEF Passed
<1>2. e \in Rows /\ e.layer = Layers[k + 1] /\ e.status = status
  BY DEF Entry, Rows
<1>3. ls \in Seq(Rows) /\ n + from = k + 1
  BY <1>1 DEF Rungs
<1> HIDE DEF e
<1>4. /\ n \in Nat /\ DOMAIN ls = 1..n /\ more \in Seq(Rows) /\ DOMAIN more = 1..n + 1 /\ Len(more) = n + 1
      /\ more[n + 1] = e /\ \A i \in 1..n : more[i] = ls[i]
  BY <1>2, <1>3, AppendProperties, LenProperties
<1> HIDE DEF more, n
<1>5. \A i \in 1..n + 1 : i \in 1..n \/ i = n + 1
  BY <1>4
<1>6. \A i \in 1..n : more[i].layer = Layers[i + from - 1] /\ more[i].status # "fail"
  BY <1>1, <1>4 DEF Rungs
<1>7. n + 1 + from - 1 = k + 1 /\ n + 1 + from = k + 1 + 1
  BY <1>3, <1>4
<1>8. \A i \in DOMAIN more : more[i].layer = Layers[i + from - 1]
  BY <1>2, <1>4, <1>5, <1>6, <1>7
<1>9. \A i \in DOMAIN more : i = n + 1 \/ more[i].status # "fail"
  BY <1>4, <1>5, <1>6
<1>10. ASSUME status # "fail" PROVE Passed(more, k + 1)
  <2>1. \A i \in DOMAIN more : more[i].status # "fail"
    BY <1>2, <1>4, <1>9, <1>10
  <2>2. Rungs(more, from, k + 1)
    BY <1>4, <1>7, <1>8, <2>1 DEF Rungs
  <2>3. QED
    BY <2>2 DEF Passed
<1>11. ASSUME status = "fail" PROVE FailedAt(more, Layers[k + 1])
  <2>1. Prefix(more)
    BY <1>4, <1>8, <1>9 DEF Prefix
  <2>2. Last(more) = e
    BY <1>4 DEF Last
  <2>3. QED
    BY <1>11, <2>1, <2>2 DEF FailedAt, e
<1>12. QED
  BY <1>3, <1>10, <1>11 DEF more, e

LEMMA LayersAre ==
    /\ Layers[1] = "bind" /\ Layers[2] = "network" /\ Layers[3] = "transport-session" /\ Layers[4] = "mms-initiate"
    /\ Layers[5] = "association" /\ Layers[6] = "identity" /\ Layers[7] = "model" /\ Layers[8] = "reports" /\ Layers[9] = "controls"
    /\ None \notin {"bind", "network", "transport-session", "mms-initiate", "association", "identity", "model", "reports", "controls"}
<1>1. /\ DOMAIN Layers = 1..9
      /\ Layers[1] = "bind" /\ Layers[2] = "network" /\ Layers[3] = "transport-session" /\ Layers[4] = "mms-initiate"
      /\ Layers[5] = "association" /\ Layers[6] = "identity" /\ Layers[7] = "model" /\ Layers[8] = "reports" /\ Layers[9] = "controls"
  BY DEF Layers
<1>2. \A i \in 1..9 : Layers[i] # None
  BY <1>1, LayersAssumption
<1>3. QED
  BY <1>1, <1>2

(* A rung is added with Append or, by the classification, in one go. *)
LEMMA AddOneRung ==
    ASSUME NEW ls \in Seq(Rows), NEW a \in Rows
    PROVE  ls \o <<a>> = Append(ls, a) /\ Append(ls, a) \in Seq(Rows) /\ ls \o <<>> = ls
OBVIOUS

LEMMA AddTwoRungs ==
    ASSUME NEW ls \in Seq(Rows), NEW a \in Rows, NEW b \in Rows
    PROVE  (ls \o <<a>>) \o <<b>> \o <<>> = Append(Append(ls, a), b)
BY AddOneRung

LEMMA AddThreeRungs ==
    ASSUME NEW ls \in Seq(Rows), NEW a \in Rows, NEW b \in Rows, NEW c \in Rows
    PROVE  /\ (ls \o <<a>>) \o <<b>> \o <<c>> = Append(Append(Append(ls, a), b), c)
           /\ ls \o <<a, b, c>> = Append(Append(Append(ls, a), b), c)
<1>1. ls \o <<a, b, c>> = Append(Append(Append(ls, a), b), c)
  OBVIOUS
<1>2. ls \o <<a>> = Append(ls, a) /\ Append(ls, a) \in Seq(Rows)
  BY AddOneRung
<1>3. Append(ls, a) \o <<b>> = Append(Append(ls, a), b) /\ Append(Append(ls, a), b) \in Seq(Rows)
  BY <1>2, AddOneRung
<1>4. Append(Append(ls, a), b) \o <<c>> = Append(Append(Append(ls, a), b), c)
  BY <1>3, AddOneRung
<1>5. QED
  BY <1>1, <1>2, <1>3, <1>4

StopInv ==
    /\ at # "over" => stopped = None /\ verdict = NoVerdict
    /\ at \in {"identity", "model", "reports", "controls"} => link
    /\ at = "bind" => Passed(layers, 0)
    /\ at \notin {"bind", "association", "identity", "model", "reports", "controls", "over"} => Passed(layers, 1)
    /\ at = "association" => Passed(layers, 4)
    /\ at = "identity" => Passed(layers, 5)
    /\ at = "model" => Passed(layers, 6)
    /\ at = "reports" => Passed(layers, 7)
    /\ at = "controls" => Passed(layers, 8)
    /\ at = "over" => StopsAtFirstFailure

LEMMA NothingPassed == Passed(<<>>, 0) /\ Passed(<<>>, 1)
<1>1. <<>> \in Seq(Rows) /\ Len(<<>>) = 0 /\ DOMAIN <<>> = {}
  OBVIOUS
<1>2. Rungs(<<>>, 1, 0) /\ Rungs(<<>>, 2, 1)
  BY <1>1 DEF Rungs
<1>3. QED
  BY <1>2 DEF Passed

(* The command goes on, or is over without having stopped. *)
LEMMA StopsNowhere ==
    ASSUME NEW k, Passed(layers', k), stopped' = None,
           at' # "over" => verdict' = NoVerdict,
           verdict'.about = "no-problem" => link'
    PROVE  StopsAtFirstFailure'
BY PassedPrefix DEF StopsAtFirstFailure, Prefix

(* It has stopped at a layer, and blames that. *)
LEMMA StopsThere ==
    ASSUME FailedAt(layers', stopped'), verdict'.layer = stopped', verdict'.about # "no-problem", at' = "over"
    PROVE  StopInv'
<1>1. StopsAtFirstFailure'
  BY DEF StopsAtFirstFailure, FailedAt, Prefix
<1>2. QED
  BY <1>1 DEF StopInv

LEMMA InitStopInv == Init => StopInv
BY NothingPassed DEF Init, LadderInit, StopInv

(* A command that is elsewhere than on the ladder. *)
LEMMA OffTheLadder ==
    ASSUME StopInv, UNCHANGED <<layers, stopped, verdict>>, at \notin {"bind", "association", "identity", "model", "reports", "controls", "over"},
           at' \notin {"bind", "association", "identity", "model", "reports", "controls"}
    PROVE  StopInv'
<1>1. Passed(layers', 1) /\ stopped' = None /\ verdict' = NoVerdict
  BY DEF StopInv
<1>2. StopsAtFirstFailure'
  BY <1>1, StopsNowhere DEF NoVerdict
<1>3. QED
  BY <1>1, <1>2 DEF StopInv

LEMMA UpperStop ==
    ASSUME StopInv, NEW k \in 5..8, NEW layer, layer = Layers[k + 1], Passed(layers, k), link,
           layer \in {"identity", "model", "reports", "controls"},
           NEW status \in {"pass", "warn", "fail", "not-run"}, NEW next \in {"model", "reports", "controls", "over"},
           next = "over" \/ (k + 2 \in 1..9 /\ next = Layers[k + 2]), Upper(layer, status, next)
    PROVE  StopInv'
<1>1. /\ layers' = Append(layers, Entry(Layers[k + 1], status)) /\ at # "over" /\ UNCHANGED link
  BY DEF Upper, Report, Entry
<1>2. stopped = None /\ verdict = NoVerdict
  BY <1>1 DEF StopInv
<1>3. /\ status # "fail" => Passed(layers', k + 1)
      /\ status = "fail" => FailedAt(layers', layer)
  <2>1. k \in 0..8
    OBVIOUS
  <2>2. QED
    BY <1>1, <2>1, NextRung
<1>4. CASE status = "fail"
  <2>1. at' = "over" /\ stopped' = layer /\ verdict' = Verdict(layer, "fact", layer)
    BY <1>4 DEF Upper, Stop
  <2>2. verdict'.about # "no-problem" /\ verdict'.layer = stopped'
    BY <2>1 DEF Verdict
  <2>3. QED
    BY <1>3, <1>4, <2>1, <2>2, StopsThere
<1>5. CASE status # "fail" /\ next = "over"
  <2>1. at' = "over" /\ UNCHANGED stopped /\ link'
    BY <1>1, <1>5 DEF Upper
  <2>2. StopsAtFirstFailure'
    BY <1>2, <1>3, <1>5, <2>1, StopsNowhere
  <2>3. QED
    BY <2>1, <2>2 DEF StopInv
<1>6. CASE status # "fail" /\ next # "over"
  <2>1. at' = next /\ UNCHANGED <<stopped, verdict>> /\ link'
    BY <1>1, <1>6 DEF Upper
  <2>2. Passed(layers', k + 1) /\ stopped' = None /\ verdict' = NoVerdict
    BY <1>2, <1>3, <1>6, <2>1
  <2>3. (next = "model" /\ k + 1 = 6) \/ (next = "reports" /\ k + 1 = 7) \/ (next = "controls" /\ k + 1 = 8)
    <3>1. k \in {5, 6, 7, 8}
      OBVIOUS
    <3>2. QED
      BY <1>6, <3>1, LayersAre
  <2>4. QED
    BY <2>1, <2>2, <2>3 DEF StopInv
<1>7. QED
  BY <1>4, <1>5, <1>6

LEMMA BindStop ==
    ASSUME StopInv, NEW present \in BOOLEAN, Bind(present)
    PROVE  StopInv'
<1> DEFINE status == IF present THEN "pass" ELSE "fail"
<1>1. at = "bind" /\ layers' = Append(layers, Entry(Layers[1], status)) /\ Passed(layers, 0) /\ stopped = None /\ verdict = NoVerdict
  BY LayersAre DEF Bind, Report, Entry, StopInv
<1>2. /\ status # "fail" => Passed(layers', 1)
      /\ status = "fail" => FailedAt(layers', "bind")
  <2>1. 0 \in 0..8 /\ 0 + 1 = 1 /\ status \in {"pass", "warn", "fail", "not-run"}
    OBVIOUS
  <2> HIDE DEF status
  <2>2. QED
    BY <1>1, <2>1, NextRung, LayersAre
<1>3. CASE present
  <2>1. at' = "icmp" /\ UNCHANGED <<stopped, verdict>>
    BY <1>3 DEF Bind
  <2>2. QED
    BY <1>1, <1>2, <1>3, <2>1 DEF StopInv
<1>4. CASE ~present
  <2>1. at' = "over" /\ stopped' = "bind" /\ verdict' = Verdict("local-address-missing", "fact", "bind")
    BY <1>4 DEF Bind, Stop
  <2>2. QED
    BY <1>2, <1>4, <2>1, StopsThere DEF Verdict
<1>5. QED
  BY <1>3, <1>4

LEMMA AssociateStop ==
    ASSUME StopInv, NEW o, NEW known \in BOOLEAN, Associate(o, known)
    PROVE  StopInv'
<1> DEFINE status == IF o = "ok" THEN "pass" ELSE "fail"
<1>1. at = "association" /\ layers' = Append(layers, Entry(Layers[5], status)) /\ Passed(layers, 4) /\ stopped = None /\ verdict = NoVerdict
  BY LayersAre DEF Associate, Report, Entry, StopInv
<1>2. /\ status # "fail" => Passed(layers', 5)
      /\ status = "fail" => FailedAt(layers', "association")
  <2>1. 4 \in 0..8 /\ 4 + 1 = 5 /\ status \in {"pass", "warn", "fail", "not-run"}
    OBVIOUS
  <2> HIDE DEF status
  <2>2. QED
    BY <1>1, <2>1, NextRung, LayersAre
<1>3. CASE o = "ok"
  <2>1. at' = "identity" /\ link' /\ UNCHANGED <<stopped, verdict>>
    BY <1>3 DEF Associate
  <2>2. QED
    BY <1>1, <1>2, <1>3, <2>1 DEF StopInv
<1>4. CASE o # "ok"
  <2>1. at' = "over" /\ stopped' = "association" /\ verdict' = Verdict("association-failed", "likely", "association")
    BY <1>4 DEF Associate, Stop
  <2>2. QED
    BY <1>2, <1>4, <2>1, StopsThere DEF Verdict
<1>5. QED
  BY <1>3, <1>4

LEMMA ClassifiedStop ==
    ASSUME StopInv, CommandInv, BlameInv, NEW known \in BOOLEAN, Classified(known)
    PROVE  StopInv'
<1> DEFINE net(s) == Entry("network", s)
           ts(s) == Entry("transport-session", s)
           mms(s) == Entry("mms-initiate", s)
<1>1. at = "classify" /\ Passed(layers, 1) /\ stopped = None /\ verdict = NoVerdict /\ p \in Probes /\ tcp \in TcpResults
  BY DEF Classified, StopInv, CommandInv, AttemptInv, ProbeInv, BlameInv
<1>2. layers \in Seq(Rows)
  BY <1>1 DEF Passed, Rungs
<1>3. \A s \in {"pass", "fail"} : net(s) \in Rows /\ ts(s) \in Rows /\ mms(s) \in Rows
  BY LayersAre DEF Entry, Rows
<1> HIDE DEF net, ts, mms
<1>4. /\ net("pass") \in Rows /\ net("fail") \in Rows /\ ts("pass") \in Rows /\ ts("fail") \in Rows
       /\ mms("pass") \in Rows /\ mms("fail") \in Rows
  BY <1>3
<1>5. \A s \in {"pass", "fail"} : /\ s # "fail" => Passed(Append(layers, net(s)), 2)
                                  /\ s = "fail" => FailedAt(Append(layers, net(s)), "network")
  <2>1. ASSUME NEW s \in {"pass", "fail"}
        PROVE  /\ s # "fail" => Passed(Append(layers, Entry(Layers[1 + 1], s)), 1 + 1)
               /\ s = "fail" => FailedAt(Append(layers, Entry(Layers[1 + 1], s)), Layers[1 + 1])
    <3>1. s \in {"pass", "warn", "fail", "not-run"} /\ 1 \in 0..8
      OBVIOUS
    <3>2. QED
      BY <1>1, <3>1, NextRung
  <2>2. QED
    BY <2>1, LayersAre DEF net
<1>6. \A s \in {"pass", "fail"} : /\ s # "fail" => Passed(Append(Append(layers, net("pass")), ts(s)), 3)
                                  /\ s = "fail" => FailedAt(Append(Append(layers, net("pass")), ts(s)), "transport-session")
  <2>1. Passed(Append(layers, net("pass")), 2)
    BY <1>5
  <2> DEFINE ls == Append(layers, net("pass"))
  <2> HIDE DEF ls
  <2>2. ASSUME NEW s \in {"pass", "fail"}
        PROVE  /\ s # "fail" => Passed(Append(ls, Entry(Layers[2 + 1], s)), 2 + 1)
               /\ s = "fail" => FailedAt(Append(ls, Entry(Layers[2 + 1], s)), Layers[2 + 1])
    <3>1. s \in {"pass", "warn", "fail", "not-run"} /\ 2 \in 0..8 /\ Passed(ls, 2)
      BY <2>1 DEF ls
    <3>2. QED
      BY <3>1, NextRung
  <2>3. QED
    BY <2>2, LayersAre DEF ts, ls
<1>7. \A s \in {"pass", "fail"} :
        /\ s # "fail" => Passed(Append(Append(Append(layers, net("pass")), ts("pass")), mms(s)), 4)
        /\ s = "fail" => FailedAt(Append(Append(Append(layers, net("pass")), ts("pass")), mms(s)), "mms-initiate")
  <2>1. Passed(Append(Append(layers, net("pass")), ts("pass")), 3)
    BY <1>6
  <2> DEFINE ls == Append(Append(layers, net("pass")), ts("pass"))
  <2> HIDE DEF ls
  <2>2. ASSUME NEW s \in {"pass", "fail"}
        PROVE  /\ s # "fail" => Passed(Append(ls, Entry(Layers[3 + 1], s)), 3 + 1)
               /\ s = "fail" => FailedAt(Append(ls, Entry(Layers[3 + 1], s)), Layers[3 + 1])
    <3>1. s \in {"pass", "warn", "fail", "not-run"} /\ 3 \in 0..8 /\ Passed(ls, 3)
      BY <2>1 DEF ls
    <3>2. QED
      BY <3>1, NextRung
  <2>3. QED
    BY <2>2, LayersAre DEF mms, ls
<1>8. CASE Outcome = "accepted"
  <2>1. /\ layers' = layers \o <<net("pass"), ts("pass"), mms("pass")>> /\ at' = "association" /\ UNCHANGED <<stopped, verdict>>
    BY <1>8 DEF Classified, net, ts, mms
  <2>2. layers' = Append(Append(Append(layers, net("pass")), ts("pass")), mms("pass"))
    BY <1>2, <1>4, <2>1, AddThreeRungs
  <2>3. QED
    BY <1>1, <1>7, <2>1, <2>2 DEF StopInv
<1>9. CASE Outcome # "accepted"
  <2> DEFINE fs == SecurityFindings \o LayerFindings \o LimitFindings(known)
             best == BestFinding(fs)
             about == CASE SuspectsTls -> "needs-tls"
                        [] SuspectsAuthentication -> "needs-authentication"
                        [] OTHER -> IF best = NoFinding THEN Outcome ELSE best.key
             failed == FailedLayer
             status(layer) == IF layer = failed THEN "fail" ELSE "pass"
  <2>1. /\ layers' = layers \o <<net(status("network"))>> \o If(failed # "network", ts(status("transport-session")))
                            \o If(failed = "mms-initiate", mms("fail"))
        /\ at' = "over" /\ stopped' = failed /\ verdict'.layer = failed /\ verdict'.about = about
    BY <1>9 DEF Classified, Stop, Verdict, net, ts, mms
  <2>2. about # "no-problem"
    <3>1. fs \in Seq(Findings)
      BY <1>1, FindingsType
    <3> HIDE DEF fs
    <3>2. best = NoFinding \/ (best \in Findings /\ best.key \notin Reminders)
      BY <3>1, BestIs
    <3>3. Outcome \in Outcomes \cup {"skipped", "tls-suspected", "authentication-suspected"}
      BY <1>1, ObservedType DEF Outcome
    <3> HIDE DEF best
    <3>4. QED
      BY <3>2, <3>3 DEF Findings, Keys, Outcomes
  <2>3. failed \in {"network", "transport-session", "mms-initiate"}
    BY DEF FailedLayer
  <2> HIDE DEF about, failed
  <2>4. FailedAt(layers', failed)
    <3>1. CASE failed = "network"
      <4>1. layers' = (layers \o <<net("fail")>>) \o <<>> \o <<>>
        BY <2>1, <3>1 DEF If
      <4>2. layers' = Append(layers, net("fail"))
        BY <1>2, <1>4, <4>1, AddOneRung
      <4>3. QED
        BY <1>5, <3>1, <4>2
    <3>2. CASE failed = "transport-session"
      <4>1. layers' = (layers \o <<net("pass")>>) \o <<ts("fail")>> \o <<>>
        BY <2>1, <3>2 DEF If
      <4>2. (layers \o <<net("pass")>>) \o <<ts("fail")>> \o <<>> = Append(Append(layers, net("pass")), ts("fail"))
        BY <1>2, <1>4, AddTwoRungs
      <4>3. layers' = Append(Append(layers, net("pass")), ts("fail"))
        BY <4>1, <4>2
      <4>4. QED
        BY <1>6, <3>2, <4>3
    <3>3. CASE failed = "mms-initiate"
      <4>1. layers' = (layers \o <<net("pass")>>) \o <<ts("pass")>> \o <<mms("fail")>>
        BY <2>1, <3>3 DEF If
      <4>2. (layers \o <<net("pass")>>) \o <<ts("pass")>> \o <<mms("fail")>>
               = Append(Append(Append(layers, net("pass")), ts("pass")), mms("fail"))
        BY <1>2, <1>4, AddThreeRungs
      <4>3. layers' = Append(Append(Append(layers, net("pass")), ts("pass")), mms("fail"))
        BY <4>1, <4>2
      <4>4. QED
        BY <1>7, <3>3, <4>3
    <3>4. QED
      BY <2>3, <3>1, <3>2, <3>3
  <2>5. QED
    BY <2>1, <2>2, <2>4, StopsThere
<1>10. QED
  BY <1>8, <1>9

LEMMA LadderStops ==
    ASSUME StopInv, CommandInv, BlameInv, LadderStep
    PROVE  StopInv'
<1>1. ASSUME NEW bound \in BOOLEAN, Diagnose(bound) PROVE StopInv'
  <2>1. at' \in {"bind", "icmp"} /\ layers' = <<>> /\ stopped' = None /\ verdict' = NoVerdict
    BY <1>1 DEF Diagnose
  <2>2. QED
    BY <2>1, NothingPassed DEF StopInv
<1>2. ASSUME NEW r, Ping(r) PROVE StopInv'
  BY <1>2, OffTheLadder DEF Ping
<1>3. ASSUME NEW o, BareConnect(o) PROVE StopInv'
  <2>1. at = "tcp" /\ at' \in {"attempt", "tls", "classify"} /\ UNCHANGED <<layers, stopped, verdict>>
    BY <1>3 DEF BareConnect
  <2>2. QED
    BY <2>1, OffTheLadder
<1>4. CASE Attempt
  <2>1. at = "attempt" /\ at' \in {"tls", "classify", "raised", "attempt"} /\ UNCHANGED <<layers, stopped, verdict>>
    BY <1>4 DEF Attempt
  <2>2. QED
    BY <2>1, OffTheLadder
<1>5. ASSUME NEW r, TlsPort(r) PROVE StopInv'
  BY <1>5, OffTheLadder DEF TlsPort
<1>6. ASSUME NEW s \in {"pass", "fail"}, Identity(s) PROVE StopInv'
  <2>1. Passed(layers, 5) /\ link /\ Upper("identity", s, "model")
    BY <1>6 DEF Identity, Upper, StopInv
  <2>2. QED
    BY <2>1, LayersAre, UpperStop
<1>7. ASSUME NEW s \in {"pass", "warn", "fail"}, Model(s) PROVE StopInv'
  <2>1. Passed(layers, 6) /\ link /\ Upper("model", s, "reports")
    BY <1>7 DEF Model, Upper, StopInv
  <2>2. QED
    BY <2>1, LayersAre, UpperStop
<1>8. ASSUME NEW s \in {"pass", "fail"}, NEW controls \in BOOLEAN, Reports(s, controls) PROVE StopInv'
  <2>1. PICK next \in {"controls", "over"} : Passed(layers, 7) /\ link /\ Upper("reports", s, next)
    BY <1>8 DEF Reports, Upper, StopInv
  <2>2. QED
    BY <2>1, LayersAre, UpperStop
<1>9. ASSUME NEW s \in {"pass", "warn", "not-run"}, Controls(s) PROVE StopInv'
  <2>1. Passed(layers, 8) /\ link /\ Upper("controls", s, "over")
    BY <1>9 DEF Controls, Upper, StopInv
  <2>2. QED
    BY <2>1, LayersAre, UpperStop
<1>10. CASE Raise
  <2>1. /\ at \in {"icmp", "tcp", "tls", "attempt", "raised", "association", "identity", "model", "reports", "controls"}
        /\ at' = "over" /\ verdict' = Verdict("did-not-complete", "check", None) /\ UNCHANGED stopped
    BY <1>10 DEF Raise, Range, UpperLayers
  <2>2. stopped = None /\ verdict'.about # "no-problem"
    BY <2>1 DEF StopInv, Verdict
  <2>3. \E k \in 0..9 : Passed(layers', k)
    <3>1. CASE at \in {"icmp", "tcp", "tls", "attempt", "raised"}
      BY <1>10, <3>1 DEF Raise, StopInv, Range, UpperLayers
    <3>2. CASE at \in {"association", "identity", "model", "reports", "controls"}
      <4>1. RowSoFar
        BY <1>10, <3>2 DEF Raise
      <4>2. PICK k \in {4, 5, 6, 7, 8} : Passed(layers, k) /\ at = Layers[k + 1]
        BY <3>2, LayersAre DEF StopInv
      <4>3. k \in 0..8 /\ k + 1 \in 0..9
        OBVIOUS
      <4>4. CASE UNCHANGED layers
        BY <4>2, <4>4
      <4>5. CASE \E s \in {"pass", "warn"} : Report(at, s)
        <5>1. PICK s \in {"pass", "warn"} : layers' = Append(layers, Entry(Layers[k + 1], s))
          BY <4>2, <4>5 DEF Report, Entry
        <5>2. Passed(layers', k + 1)
          BY <4>2, <4>3, <5>1, NextRung
        <5>3. QED
          BY <4>3, <5>2
      <4>6. QED
        BY <4>1, <4>4, <4>5 DEF RowSoFar
    <3>3. QED
      BY <2>1, <3>1, <3>2
  <2>4. StopsAtFirstFailure'
    BY <2>1, <2>2, <2>3, StopsNowhere
  <2>5. QED
    BY <2>1, <2>4 DEF StopInv
<1>11. QED
  BY <1>1, <1>2, <1>3, <1>4, <1>5, <1>6, <1>7, <1>8, <1>9, <1>10, BindStop, ClassifiedStop, AssociateStop DEF LadderStep

LEMMA DiscoverStops ==
    ASSUME StopInv, DiscoverStep
    PROVE  StopInv'
<1> DEFINE Here == {"prompt", "scan", "open", "identify", "names", "release", "told", "probe-host"}
           on == at \in Here /\ at' \in Here \cup {"over"} /\ UNCHANGED <<layers, stopped, verdict>>
<1>1. \A device : HostOver(device) => at' \in {"scan", "over"}
  BY DEF HostOver
<1>2. ASSUME NEW n, Discover(n) PROVE on
  BY <1>2 DEF Discover, Scanning
<1>3. ASSUME NEW o, NEW associate, Scan(o, associate) PROVE on
  BY <1>1, <1>3 DEF Scan, Scanning
<1>4. ASSUME NEW ok, Open(ok) PROVE on
  BY <1>4 DEF Open, Scanning
<1>5. ASSUME NEW gone, NEW ok, Identify(ok, gone) PROVE on
  BY <1>5 DEF Identify, Scanning
<1>5a. ASSUME NEW gone, NEW answer, LogicalDevices(answer, gone) PROVE on
  BY <1>5a DEF LogicalDevices, Scanning
<1>6. ASSUME NEW confirmed, ReleaseBrief(confirmed) PROVE on
  BY <1>6 DEF ReleaseBrief, Scanning
<1>7. ProbeFailure \/ NextHost \/ AttemptHost => on
  BY <1>1 DEF ProbeFailure, NextHost, AttemptHost, Scanning
<1>8. ASSUME NEW r, ClassifyHost(r) PROVE on
  BY <1>1, <1>8 DEF ClassifyHost, Scanning
<1>8a. ScanRaises => on
  BY DEF ScanRaises, Scanning
<1> HIDE DEF on
<1>9. on
  BY <1>2, <1>3, <1>4, <1>5, <1>5a, <1>6, <1>7, <1>8, <1>8a DEF DiscoverStep
<1>10. QED
  BY <1>9, OffTheLadder DEF on

(* DIA-1, DIA-2: the layers a diagnosis reports are the ladder in its      *)
(* order, and it stops at the first that fails and blames that one; it     *)
(* finds no problem only when every layer has passed over an association   *)
(* of its own (diagnose.py, MmsConnectionDiagnosis.run).                   *)
THEOREM LadderStopsAtFirstFailure == Spec => []StopsAtFirstFailure
<1>1. CommandInv /\ BlameInv /\ StopInv /\ [Next]_vars => StopInv'
  <2> SUFFICES ASSUME CommandInv, BlameInv, StopInv, [Next]_vars PROVE StopInv'
    OBVIOUS
  <2>1. CASE Shown
    <3>1. at' = "prompt" /\ layers' = <<>> /\ stopped' = None /\ verdict' = NoVerdict
      BY <2>1 DEF Shown
    <3>2. QED
      BY <3>1, NothingPassed DEF StopInv
  <2>2. CASE UNCHANGED vars
    BY <2>2 DEF StopInv, StopsAtFirstFailure, vars, ladderVars
  <2>3. QED
    BY <2>1, <2>2, LadderStops, DiscoverStops DEF Next
<1>2. Spec => []BlameInv
  <2>1. CommandInv /\ BlameInv /\ [Next]_vars => BlameInv'
    BY NextBlameInv
  <2>2. QED
    BY <2>1, CommandInvariant, InitBlameInv, PTL DEF Spec
<1>3. StopInv => StopsAtFirstFailure
  <2>1. ASSUME StopInv, at # "over" PROVE StopsAtFirstFailure
    <3>1. PICK k \in {0, 1, 4, 5, 6, 7, 8} : Passed(layers, k)
      BY <2>1 DEF StopInv
    <3>2. QED
      BY <2>1, <3>1, PassedPrefix DEF StopsAtFirstFailure, Prefix
  <2>2. QED
    BY <2>1 DEF StopInv
<1>4. QED
  BY <1>1, <1>2, <1>3, InitStopInv, CommandInvariant, PTL DEF Spec
================================================================================
