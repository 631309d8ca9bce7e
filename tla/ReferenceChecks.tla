----------------------------- MODULE ReferenceChecks -----------------------------
(***************************************************************************)
(* check: what the device is compared with (ied_client/verify/checks.py    *)
(* and reference.py, core/results.py). Every check adds results to a set;  *)
(* a result says which check, with which outcome, about which object (the  *)
(* sequence of names that leads to it). The order of results, their        *)
(* wording and their evidence are left out.                                *)
(***************************************************************************)
EXTENDS Identity

Conf == "Configuration"
Comm == "Communication"
ValueFcs == {"CF", "SP", "DC", "EX", "SG"}

R(id, status, cat, at) == [id |-> id, status |-> status, cat |-> cat, at |-> at]
All(id, status, cat, objects) == {R(id, status, cat, x) : x \in objects}

(* category_status: not-run only if nothing else ran; information passes. *)
CategoryStatus(results, cat) ==
    LET sts == {r.status : r \in {x \in results : x.cat = cat}} \ {"not-run"}
    IN  CASE "fail" \in sts -> "fail" [] "fail" \notin sts /\ "warn" \in sts -> "warn"
          [] sts = {} -> "not-run" [] OTHER -> "pass"
DevicePasses(results) == CategoryStatus(results, Conf) = "pass" /\ CategoryStatus(results, Comm) = "pass"

(***************************************************************************)
(* The model: only what is below an object that is there is looked at.     *)
(***************************************************************************)
ExpLns(exp) == {[key |-> <<x.domain, x.ln.name>>, ln |-> x.ln] : x \in AllLns(exp)}
ExpLeaves(exp) == UNION {{[key |-> x.key, a |-> a] : a \in LeavesOf(x.ln)} : x \in ExpLns(exp)}

ObjectOf(key, leaf) == key \o Append(leaf.path, leaf.fc)
Object(l) == ObjectOf(l.key, l.a)

(* What the device has at the path of a leaf under an FC. *)
KindAt(leaves, path, fc) ==
    LET l == LeafAt(leaves, path, fc)
    IN  IF l # None THEN l.kind ELSE IF fc \in FcsAt(leaves, path) THEN "structure" ELSE None

TypeMatches(a, leaves) ==
    LET info == BTypeInfo(a.bType)
        kind == KindAt(leaves, a.path, a.fc)
        live == LeafAt(leaves, a.path, a.fc)
    IN  CASE a.count > 0 -> IF kind = "array" THEN "same" ELSE "kind"
          [] a.count = 0 /\ info.kind = "unknown" -> "same"
          [] a.count = 0 /\ info.kind # "unknown" /\ kind # info.kind -> "kind"
          [] OTHER -> IF info.size = None \/ live.size = None \/ a.bType = "Enum" \/ live.size = info.size THEN "same" ELSE "size"

ModelChecks(exp, model) ==
    LET lds == {exp.lds[i].domain : i \in DOMAIN exp.lds}
        known == lds \cup {exp.lds[i].inst : i \in DOMAIN exp.lds}
        lns == {x \in ExpLns(exp) : x.key[1] \in model.domains}
        there == {x \in lns : x.key \in DOMAIN model.lns}
        Live(x) == model.lns[x.key]
        dos == UNION {{<<x.key, do>> : do \in DosOf(x.ln)} : x \in there}
        noDo == {d \in dos : d[2] \notin DataObjects(model.lns[d[1]])}
        missing == {<<d>> : d \in lds \ model.domains} \cup {x.key : x \in lns \ there} \cup {Append(d[1], d[2]) : d \in noDo}
        leaves == {l \in ExpLeaves(exp) : <<l.key, l.a.path[1]>> \in dos \ noDo}
        absent == {l \in leaves : KindAt(model.lns[l.key], l.a.path, l.a.fc) = None}
        otherFc == {l \in absent : FcsAt(model.lns[l.key], l.a.path) # {}}
        wrong(how) == {Object(l) : l \in {x \in leaves \ absent : TypeMatches(x.a, model.lns[x.key]) = how}}
        extraLns == {<<k[1]>> : k \in {x \in DOMAIN model.lns : x[1] \in lds /\ ~\E y \in ExpLns(exp) : y.key = x}}
        bad == missing \cup {Object(l) : l \in absent} \cup wrong("kind") \cup wrong("size")
    IN  All("model-object-missing", "fail", Conf, missing \cup {Object(l) : l \in absent \ otherFc})
        \cup All("model-fc-mismatch", "fail", Conf, {Object(l) : l \in otherFc})
        \cup All("model-type-mismatch", "fail", Conf, wrong("kind"))
        \cup All("model-type-mismatch", "warn", Conf, wrong("size"))
        \cup All("model-object-unexpected", "warn", Conf,
                 {x.key : x \in {y \in there : DataObjects(Live(y)) \ DosOf(y.ln) # {}}} \cup extraLns \cup {<<d>> : d \in model.domains \ known})
        \cup (IF bad = {} THEN {R("model-structure", "pass", Conf, <<>>)} ELSE {})


DatasetChecks(exp, dev, model) ==
    LET want == DatasetsOf(exp)
    IN  {R("dataset-mismatch", IF k \in model.datasets /\ k \in DOMAIN dev.datasets /\ dev.datasets[k] = want[k] THEN "pass" ELSE "fail", Conf, k)
           : k \in DOMAIN want}

(***************************************************************************)
(* Report control blocks. A client may have changed the attributes of one  *)
(* that is in use, except the dataset and the report id.                   *)
(***************************************************************************)
RcbKey(r) == <<r.domain, r.ln, r.name>>
InUse(v) == v.ena \/ v.resv
(* A block is read by a reference that has its FC. *)
RcbStates(dev, model) ==
    [k \in DOMAIN model.rcbs |->
        IF k \notin DOMAIN dev.rcbs THEN None ELSE IF dev.rcbs[k].buffered = model.rcbs[k].buffered THEN dev.rcbs[k] ELSE None]
RangeOfRcbs(exp) == LET rs == RcbsOf(exp) IN {rs[i] : i \in DOMAIN rs}

Masked(flags, buffered) == IF buffered THEN flags ELSE flags \ {"bufOvfl", "entryID"}
RcbChecks(exp, states) ==
    LET differs(r, v) ==
            {a \in {"DatSet", "RptID", "TrgOps", "OptFlds", "BufTm", "IntgPd"} :
                CASE a = "DatSet" -> v.dataset # (IF r.datSet = None THEN None ELSE <<r.domain, r.ln, r.datSet>>)
                  [] a = "RptID" -> r.rptId \notin {None, ""} /\ v.rptId # r.rptId
                  [] a = "TrgOps" -> v.trgOps # r.trgOps
                  [] a = "OptFlds" -> Masked(v.optFlds, r.buffered) # Masked(r.optFields, r.buffered)
                  [] a = "BufTm" -> v.bufTm # r.bufTime
                  [] a = "IntgPd" -> v.intgPd # r.intgPd}
        found == {r \in RangeOfRcbs(exp) : RcbKey(r) \in DOMAIN states}
        Same(r) == IF states[RcbKey(r)] = None THEN FALSE ELSE states[RcbKey(r)].buffered = r.buffered
        good == {r \in found : Same(r)}
        Status(r, a) == IF a \in {"DatSet", "RptID"} \/ ~InUse(states[RcbKey(r)]) THEN "fail" ELSE "warn"
    IN  All("rcb-attribute-mismatch", "fail", Conf, {RcbKey(r) : r \in RangeOfRcbs(exp) \ good})
        \cup {R("confrev-mismatch", IF states[RcbKey(r)].confRev = r.confRev THEN "pass" ELSE "fail", Conf, RcbKey(r))
                : r \in {x \in good : x.confRev # None}}
        \cup UNION {LET ds == differs(r, states[RcbKey(r)])
                    IN  IF ds = {} THEN {R("rcb-attribute-mismatch", "pass", Conf, RcbKey(r))}
                        ELSE {R("rcb-attribute-mismatch", Status(r, a), Conf, Append(RcbKey(r), a)) : a \in ds} : r \in good}

(***************************************************************************)
(* Setting groups and configured values. Of an attribute with a value for  *)
(* each group the one of the group that is active on the device counts.    *)
(***************************************************************************)
(* Seeded bug: the value of the file's own active group is expected. *)
ExpectedValueOfFile(a, active) == a.value

(* A file value that could not be parsed is compared as its text.          *)
ParseLike(value, text) ==
    LET kind == IF value = None THEN "text" ELSE value[1]
    IN  CASE kind = "bool" -> <<"bool", Lower(text) \in {"true", "1"}>>
          [] kind = "int" -> IF text \in DOMAIN Numeral THEN <<"int", Numeral[text]>> ELSE value
          [] OTHER -> <<"text", text>>
ExpectedValue(a, active) ==
    IF a.fc = "SG" /\ active \in DOMAIN a.bySg THEN ParseLike(a.value, a.bySg[active]) ELSE a.value

ValueChecks(exp, dev, model, refused) ==
    LET want == SgcbsOf(exp)
        readable == {d \in DOMAIN want : d \in model.sgcbs /\ d \in DOMAIN dev.sgcbs}
        Active(d) == IF d \in readable THEN dev.sgcbs[d].act ELSE None
        jobs == {l \in ExpLeaves(exp) : /\ l.a.fc \in ValueFcs
                                        /\ ExpectedValue(l.a, Active(l.key[1])) # None
                                        /\ KindAt(LeavesAt(model, l.key[1], l.key[2]), l.a.path, l.a.fc) \notin {None, "structure", "array"}}
        Got(l) == IF l.key[1] \in refused THEN Refused ELSE ReadLeaf(dev, l.key, l.a.path, l.a.fc)
        unreadable == {l \in jobs : Got(l) = Refused}
        different == {l \in jobs \ unreadable : Got(l) # ExpectedValue(l.a, Active(l.key[1]))}
    IN  All("config-value-mismatch", "fail", Conf, {<<d, "SGCB">> : d \in DOMAIN want \ readable})
        \cup {R("config-value-mismatch", IF dev.sgcbs[d].num = want[d].num THEN "pass" ELSE "fail", Conf, <<d, "NumOfSG">>) : d \in readable}
        \cup {R("config-value-mismatch", "info", Conf, <<d, "ActSG">>) : d \in {x \in readable : dev.sgcbs[x].act # want[x].act}}
        \cup All("config-value-mismatch", "warn", Conf, {Object(l) : l \in unreadable})
        \cup All("config-value-mismatch", "warn", Conf, {Object(l) : l \in different})
        \cup (IF jobs # {} /\ different = {} THEN {R("config-value-mismatch", "pass", Conf, <<>>)} ELSE {})

(***************************************************************************)
(* Identity, address and edition, if the identity has been read.           *)
(***************************************************************************)
IdentityChecks(exp, host, identity, scl) ==
    LET namespaces == IF identity = None THEN {} ELSE {EditionFromLdNs[ns] : ns \in identity.ldNs \cap DOMAIN EditionFromLdNs}
    IN  (IF exp.ip = None THEN {} ELSE {R("address-mismatch", IF exp.ip = host THEN "pass" ELSE "fail", Conf, <<exp.ied>>)})
        \cup (IF identity = None THEN {}
              ELSE IF exp.manufacturer = None \/ identity.vendor.value = None THEN {}
              ELSE {R("identity-disagreement", IF exp.manufacturer = identity.vendor.value THEN "pass" ELSE "warn", Conf, <<"vendor">>)})
        \cup (IF namespaces # {} /\ namespaces # {scl.edition} THEN {R("edition-mismatch", "warn", Conf, <<"edition">>)} ELSE {})

(***************************************************************************)
(* Communication: can the clients the file names have their RCBs? The      *)
(* inventory knows clients by address; an RCB may be assigned by the file. *)
(***************************************************************************)
OwnerName(inventory, ip) == IF ip \in DOMAIN inventory.clients THEN inventory.clients[ip] ELSE None
AssignedTo(exp, key) ==
    UNION {IF RcbKey(r) = key THEN {r.clients[i].ied : i \in DOMAIN r.clients} ELSE {} : r \in RangeOfRcbs(exp)}
Free(v, assigned, me) == ~v.ena /\ ~v.resv /\ v.owner = None /\ assigned \subseteq {me}

InventoryIps(inventory, client) == {ip \in DOMAIN inventory.clients : inventory.clients[ip] = client}
Available(v, w, assigned, inventory) ==
    \/ v.owner # None /\ v.owner \in {w.ip} \cup InventoryIps(inventory, w.client)
    \/ Free(v, assigned, w.client)

Relationships(rels, inventory) ==
    (IF rels = {} THEN {R("client-relationships", "info", Comm, <<>>)} ELSE {})
    \cup {R("address-mismatch", "warn", Comm, <<rel.client>>)
            : rel \in {x \in rels : x.ip # None /\ InventoryIps(inventory, x.client) # {} /\ x.ip \notin InventoryIps(inventory, x.client)}}

(* wanted: the RCBs each client is to have *)
Availability(exp, wanted, states, inventory) ==
    LET there == {w \in wanted : IF w.key \in DOMAIN states THEN states[w.key] # None ELSE FALSE}
    IN  {R("client-rcb-missing", "fail", Comm, Append(w.key, w.client)) : w \in wanted \ there}
        \cup {R("client-rcb-not-available", IF Available(states[w.key], w, AssignedTo(exp, w.key), inventory) THEN "pass" ELSE "fail", Comm,
                Append(w.key, w.client)) : w \in there}

CommunicationChecks(exp, rels, rcbs, states, inventory) ==
    Relationships(rels, inventory)
    \cup Availability(exp, UNION {{[client |-> rel.client, ip |-> rel.ip, key |-> RcbKey(rcbs[i])] : i \in rel.rcbs} : rel \in rels},
                       states, inventory)

(***************************************************************************)
(* Self-consistency, with or without a reference.                          *)
(***************************************************************************)
RcbSelfChecks(states, datasets, inventory) ==
    LET read == {k \in DOMAIN states : states[k] # None}
        Dataset(k) == IF states[k].dataset = None THEN "warn" ELSE IF states[k].dataset \in datasets THEN "pass" ELSE "fail"
        busy == {k \in read : InUse(states[k])}
        InUseId(k) == IF states[k].ena THEN "rcb-enabled-by-unknown-client" ELSE "rcb-reserved-by-unknown-client"
        Known(k) == IF ~inventory.present THEN "not-run" ELSE IF OwnerName(inventory, states[k].owner) # None THEN "pass" ELSE "warn"
    IN  All("rcb-readable", "fail", Conf, DOMAIN states \ read)
        \cup {R("rcb-dataset-missing", Dataset(k), Conf, k) : k \in read}
        \cup {R(InUseId(k), Known(k), Comm, k) : k \in busy}
        \cup All("brcb-buffer-overflow", "not-run", Comm, {k \in DOMAIN states : IF states[k] = None THEN FALSE ELSE states[k].buffered})

DatasetSelfChecks(dev, model) ==
    {R("dataset-member-unresolved",
       IF k \in DOMAIN dev.datasets /\ \A i \in DOMAIN dev.datasets[k] : Resolves(model, dev.datasets[k][i]) THEN "pass" ELSE "fail", Conf, k)
       : k \in model.datasets}

NeedsLocSta(model) == {k[1] : k \in Controllable(model)}
LacksLocSta(model) ==
    {d \in NeedsLocSta(model) : ~\E k \in DOMAIN model.lns : k[1] = d /\ "LocSta" \in DataObjects(model.lns[k])}
LocStaCheck(model, edition) ==
    LET lacking == LacksLocSta(model)
    IN  IF NeedsLocSta(model) = {} THEN {}
        ELSE IF lacking = {} THEN {R("locsta-missing", "pass", Conf, <<>>)}
        ELSE {R("locsta-missing", CASE edition = None -> "not-run" [] edition = "Ed1" -> "info" [] OTHER -> "warn", Conf, <<>>)}

SelfConsistency(dev, model, inventory, edition) ==
    RcbSelfChecks(RcbStates(dev, model), model.datasets, inventory)
    \cup DatasetSelfChecks(dev, model)
    \cup {R("writable-attribute-refused", "not-run", Conf, <<>>)}
    \cup LocStaCheck(model, edition)

(* Everything a reference file is compared with. *)
ReferenceResults(doc, exp, dev, model, inventory, identity, refused) ==
    ModelChecks(exp, model)
    \cup DatasetChecks(exp, dev, model)
    \cup RcbChecks(exp, RcbStates(dev, model))
    \cup ValueChecks(exp, dev, model, refused)
    \cup IdentityChecks(exp, dev.host, identity, SclEdition(doc, exp.ied))
    \cup CommunicationChecks(exp, ClientRelationships(doc, exp), RcbsOf(exp), RcbStates(dev, model), inventory)

(***************************************************************************)
(* Which IED of the file: the only one, the one at the device's address,   *)
(* else the first with the most logical devices of the model.              *)
(***************************************************************************)
DomainsOf(exp) == {exp.lds[j].domain : j \in DOMAIN exp.lds}
AddressOf(cap) == IF cap = None THEN None ELSE cap.ip
Most(counts) == {i \in DOMAIN counts : counts[i] > 0 /\ \A j \in DOMAIN counts : counts[j] <= counts[i]}
PickIed(doc, host, model) ==
    LET names == [i \in DOMAIN doc.ieds |-> doc.ieds[i].name]
        atHost == {i \in DOMAIN doc.ieds : AddressOf(ConnectedApOf(doc, names[i], None)) = host}
        common == [i \in DOMAIN doc.ieds |-> Cardinality(DomainsOf(ExpandServer(doc, names[i], None)) \cap model.domains)]
        best == UNION {Most(counts) : counts \in {common}}
    IN  IF Len(names) = 1 THEN names[1] ELSE First(names, IF host # None /\ atHost # {} THEN atHost ELSE best)

================================================================================
