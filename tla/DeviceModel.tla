------------------------------- MODULE DeviceModel -------------------------------
(***************************************************************************)
(* The device as a client sees it, and the model the tool builds by        *)
(* browsing it (ied_client/core/model.py, refs.py, protocol/types.py).     *)
(*                                                                         *)
(* A device is a record: the leaves of each logical node (its type, with   *)
(* the value each attribute has), the members of each dataset, and the     *)
(* attributes of each control block. A node of the model is the set of     *)
(* leaves below it; it exists under every FC one of them has.              *)
(***************************************************************************)
EXTENDS ClientRelations

Refused == <<"error", "">>      \* an AccessError in place of a value

(***************************************************************************)
(* Nodes of a browsed logical node.                                        *)
(***************************************************************************)
FcsAt(leaves, path) == {l.fc : l \in {x \in leaves : IsPrefixOf(path, x.path)}}
LeafAt(leaves, path, fc) ==
    LET ls == {l \in leaves : l.path = path /\ l.fc = fc} IN IF ls = {} THEN None ELSE CHOOSE l \in ls : TRUE
DataObjects(leaves) == {l.path[1] : l \in leaves}

(***************************************************************************)
(* browse: a failed request leaves its part out and is recorded; browsing  *)
(* goes on. Control blocks come with the type of their logical node.       *)
(***************************************************************************)
Browse(dev, failing) ==
    LET named == {k \in DOMAIN dev.lns : <<"names", k[1]>> \notin failing}
        typed == {k \in named : <<"type", k>> \notin failing}
        OfTyped(f) == [k \in {x \in DOMAIN f : <<x[1], x[2]>> \in typed} |-> f[k]]
    IN  [domains |-> dev.domains,
         lns |-> [k \in named |-> IF k \in typed THEN dev.lns[k] ELSE {}],
         datasets |-> {k \in DOMAIN dev.datasets : <<"names", k[1]>> \notin failing /\ <<"datasets", k[1]>> \notin failing},
         rcbs |-> OfTyped([k \in DOMAIN dev.rcbs |-> [buffered |-> dev.rcbs[k].buffered, markers |-> dev.rcbs[k].markers]]),
         sgcbs |-> {d \in DOMAIN dev.sgcbs : <<d, "LLN0">> \in typed},
         errors |-> failing]

(***************************************************************************)
(* Looking up: resolve, resolve_fc, has.                                   *)
(***************************************************************************)
LeavesAt(model, domain, ln) == IF <<domain, ln>> \in DOMAIN model.lns THEN model.lns[<<domain, ln>>] ELSE {}
Resolves(model, m) ==
    /\ <<m.domain, m.ln>> \in DOMAIN model.lns
    /\ LET fcs == FcsAt(LeavesAt(model, m.domain, m.ln), m.path)
       IN  m.path = <<>> \/ IF m.fc = None THEN Cardinality(fcs) = 1 ELSE m.fc \in fcs

Controllable(model) ==
    {k \in DOMAIN model.lns : \E l \in model.lns[k] : Len(l.path) >= 2 /\ l.path[2] = "Oper" /\ l.fc = "CO"}

(* Attributes that only exist from Ed2 on. *)
Ed2Markers(model) ==
    \/ \E k \in DOMAIN model.rcbs : model.rcbs[k].markers # {}
    \/ \E k \in DOMAIN model.lns : "LocSta" \in DataObjects(model.lns[k])

(***************************************************************************)
(* Reading. A read of a part of a logical node is refused as a whole.      *)
(***************************************************************************)
Denied(dev, key, fc, do) == <<key[1], key[2], fc, do>> \in dev.denied
ReadLeaf(dev, key, path, fc) ==
    IF Denied(dev, key, fc, path[1]) \/ key \notin DOMAIN dev.lns THEN Refused
    ELSE LET l == LeafAt(dev.lns[key], path, fc) IN IF l = None THEN Refused ELSE l.val

(***************************************************************************)
(* The device that serves what an SCL file describes and nothing else. Of  *)
(* an attribute with a value for each group it has the active group's.     *)
(***************************************************************************)
Default(kind) ==
    CASE kind = "boolean" -> <<"bool", FALSE>> [] kind \in {"integer", "unsigned"} -> <<"int", 0>> [] OTHER -> <<"text", "">>

ServedLeaf(a, actSg) ==
    LET info == BTypeInfo(a.bType)
        ofGroup == IF a.fc = "SG" /\ actSg \in DOMAIN a.bySg THEN ParseValue(a, a.bySg[actSg]) ELSE a.value
    IN  [path |-> a.path, fc |-> a.fc, kind |-> IF a.count > 0 THEN "array" ELSE info.kind, size |-> info.size,
         val |-> IF ofGroup = None THEN Default(info.kind) ELSE ofGroup]

ServedLn(ln, actSg) == {ServedLeaf(a, actSg) : a \in LeavesOf(ln)}

ServedRcb(r) ==
    [buffered |-> r.buffered, dataset |-> IF r.datSet = None THEN None ELSE <<r.domain, r.ln, r.datSet>>,
     rptId |-> IF r.rptId \in {None, ""} THEN "default" ELSE r.rptId, confRev |-> r.confRev, trgOps |-> r.trgOps,
     optFlds |-> r.optFields, bufTm |-> r.bufTime, intgPd |-> r.intgPd,
     ena |-> FALSE, resv |-> FALSE, owner |-> None, markers |-> {}]

AllLns(exp) == UNION {{[domain |-> exp.lds[i].domain, ln |-> exp.lds[i].lns[j]] : j \in DOMAIN exp.lds[i].lns} : i \in DOMAIN exp.lds}
SgcbsOf(exp) == [d \in {x.domain : x \in {y \in AllLns(exp) : y.ln.sgcb # None}} |->
                    (CHOOSE x \in AllLns(exp) : x.domain = d /\ x.ln.sgcb # None).ln.sgcb]
DatasetsOf(exp) ==
    LET of(x) == {<<x.domain, x.ln.name, x.ln.datasets[i].name>> : i \in DOMAIN x.ln.datasets}
        MembersOf(k) == LET ln == (CHOOSE x \in AllLns(exp) : x.domain = k[1] /\ x.ln.name = k[2]).ln
                            ms == First(ln.datasets, {i \in DOMAIN ln.datasets : ln.datasets[i].name = k[3]}).members
                        IN  [i \in DOMAIN ms |-> [domain |-> ms[i].domain, ln |-> ms[i].ln, path |-> ms[i].path, fc |-> ms[i].fc]]
    IN  [k \in UNION {of(x) : x \in AllLns(exp)} |-> MembersOf(k)]

Served(exp, act) ==
    LET rcbs == RcbsOf(exp)
        lns == AllLns(exp)
        KeyOf(i) == <<rcbs[i].domain, rcbs[i].ln, rcbs[i].name>>
    IN  [domains |-> {exp.lds[i].domain : i \in DOMAIN exp.lds},
         lns |-> [k \in {<<x.domain, x.ln.name>> : x \in lns} |->
                     ServedLn((CHOOSE x \in lns : x.domain = k[1] /\ x.ln.name = k[2]).ln, act)],
         datasets |-> DatasetsOf(exp),
         rcbs |-> [k \in {KeyOf(i) : i \in DOMAIN rcbs} |-> ServedRcb(rcbs[CHOOSE i \in DOMAIN rcbs : KeyOf(i) = k])],
         sgcbs |-> [d \in DOMAIN SgcbsOf(exp) |-> [num |-> SgcbsOf(exp)[d].num, act |-> act]],
         denied |-> {}, vendor |-> exp.manufacturer, host |-> exp.ip]

================================================================================
