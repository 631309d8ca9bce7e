-------------------------------- MODULE Snapshots --------------------------------
(***************************************************************************)
(* snapshot and diff: a read-only capture of a device in three layers and  *)
(* the comparison of two of them (ied_client/verify/snapshot.py, diff.py). *)
(* A layer maps the sequence of names of an object to what was read there; *)
(* what cannot be read is recorded, not left out.                          *)
(***************************************************************************)
EXTENDS ReferenceChecks

ConfigFcs == {"CF", "SP", "DC", "EX", "SG"}
OperationalDos == {"Mod", "Beh", "Health", "Loc", "LocSta", "LocKey", "PhyHealth"}
Layers == {"structure", "configuration", "operational"}
Severity(layer) == CASE layer = "structure" -> "fail" [] layer = "configuration" -> "warn" [] OTHER -> "info"

LeavesIn(model) == UNION {{[key |-> k, l |-> l] : l \in model.lns[k]} : k \in DOMAIN model.lns}

(***************************************************************************)
(* Structure: the browsed tree, and what has to be read for it.            *)
(***************************************************************************)
StructureModel(model) ==
    LET leaves == LeavesIn(model)
        TypeAt(k) == (CHOOSE x \in leaves : <<"model">> \o ObjectOf(x.key, x.l) = k).l
        failed == {k \in DOMAIN model.lns : <<"type", k>> \in model.errors}
    IN  [k \in {<<"model">> \o ObjectOf(x.key, x.l) : x \in leaves} |-> <<TypeAt(k).kind, TypeAt(k).size>>]
        @@ [k \in {<<"model">> \o x : x \in failed} |-> None]
        @@ [k \in {<<"logical_nodes">> \o x : x \in DOMAIN model.lns} |-> TRUE]

RcbStructureAttrs == {"rptId", "dataset", "confRev", "optFlds", "bufTm", "trgOps", "intgPd"}
RcbOperationalAttrs == {"ena", "resv", "owner"}

(* Control blocks, under a reference that has the FC. One that cannot be   *)
(* read has its type and an error.  A reservation is a Resv in an URCB and *)
(* a ResvTms in a BRCB.                                                    *)
CaptureCbs(dev, model, faults) ==
    LET rcbs == RcbStates(dev, model)
        read == {k \in DOMAIN rcbs : rcbs[k] # None /\ <<"rcb", k>> \notin faults}
        Fc(k) == IF model.rcbs[k].buffered THEN "BR" ELSE "RP"
        At(k, a) == <<"control_blocks", k[1], k[2], Fc(k), k[3], a>>
        AtGroup(d, a) == <<"control_blocks", d, "LLN0", "SP", "SGCB", a>>
        Of(x) == rcbs[<<x[2], x[3], x[5]>>]
        groups == model.sgcbs \cap DOMAIN dev.sgcbs
        Named(k, a) == CASE a = "resv" /\ rcbs[k].buffered -> At(k, "resvTms") [] OTHER -> At(k, a)
    IN  [structure |->
            [x \in {At(k, a) : k \in read, a \in RcbStructureAttrs} |-> Of(x)[x[6]]]
            @@ [x \in {At(k, "type") : k \in DOMAIN rcbs} |-> IF x[4] = "BR" THEN "BRCB" ELSE "URCB"]
            @@ [x \in {At(k, "error") : k \in DOMAIN rcbs \ read} |-> TRUE]
            @@ [x \in {AtGroup(d, a) : d \in groups, a \in {"num", "act"}} |-> dev.sgcbs[x[2]][x[6]]]
            @@ [x \in {AtGroup(d, "type") : d \in model.sgcbs} |-> "SGCB"]
            @@ [x \in {AtGroup(d, "error") : d \in model.sgcbs \ groups} |-> TRUE],
         operational |->
            [x \in {Named(k, a) : k \in read, a \in RcbOperationalAttrs} |->
                <<"attribute", Of(x)[IF x[6] = "resvTms" THEN "resv" ELSE x[6]]>>]]

(***************************************************************************)
(* Values are read in batches, and one by one if a batch fails.            *)
(***************************************************************************)
(* Seeded bug: when a batch fails, everything in it counts as unreadable. *)
ReadManyOnce(dev, leaves, faults) ==
    [x \in leaves |-> IF <<"batch", x.key[1]>> \in faults THEN Refused ELSE ReadLeaf(dev, x.key, x.l.path, x.l.fc)]

ReadMany(dev, leaves, faults) ==
    [x \in leaves |-> IF {<<"batch", x.key[1]>>, <<"read", x.key>>} \subseteq faults THEN Refused
                      ELSE ReadLeaf(dev, x.key, x.l.path, x.l.fc)]

ByObject(values) ==
    LET At(x) == ObjectOf(x.key, x.l)
    IN  [k \in {At(x) : x \in DOMAIN values} |-> values[CHOOSE x \in DOMAIN values : At(x) = k]]

IsOperational(x) ==
    /\ x.l.fc = "ST" /\ Len(x.l.path) = 2 /\ x.l.path[2] = "stVal"
    /\ x.l.path[1] \in OperationalDos \/ (x.l.path[1] = "Sim" /\ x.key[2] = "LPHD1")

(***************************************************************************)
(* capture. The identity is read again on the way.                         *)
(***************************************************************************)
Capture(dev, model, identity, faults) ==
    LET leaves == LeavesIn(model)
        cbs == CaptureCbs(dev, model, faults)
        members == [k \in {<<"datasets">> \o x : x \in model.datasets} |->
                       LET key == Tail(k) IN IF key \in DOMAIN dev.datasets /\ <<"dataset", key>> \notin faults THEN dev.datasets[key] ELSE None]
    IN  [structure |-> StructureModel(model) @@ members @@ cbs.structure,
         configuration |-> ByObject(ReadMany(dev, {x \in leaves : x.l.fc \in ConfigFcs}, faults))
                           @@ (<<"identity", "vendor">> :> <<"text", dev.vendor>>),
         operational |-> ByObject(ReadMany(dev, {x \in leaves : IsOperational(x)}, faults)) @@ cbs.operational,
         edition |-> identity.edition]

Unreadable(snap) == Cardinality({k \in DOMAIN snap.configuration : snap.configuration[k] = Refused})
                    + Cardinality({k \in DOMAIN snap.operational : snap.operational[k] = Refused})

(***************************************************************************)
(* diff_snapshots; ignored is the set of objects the ignore file matches.  *)
(***************************************************************************)
(* Seeded bug: what was added is not looked at. *)
DiffOneWay(left, right, ignored) ==
    UNION {LET a == left[layer]
               b == right[layer]
               Changed(k) == k \notin DOMAIN b \/ (k \in DOMAIN b /\ a[k] # b[k])
           IN  {[layer |-> layer, key |-> k, change |-> IF k \in DOMAIN b THEN "changed" ELSE "removed", severity |-> Severity(layer)]
                  : k \in {x \in DOMAIN a \ ignored : Changed(x)}} : layer \in Layers}

Diff(left, right, ignored) ==
    UNION {LET a == left[layer]
               b == right[layer]
               removed == (DOMAIN a \ DOMAIN b) \ ignored
               added == (DOMAIN b \ DOMAIN a) \ ignored
               changed == {k \in (DOMAIN a \cap DOMAIN b) \ ignored : a[k] # b[k]}
               Entries(keys, change) == {[layer |-> layer, key |-> k, change |-> change, severity |-> Severity(layer)] : k \in keys}
           IN  Entries(removed, "removed") \cup Entries(added, "added") \cup Entries(changed, "changed") : layer \in Layers}

(* The results of a check against a snapshot. *)
AgainstSnapshot(snap, live, ignored) ==
    LET d == Diff(snap, live, ignored)
        Of(layer) == {e \in d : e.layer = layer}
        cat(layer) == IF layer = "operational" THEN Comm ELSE Conf
    IN  UNION {IF Of(layer) = {} THEN {R("snapshot-" \o layer, "pass", cat(layer), <<>>)}
               ELSE {R("snapshot-" \o layer, e.severity, cat(layer), e.key) : e \in Of(layer)} : layer \in Layers}
        \cup (IF snap.edition.value # live.edition.value \/ Unreadable(snap) + Unreadable(live) > 0
              THEN {R("snapshot-notes", "info", Conf, <<>>)} ELSE {})

================================================================================
