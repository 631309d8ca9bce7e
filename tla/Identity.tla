-------------------------------- MODULE Identity --------------------------------
(***************************************************************************)
(* Who the device is and which edition it implements                       *)
(* (ied_client/core/identity.py): every source is read, the first one that *)
(* has a field decides it, and the edition is taken from the first of the  *)
(* inventory, the SCL reference, the namespaces, the model and the         *)
(* operator that knows it.                                                 *)
(***************************************************************************)
EXTENDS DeviceModel

Attr(value, source, confidence) == [value |-> value, source |-> source, confidence |-> confidence]
UnknownAttr == Attr(None, "none", "unknown")

(* LDNS_RULES *)
EditionFromLdNs == "7-4:2003" :> "Ed1" @@ "7-4:2007A" :> "Ed2" @@ "7-4:2007B" :> "Ed2.1"
EditionRank == "Ed1" :> 1 @@ "Ed2" :> 2 @@ "Ed2.1" :> 3

(***************************************************************************)
(* Sources. LNs of class LPHD and LLN0 are known by their names.           *)
(***************************************************************************)
TextAt(dev, key, path, fc) ==
    LET v == ReadLeaf(dev, key, path, fc) IN IF v = Refused THEN None ELSE IF v[2] = "" THEN None ELSE v[2]

(* vendor and namespace of a name plate, which may be split over DC and EX *)
PlateOf(dev, model, key, do, fcs) ==
    LET present(name) == {i \in DOMAIN fcs : LeafAt(model.lns[key], <<do, name>>, fcs[i]) # None
                                             /\ ReadLeaf(dev, key, <<do, name>>, fcs[i]) # Refused}
        field(name) == IF present(name) = {} THEN None
                       ELSE TextAt(dev, key, <<do, name>>, fcs[CHOOSE i \in present(name) : \A j \in present(name) : j <= i])
    IN  [vendor |-> field("vendor"), ldNs |-> field("ldNs")]

Plates(dev, model) ==
    LET keys == {k \in DOMAIN model.lns : k[2] = "LLN0" /\ "NamPlt" \in DataObjects(model.lns[k])}
    IN  [d \in {k[1] : k \in keys} |-> PlateOf(dev, model, <<d, "LLN0">>, "NamPlt", <<"DC", "EX">>)]
PhysicalVendors(dev, model) ==
    LET keys == {k \in DOMAIN model.lns : k[2] = "LPHD1" /\ "PhyNam" \in DataObjects(model.lns[k])}
    IN  {PlateOf(dev, model, k, "PhyNam", <<"DC">>).vendor : k \in keys} \ {None}

(***************************************************************************)
(* _decide, for the vendor: identify, then PhyNam, then NamPlt.            *)
(***************************************************************************)
Decide(ident, phy, plates, override) ==
    LET nam == {plates[d].vendor : d \in DOMAIN plates} \ {None}
        said == ({ident} \ {None}) \cup phy \cup nam
        from == <<IF override # None THEN Attr(override, "inventory", "operator-supplied") ELSE None,
                  IF ident # None THEN Attr(ident, "identify", "confirmed") ELSE None,
                  IF phy # {} THEN Attr(CHOOSE v \in phy : TRUE, "LPHD.PhyNam", "confirmed") ELSE None,
                  IF nam # {} THEN Attr(CHOOSE v \in nam : TRUE, "LLN0.NamPlt", "confirmed") ELSE None,
                  UnknownAttr>>
    IN  [vendor |-> First(from, {i \in DOMAIN from : from[i] # None}), disagreements |-> Cardinality(said) > 1]

(***************************************************************************)
(* determine_edition                                                       *)
(***************************************************************************)
(* What an SCL file says: confirmed only if it says it of this very IED.   *)
SclEdition(doc, iedName) ==
    [edition |-> EditionOf(doc, IedOf(doc, iedName)),
     confirmed |-> IedOf(doc, iedName).version # None \/ Len(doc.ieds) = 1]

DetermineEdition(plates, markers, override, scl, operator) ==
    LET found == {EditionFromLdNs[plates[d].ldNs] : d \in {x \in DOMAIN plates : plates[x].ldNs \in DOMAIN EditionFromLdNs}}
        newest == CHOOSE e \in found : \A x \in found : EditionRank[x] <= EditionRank[e]
        from == <<IF override # None THEN Attr(override, "inventory", "operator-supplied") ELSE None,
                  IF scl # None THEN Attr(scl.edition, "SCL", IF scl.confirmed THEN "confirmed" ELSE "inferred") ELSE None,
                  IF found # {} /\ ~(found = {"Ed1"} /\ markers) THEN Attr(newest, "ldNs", "inferred") ELSE None,
                  IF markers THEN Attr("Ed2", "model", "inferred") ELSE None,
                  operator,
                  UnknownAttr>>
    IN  First(from, {i \in DOMAIN from : from[i] # None})

(***************************************************************************)
(* identify: session.identity is always read anew from all of them.        *)
(***************************************************************************)
(* Seeded bug: the operator's answer is not kept when the identity is read again. *)
IdentifyForgetful(dev, model, inventory, scl, operator) ==
    LET plates == Plates(dev, model)
        who == Decide(dev.vendor, PhysicalVendors(dev, model), plates, inventory.vendor)
    IN  [vendor |-> who.vendor, disagreements |-> who.disagreements, ldNs |-> {plates[d].ldNs : d \in DOMAIN plates} \ {None},
         edition |-> DetermineEdition(plates, Ed2Markers(model), inventory.edition, scl, None)]

Identify(dev, model, inventory, scl, operator) ==
    LET plates == Plates(dev, model)
        who == Decide(dev.vendor, PhysicalVendors(dev, model), plates, inventory.vendor)
    IN  [vendor |-> who.vendor, disagreements |-> who.disagreements, ldNs |-> {plates[d].ldNs : d \in DOMAIN plates} \ {None},
         edition |-> DetermineEdition(plates, Ed2Markers(model), inventory.edition, scl, operator)]

(* edition_for_check: an identity that is there is not read again; the     *)
(* operator is asked only if it says nothing and can be asked. answer None *)
(* is "don't know".                                                        *)
AsksFor(identity) == identity.edition.value = None
Answered(identity, answer) ==
    IF AsksFor(identity) /\ answer # None THEN [identity EXCEPT !.edition = Attr(answer, "operator", "operator-supplied")] ELSE identity

================================================================================
