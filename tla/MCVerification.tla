----------------------------- MODULE MCVerification ------------------------------
(* A station file with two IEDs and a device's own file with odd places.   *)
EXTENDS Verification

E(tag, at, kids) == [ns |-> SclNs, tag |-> tag, at |-> at, text |-> "", kids |-> kids]
T(tag, at, text) == [ns |-> SclNs, tag |-> tag, at |-> at, text |-> text, kids |-> <<>>]
Foreign(tag, kids) == [ns |-> "vendor", tag |-> tag, at |-> <<>>, text |-> "", kids |-> kids]
Named(tag, name, kids) == E(tag, [name |-> name], kids)

Da(name, bType, fc, vals) == E("DA", [name |-> name, bType |-> bType, fc |-> fc], vals)
DaOf(name, bType, fc, type) == E("DA", [name |-> name, bType |-> bType, fc |-> fc, type |-> type], <<>>)
DoOf(name, type) == E("DO", [name |-> name, type |-> type], <<>>)
FcdaOf(class, inst, do, da, fc) == E("FCDA", [ldInst |-> "LD0", lnClass |-> class, lnInst |-> inst, doName |-> do, daName |-> da, fc |-> fc], <<>>)
Ap(ied, ap, ip) == E("ConnectedAP", [iedName |-> ied, apName |-> ap], <<E("Address", <<>>, <<T("P", [type |-> "IP"], ip)>>)>>)
ClientAt(inst) == E("ClientLN", [iedName |-> "C", lnClass |-> "IHMI", lnInst |-> inst], <<>>)

Types(plate) ==
    E("DataTypeTemplates", <<>>,
      <<E("LNodeType", [id |-> "L0", lnClass |-> "LLN0"], <<DoOf("Mod", "ENC"), DoOf("NamPlt", "LPL")>>),
        E("LNodeType", [id |-> "LC", lnClass |-> "CSWI"], <<DoOf("Pos", "DPC"), DoOf("Set", "ASG")>>),
        E("LNodeType", [id |-> "LI", lnClass |-> "IHMI"], <<DoOf("NamPlt", "LPL")>>),
        E("DOType", [id |-> "ENC", cdc |-> "ENC"], <<DaOf("stVal", "Enum", "ST", "Beh"), Da("d", "VisString64", "DC", <<T("Val", <<>>, "mode")>>)>>),
        E("DOType", [id |-> "LPL", cdc |-> "LPL"], plate),
        E("DOType", [id |-> "DPC", cdc |-> "DPC"], <<Da("stVal", "BOOLEAN", "ST", <<>>), DaOf("Oper", "Struct", "CO", "OP")>>),
        E("DOType", [id |-> "ASG", cdc |-> "ASG"], <<DaOf("setMag", "Struct", "SG", "AV")>>),
        E("DAType", [id |-> "OP"], <<E("BDA", [name |-> "ctlVal", bType |-> "BOOLEAN"], <<>>),
                                     E("BDA", [name |-> "origin", bType |-> "Struct", type |-> "ORG"], <<>>)>>),
        E("DAType", [id |-> "AV"], <<E("BDA", [name |-> "i", bType |-> "INT32"], <<>>)>>),
        E("EnumType", [id |-> "Beh"], <<T("EnumVal", [ord |-> "1"], "on"), T("EnumVal", [ord |-> "2"], "off")>>)>>)

Station ==
    E("SCL", [version |-> "2007", revision |-> "B", release |-> "4"],
      <<E("Communication", <<>>, <<Named("SubNetwork", "N", <<Ap("A", "P1", "10.0.0.1"), Ap("C", "P", "10.0.0.2")>>)>>),
        E("IED", [name |-> "A", manufacturer |-> "ACME"],
          <<Foreign("Private", <<Foreign("Parameters", <<Foreign("P", <<>>)>>), E("IED", [name |-> "A"], <<>>)>>),
            Named("AccessPoint", "P1",
              <<E("Server", <<>>,
                <<E("LDevice", [inst |-> "LD0"],
                  <<E("LN0", [lnClass |-> "LLN0", lnType |-> "L0"],
                      <<Named("DataSet", "DS", <<FcdaOf("LLN0", "", "Mod", "stVal", "ST"), FcdaOf("CSWI", "1", "Pos", "", "ST")>>),
                        E("ReportControl", [name |-> "rcb", datSet |-> "DS", confRev |-> "1", buffered |-> "true"],
                          <<E("TrgOps", [dchg |-> "true"], <<>>), E("RptEnabled", [max |-> "2"], <<ClientAt("1"), ClientAt("2")>>)>>),
                        E("SettingControl", [numOfSGs |-> "2", actSG |-> "1"], <<>>),
                        Named("DOI", "Mod", <<E("DAI", [name |-> "stVal"], <<T("Val", <<>>, "On")>>)>>)>>),
                    E("LN", [lnClass |-> "CSWI", inst |-> "1", lnType |-> "LC"],
                      <<Named("DOI", "Set", <<Named("SDI", "setMag", <<E("DAI", [name |-> "i"],
                          <<T("Val", [sGroup |-> "1"], "1"), T("Val", [sGroup |-> "2"], "2")>>)>>)>>)>>)>>)>>)>>)>>),
        E("IED", [name |-> "C"], <<Named("AccessPoint", "P", <<E("LN", [lnClass |-> "IHMI", inst |-> "1", lnType |-> "LI"], <<>>)>>)>>),
        Types(<<Da("vendor", "VisString64", "DC", <<T("Val", <<>>, "ACME")>>), Da("ldNs", "VisString64", "EX", <<T("Val", <<>>, "7-4:2007B")>>)>>)>>)

(* One IED, an access point that points at another, a dataset member with  *)
(* an FC the object has no data of, text around skipped elements.          *)
Own ==
    [E("SCL", <<>>,
      <<E("Text", <<>>, <<E("b", <<>>, <<>>)>>),
        E("IED", [name |-> "A"],
          <<Named("AccessPoint", "P0", <<E("ServerAt", [apName |-> "P1"], <<>>)>>),
            Named("AccessPoint", "P1",
              <<E("Server", <<>>,
                <<E("LDevice", [inst |-> "LD0", ldName |-> "Bay"],
                  <<E("LN0", [lnType |-> "L0"],
                      <<Named("DataSet", "DS", <<FcdaOf("CSWI", "1", "Pos", "", "MX"), FcdaOf("CSWI", "1", "Pos", "stVal", "ST")>>),
                        Named("ReportControl", "urcb", <<>>)>>),
                    E("LN", [lnClass |-> "CSWI", inst |-> "1", lnType |-> "LC"], <<>>),
                    E("LN", [lnClass |-> "GGIO", inst |-> "1", lnType |-> "LG"], <<>>)>>)>>)>>)>>),
        Types(<<Da("vendor", "VisString64", "DC", <<>>)>>)>>) EXCEPT !.ns = NoNs]

(* No SCL file: an element of one. *)
Fragment == Named("IED", "A", <<Named("AccessPoint", "P1", <<>>)>>)

MCFiles == <<Station, Own, Fragment>>
MCDotted == <<>>
NoInventory == [present |-> FALSE, vendor |-> None, edition |-> None, clients |-> <<>>]
MCTouched == {<<"Mod", "stVal">>, <<"NamPlt", "ldNs">>, <<"Set", "setMag", "i">>}
MCInventories == {[NoInventory EXCEPT !.present = TRUE, !.clients = "10.0.0.2" :> "C"]}

================================================================================
