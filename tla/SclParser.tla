------------------------------- MODULE SclParser -------------------------------
(***************************************************************************)
(* The SCL parser (ied_client/scl/parser.py) and the document it builds    *)
(* (model.py). The XML parser calls back for every start tag, text and end *)
(* tag; what is not SCL is skipped with all it holds; the tree that is     *)
(* left becomes a document, with the defaults of the schema and a warning  *)
(* for everything odd.                                                     *)
(*                                                                         *)
(* A name is a string, a list a sequence, an absent attribute None. What   *)
(* no property tells apart (descriptions, addresses, line numbers, the     *)
(* wording of warnings) is left out; a warning is a tuple <<kind, id>>.    *)
(***************************************************************************)
EXTENDS Integers, Sequences, FiniteSets, TLC

CONSTANTS
    None,       \* no value
    Dotted      \* how the names with a dot that occur split: name -> components

SclNs == "scl"                      \* http://www.iec.ch/61850/2003/SCL
NoNs == "none"
SkippedElements == {"Private", "Text"}

(***************************************************************************)
(* Reading: r.stack holds the open elements, r.skip the depth of skipping. *)
(***************************************************************************)
NewReader == [stack |-> <<>>, skip |-> 0, root |-> None, error |-> FALSE, warned |-> {}]

(* Seeded bug: elements inside a skipped element are not counted. *)
StartElementUncounted(r, e) ==
    IF r.skip > 0 THEN r
    ELSE IF e.ns \notin {SclNs, NoNs} \/ e.tag \in SkippedElements
    THEN [r EXCEPT !.skip = 1]
    ELSE [r EXCEPT !.stack = Append(@, [tag |-> e.tag, at |-> e.at, kids |-> <<>>, text |-> ""])]

StartElement(r, e) ==
    IF r.skip > 0 THEN [r EXCEPT !.skip = @ + 1]
    ELSE IF e.ns \notin {SclNs, NoNs} \/ e.tag \in SkippedElements
    THEN IF r.stack = <<>> THEN [r EXCEPT !.error = TRUE] ELSE [r EXCEPT !.skip = 1]
    ELSE [r EXCEPT !.stack = Append(@, [tag |-> e.tag, at |-> e.at, kids |-> <<>>, text |-> ""]),
                   !.warned = IF e.ns = NoNs THEN @ \cup {<<"no-namespace", "">>} ELSE @]

(* A child joins its parent when it closes; the code appends it at once,   *)
(* which nobody can see before the end of the file.                        *)
EndElement(r) ==
    LET n == Len(r.stack)
        node == r.stack[n]
        rest == SubSeq(r.stack, 1, n - 1)
    IN  IF r.skip > 0 THEN [r EXCEPT !.skip = @ - 1]
        ELSE IF n = 1 THEN [r EXCEPT !.stack = rest, !.root = node]
        ELSE [r EXCEPT !.stack = [rest EXCEPT ![n - 1].kids = Append(@, node)]]

CharacterData(r, text) ==
    IF r.skip > 0 \/ r.stack = <<>> THEN r ELSE [r EXCEPT !.stack[Len(r.stack)].text = @ \o text]

Callback(r, e) ==
    CASE e.k = "start" -> StartElement(r, e)
      [] e.k = "text" -> CharacterData(r, e.text)
      [] e.k = "end" -> EndElement(r)

(***************************************************************************)
(* Attributes and their defaults.                                          *)
(***************************************************************************)
Get(n, name, default) == IF name \in DOMAIN n.at THEN n.at[name] ELSE default
GetOrNone(n, name) == IF Get(n, name, "") = "" THEN None ELSE Get(n, name, "")

FindAll(n, tags) ==
    LET f[i \in 0..Len(n.kids)] ==
            IF i = 0 THEN <<>> ELSE IF n.kids[i].tag \in tags THEN Append(f[i - 1], n.kids[i]) ELSE f[i - 1]
    IN  f[Len(n.kids)]
Find(n, tag) == LET found == FindAll(n, {tag}) IN IF found = <<>> THEN None ELSE found[1]

Numeral == "0" :> 0 @@ "1" :> 1 @@ "2" :> 2 @@ "3" :> 3 @@ "4" :> 4 @@ "8" :> 8 @@ "-1" :> -1
LowerCase == "True" :> "true" @@ "FALSE" :> "false" @@ "On" :> "on" @@ "OFF" :> "off"
Lower(s) == IF s \in DOMAIN LowerCase THEN LowerCase[s] ELSE s
Split(s) == IF s = "" THEN <<>> ELSE IF s \in DOMAIN Dotted THEN Dotted[s] ELSE <<s>>

IntAttr(n, name, default) == IF Get(n, name, "") \in DOMAIN Numeral THEN Numeral[n.at[name]] ELSE default
BoolAttr(n, name, default) ==
    LET v == Lower(Get(n, name, ""))
    IN  IF v \in {"true", "1"} THEN TRUE ELSE IF v \in {"false", "0"} THEN FALSE ELSE default
Flags(n, names, defaults) ==
    {x \in names : IF n = None THEN x \in defaults ELSE BoolAttr(n, x, x \in defaults)}

(* req(): the attributes an element must have. *)
Required(n, names) == {<<"no-attribute", a>> : a \in {x \in names : Get(n, x, "") = ""}}

(* An array size: a number, or the name of an attribute (not an array). *)
Count(n) == LET c == IntAttr(n, "count", 0) IN IF c < 0 THEN 0 ELSE c

Vals(n) ==
    LET vs == FindAll(n, {"Val"}) IN [i \in DOMAIN vs |-> [text |-> vs[i].text, sg |-> IntAttr(vs[i], "sGroup", None)]]

(***************************************************************************)
(* Data type templates: the first definition of an id is kept.             *)
(***************************************************************************)
DaDef(n, isBda) ==
    [sdo |-> FALSE, name |-> Get(n, "name", ""), type |-> GetOrNone(n, "type"), bType |-> Get(n, "bType", ""),
     fc |-> IF isBda THEN None ELSE GetOrNone(n, "fc"), count |-> Count(n), vals |-> Vals(n)]
SdoDef(n) ==
    [sdo |-> TRUE, name |-> Get(n, "name", ""), type |-> Get(n, "type", ""), bType |-> "", fc |-> None,
     count |-> Count(n), vals |-> <<>>]

EnumValues(n) ==
    LET vs == FindAll(n, {"EnumVal"})
        f[i \in 0..Len(vs)] ==
            IF i = 0 THEN <<>>
            ELSE LET o == IntAttr(vs[i], "ord", None)
                 IN  IF o = None \/ \E j \in DOMAIN f[i - 1] : f[i - 1][j].ord = o THEN f[i - 1]
                     ELSE Append(f[i - 1], [ord |-> o, text |-> vs[i].text])
    IN  f[Len(vs)]

Table(n, tag) ==
    LET ds == FindAll(n, {tag})
    IN  [id \in {Get(ds[i], "id", "") : i \in DOMAIN ds} |->
            ds[CHOOSE i \in DOMAIN ds : Get(ds[i], "id", "") = id /\ \A j \in 1..(i - 1) : Get(ds[j], "id", "") # id]]

LNodeType(n) ==
    LET ds == FindAll(n, {"DO"})
    IN  [class |-> Get(n, "lnClass", ""),
         dos |-> [i \in DOMAIN ds |-> [name |-> Get(ds[i], "name", ""), type |-> Get(ds[i], "type", "")]]]
DoType(n) ==
    LET cs == FindAll(n, {"DA", "SDO"})
    IN  [cdc |-> Get(n, "cdc", ""), children |-> [i \in DOMAIN cs |-> IF cs[i].tag = "DA" THEN DaDef(cs[i], FALSE) ELSE SdoDef(cs[i])]]
DaType(n) == LET cs == FindAll(n, {"BDA"}) IN [i \in DOMAIN cs |-> DaDef(cs[i], TRUE)]

NoTypes == [ln |-> <<>>, do |-> <<>>, da |-> <<>>, enum |-> <<>>]
Templates(n) ==
    IF n = None THEN NoTypes
    ELSE LET lns == Table(n, "LNodeType")
             dos == Table(n, "DOType")
             das == Table(n, "DAType")
             enums == Table(n, "EnumType")
         IN  [ln |-> [id \in DOMAIN lns |-> LNodeType(lns[id])], do |-> [id \in DOMAIN dos |-> DoType(dos[id])],
              da |-> [id \in DOMAIN das |-> DaType(das[id])], enum |-> [id \in DOMAIN enums |-> EnumValues(enums[id])]]

(***************************************************************************)
(* Instance data. A DAI becomes an entry with its path below the LN, in    *)
(* the order in which the expander will apply it: SDIs before DAIs. An SDI *)
(* of an array element (ix) is not applied, nor is anything below it.      *)
(***************************************************************************)
RECURSIVE InstanceData(_, _)
InstanceData(n, path) ==
    LET sdis == FindAll(n, {"SDI"})
        dais == FindAll(n, {"DAI"})
        below[i \in 0..Len(sdis)] ==
            IF i = 0 THEN <<>>
            ELSE below[i - 1] \o (IF IntAttr(sdis[i], "ix", None) # None THEN <<>>
                                  ELSE InstanceData(sdis[i], Append(path, Get(sdis[i], "name", ""))))
    IN  below[Len(sdis)]
        \o [i \in DOMAIN dais |-> [path |-> Append(path, Get(dais[i], "name", "")), ix |-> IntAttr(dais[i], "ix", None),
                                   vals |-> Vals(dais[i])]]

(***************************************************************************)
(* Datasets and control blocks.                                            *)
(***************************************************************************)
LnNameOf(class, prefix, inst) == IF class = "LLN0" THEN "LLN0" ELSE prefix \o class \o inst

Fcda(n) ==
    [ld |-> Get(n, "ldInst", ""), ln |-> LnNameOf(Get(n, "lnClass", ""), Get(n, "prefix", ""), Get(n, "lnInst", "")),
     do |-> Split(Get(n, "doName", "")), da |-> Split(Get(n, "daName", "")), fc |-> Get(n, "fc", ""), ix |-> IntAttr(n, "ix", None)]
DataSet(n) == LET fs == FindAll(n, {"FCDA"}) IN [name |-> Get(n, "name", ""), members |-> [i \in DOMAIN fs |-> Fcda(fs[i])]]

ClientLn(n) ==
    [ied |-> Get(n, "iedName", ""), ap |-> GetOrNone(n, "apRef"), ld |-> Get(n, "ldInst", ""), class |-> Get(n, "lnClass", ""),
     prefix |-> Get(n, "prefix", ""), inst |-> Get(n, "lnInst", "")]

ReportControl(n, is2003) ==
    LET enabled == Find(n, "RptEnabled")
        max == IF enabled = None THEN 1 ELSE IntAttr(enabled, "max", 1)
        clients == IF enabled = None THEN <<>> ELSE FindAll(enabled, {"ClientLN"})
    IN  [name |-> Get(n, "name", ""), rptId |-> Get(n, "rptID", None), datSet |-> GetOrNone(n, "datSet"),
         confRev |-> IntAttr(n, "confRev", None), buffered |-> BoolAttr(n, "buffered", FALSE), bufTime |-> IntAttr(n, "bufTime", 0),
         indexed |-> BoolAttr(n, "indexed", TRUE), intgPd |-> IntAttr(n, "intgPd", 0),
         trgOps |-> Flags(Find(n, "TrgOps"), {"dchg", "qchg", "dupd", "period", "gi"}, {"gi"}),
         optFields |-> Flags(Find(n, "OptFields"),
                             {"seqNum", "timeStamp", "dataSet", "reasonCode", "dataRef", "entryID", "configRef", "bufOvfl"},
                             IF is2003 THEN {} ELSE {"bufOvfl"}),
         max |-> IF max < 1 THEN 1 ELSE max, clients |-> [i \in DOMAIN clients |-> ClientLn(clients[i])]]

LogControl(n) ==
    [kind |-> "LCB", name |-> Get(n, "name", ""), datSet |-> GetOrNone(n, "datSet"), log |-> GetOrNone(n, "logName"),
     ld |-> GetOrNone(n, "ldInst")]
GseControl(n) == [kind |-> "GoCB", name |-> Get(n, "name", ""), datSet |-> GetOrNone(n, "datSet"), log |-> None, ld |-> None]
SvControl(n) ==
    [kind |-> IF BoolAttr(n, "multicast", TRUE) THEN "MSVCB" ELSE "USVCB", name |-> Get(n, "name", ""),
     datSet |-> GetOrNone(n, "datSet"), log |-> None, ld |-> None]
ControlBlock(n) ==
    CASE n.tag = "LogControl" -> LogControl(n) [] n.tag = "GSEControl" -> GseControl(n) [] OTHER -> SvControl(n)

(* The first SettingControl counts; actSG 0 or absent is 1. *)
SettingControl(n) ==
    LET sc == Find(n, "SettingControl")
        act == IntAttr(sc, "actSG", 1)
    IN  IF sc = None THEN None
        ELSE [num |-> IntAttr(sc, "numOfSGs", 1), act |-> IF act = 0 THEN 1 ELSE act]

(***************************************************************************)
(* IEDs, communication and the document.                                   *)
(***************************************************************************)
Ln(n, isLn0, is2003) ==
    LET dois == FindAll(n, {"DOI"})
        sets == FindAll(n, {"DataSet"})
        rcs == FindAll(n, {"ReportControl"})
        cbs == FindAll(n, {"LogControl", "GSEControl", "SampledValueControl"})
    IN  [ln0 |-> isLn0, class |-> IF isLn0 THEN "LLN0" ELSE Get(n, "lnClass", ""), type |-> Get(n, "lnType", ""),
         prefix |-> Get(n, "prefix", ""), inst |-> Get(n, "inst", ""),
         name |-> IF isLn0 THEN "LLN0" ELSE Get(n, "prefix", "") \o Get(n, "lnClass", "") \o Get(n, "inst", ""),
         dois |-> [i \in DOMAIN dois |-> [name |-> Get(dois[i], "name", ""), ix |-> IntAttr(dois[i], "ix", None),
                                          data |-> InstanceData(dois[i], <<Get(dois[i], "name", "")>>)]],
         datasets |-> [i \in DOMAIN sets |-> DataSet(sets[i])],
         rcs |-> [i \in DOMAIN rcs |-> ReportControl(rcs[i], is2003)],
         cbs |-> [i \in DOMAIN cbs |-> ControlBlock(cbs[i])],
         sc |-> SettingControl(n)]

LDevice(n, is2003) ==
    LET ln0 == Find(n, "LN0")
        lns == FindAll(n, {"LN"})
    IN  [inst |-> Get(n, "inst", ""), ldName |-> GetOrNone(n, "ldName"),
         lns |-> (IF ln0 = None THEN <<>> ELSE <<Ln(ln0, TRUE, is2003)>>) \o [i \in DOMAIN lns |-> Ln(lns[i], FALSE, is2003)]]

AccessPoint(n, is2003) ==
    LET server == Find(n, "Server")
        lds == FindAll(server, {"LDevice"})
        at == Find(n, "ServerAt")
        lns == FindAll(n, {"LN"})
    IN  [name |-> Get(n, "name", ""), server |-> IF server = None THEN None ELSE [i \in DOMAIN lds |-> LDevice(lds[i], is2003)],
         serverAt |-> IF at = None THEN None ELSE GetOrNone(at, "apName"), lns |-> [i \in DOMAIN lns |-> Ln(lns[i], FALSE, is2003)]]

Ied(n, is2003) ==
    LET aps == FindAll(n, {"AccessPoint"})
        services == Find(n, "Services")
        settings == IF services = None THEN None ELSE Find(services, "ReportSettings")
    IN  [name |-> Get(n, "name", ""), manufacturer |-> Get(n, "manufacturer", None), version |-> GetOrNone(n, "originalSclVersion"),
         revision |-> Get(n, "originalSclRevision", None), release |-> Get(n, "originalSclRelease", None),
         owner |-> settings # None /\ BoolAttr(settings, "owner", FALSE),
         aps |-> [i \in DOMAIN aps |-> AccessPoint(aps[i], is2003)]]

ConnectedAp(n) ==
    LET address == Find(n, "Address")
        ps == IF address = None THEN <<>> ELSE FindAll(address, {"P"})
        ips == {i \in DOMAIN ps : Get(ps[i], "type", "") = "IP"}
    IN  [ied |-> Get(n, "iedName", ""), ap |-> Get(n, "apName", ""),
         ip |-> IF ips = {} THEN None ELSE ps[CHOOSE i \in ips : \A j \in ips : j <= i].text]

Flat(seqs) == LET f[i \in 0..Len(seqs)] == IF i = 0 THEN <<>> ELSE f[i - 1] \o seqs[i] IN f[Len(seqs)]
Communication(root) ==
    LET nets == LET cs == FindAll(root, {"Communication"}) IN Flat([i \in DOMAIN cs |-> FindAll(cs[i], {"SubNetwork"})])
        caps == Flat([i \in DOMAIN nets |-> FindAll(nets[i], {"ConnectedAP"})])
    IN  [i \in DOMAIN caps |-> ConnectedAp(caps[i])]

(***************************************************************************)
(* Warnings: missing attributes of the templates, and types that are not   *)
(* there (check_references); an empty type is already warned about.        *)
(***************************************************************************)
RECURSIVE MissingAttributes(_)
MissingAttributes(n) ==
    (CASE n.tag \in {"LNodeType", "DOType", "DAType", "EnumType"} -> Required(n, {"id"})
       [] n.tag \in {"DO", "SDO"} -> Required(n, {"name", "type"})
       [] n.tag \in {"DA", "BDA"} -> Required(n, {"name", "bType"})
       [] n.tag = "LN" -> Required(n, {"lnClass", "lnType"})
       [] n.tag = "LN0" -> Required(n, {"lnType"})
       [] OTHER -> {})
    \cup UNION {MissingAttributes(n.kids[i]) : i \in DOMAIN n.kids}

CheckDaType(t, c) ==
    CASE c.bType = "Struct" /\ c.type = None -> {<<"no-type", "DAType">>}
      [] c.bType = "Struct" /\ c.type # None /\ c.type \notin DOMAIN t.da -> {<<"DAType", c.type>>}
      [] c.bType = "Enum" /\ c.type = None -> {<<"no-type", "EnumType">>}
      [] c.bType = "Enum" /\ c.type # None /\ c.type \notin DOMAIN t.enum -> {<<"EnumType", c.type>>}
      [] OTHER -> {}

CheckDoType(t, type) == IF type # "" /\ type \notin DOMAIN t.do THEN {<<"DOType", type>>} ELSE {}

LnsOf(ap) == ap.lns \o (IF ap.server = None THEN <<>> ELSE Flat([i \in DOMAIN ap.server |-> ap.server[i].lns]))

(* Seeded bug: the attributes of DATypes are not looked at. *)
CheckReferencesShallow(t, ieds) ==
    UNION {UNION {CheckDoType(t, t.ln[id].dos[i].type) : i \in DOMAIN t.ln[id].dos} : id \in DOMAIN t.ln}
    \cup UNION {LET cs == t.do[id].children
                IN  UNION {IF cs[i].sdo THEN CheckDoType(t, cs[i].type) ELSE CheckDaType(t, cs[i]) : i \in DOMAIN cs} : id \in DOMAIN t.do}
    \cup UNION {UNION {LET lns == LnsOf(ieds[i].aps[j])
                       IN  {<<"LNodeType", lns[k].type>> : k \in {m \in DOMAIN lns : lns[m].type # "" /\ lns[m].type \notin DOMAIN t.ln}}
                       : j \in DOMAIN ieds[i].aps} : i \in DOMAIN ieds}

CheckReferences(t, ieds) ==
    UNION {UNION {CheckDoType(t, t.ln[id].dos[i].type) : i \in DOMAIN t.ln[id].dos} : id \in DOMAIN t.ln}
    \cup UNION {LET cs == t.do[id].children
                IN  UNION {IF cs[i].sdo THEN CheckDoType(t, cs[i].type) ELSE CheckDaType(t, cs[i]) : i \in DOMAIN cs} : id \in DOMAIN t.do}
    \cup UNION {UNION {CheckDaType(t, t.da[id][i]) : i \in DOMAIN t.da[id]} : id \in DOMAIN t.da}
    \cup UNION {UNION {LET lns == LnsOf(ieds[i].aps[j])
                       IN  {<<"LNodeType", lns[k].type>> : k \in {m \in DOMAIN lns : lns[m].type # "" /\ lns[m].type \notin DOMAIN t.ln}}
                       : j \in DOMAIN ieds[i].aps} : i \in DOMAIN ieds}

(* The document; a root other than SCL is an error. *)
(* None: an SclError; the root is not SCL. *)
Document(r) ==
    LET root == r.root
        is2003 == "version" \notin DOMAIN root.at
        ieds == LET ns == FindAll(root, {"IED"}) IN [i \in DOMAIN ns |-> Ied(ns[i], is2003)]
        types == Templates(Find(root, "DataTypeTemplates"))
    IN  IF root.tag # "SCL" THEN None ELSE
        [version |-> Get(root, "version", None), revision |-> Get(root, "revision", None), release |-> Get(root, "release", None),
         caps |-> Communication(root), ieds |-> ieds, types |-> types,
         warned |-> r.warned \cup MissingAttributes(root) \cup CheckReferences(types, ieds)]

(***************************************************************************)
(* Looking things up in a document.                                        *)
(***************************************************************************)
(* The first of s at one of the places. *)
First(s, at) == IF at = {} THEN None ELSE s[CHOOSE i \in at : \A j \in at : i <= j]

IedOf(doc, name) == First(doc.ieds, {i \in DOMAIN doc.ieds : doc.ieds[i].name = name})

(* The named access point, or the first one with a server or ServerAt. *)
ApOf(ied, name) ==
    IF name # None THEN First(ied.aps, {i \in DOMAIN ied.aps : ied.aps[i].name = name})
    ELSE LET ap == First(ied.aps, {i \in DOMAIN ied.aps : ied.aps[i].server # None \/ ied.aps[i].serverAt # None})
         IN  IF ap # None THEN ap ELSE First(ied.aps, DOMAIN ied.aps)

(* With no name: the server's access point if it has an address, then any  *)
(* with an address, then the first.                                        *)
ConnectedApOf(doc, iedName, apName) ==
    LET ied == IedOf(doc, iedName)
        server == IF ied = None THEN None ELSE ApOf(ied, None)
        own == {i \in DOMAIN doc.caps : doc.caps[i].ied = iedName}
        addressed == {i \in own : doc.caps[i].ip # None}
        atServer == {i \in addressed : doc.caps[i].ap = IF server = None THEN "" ELSE server.name}
    IN  IF apName # None THEN First(doc.caps, {i \in own : doc.caps[i].ap = apName})
        ELSE First(doc.caps, IF server # None /\ atServer # {} THEN atServer ELSE IF addressed # {} THEN addressed ELSE own)

(* The IED's own schema version, when it states one, else the file's. *)
EditionOfVersion(version, revision, release) ==
    CASE version = None -> "Ed1"
      [] revision = "B" /\ release = "4" -> "Ed2.1"
      [] OTHER -> "Ed2"
EditionOf(doc, ied) ==
    IF ied.version # None THEN EditionOfVersion(ied.version, ied.revision, ied.release)
    ELSE EditionOfVersion(doc.version, doc.revision, doc.release)

================================================================================
