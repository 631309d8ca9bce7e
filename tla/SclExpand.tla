------------------------------- MODULE SclExpand -------------------------------
(***************************************************************************)
(* The server model a client will see, expanded from an SCL document       *)
(* (ied_client/scl/expand.py, expected.py, btypes.py). The data of a       *)
(* logical node is the pre-order list of its nodes: the path from the data *)
(* object down tells DOs, SDOs, attributes and sub-attributes apart, and a *)
(* node's children are the nodes one name longer.                          *)
(*                                                                         *)
(* broken collects the type references that could not be followed; strict  *)
(* expansion raises at the first of them. The other warnings are left out. *)
(***************************************************************************)
EXTENDS SclParser

Fcs == {"ST", "MX", "CO", "CF", "DC", "SP", "SG", "SE", "SV", "EX", "OR", "BL", "SR"}

BType(kind, size, val) == [kind |-> kind, size |-> size, val |-> val]
BTypes ==
    "BOOLEAN" :> BType("boolean", None, "bool") @@ "INT32" :> BType("integer", 32, "int") @@ "INT8U" :> BType("unsigned", 8, "uint")
    @@ "Enum" :> BType("integer", 8, "enum") @@ "VisString64" :> BType("visible-string", 64, "string")
    @@ "Quality" :> BType("bit-string", 13, "raw") @@ "Struct" :> BType("structure", None, "raw")
BTypeInfo(b) == IF b \in DOMAIN BTypes THEN BTypes[b] ELSE BType("unknown", None, "raw")

(***************************************************************************)
(* Configured values: parsed ones are <<kind, value>>.                     *)
(***************************************************************************)
EnumOrd(values, text) ==
    LET exact == {i \in DOMAIN values : values[i].text = text}
        folded == {i \in DOMAIN values : Lower(values[i].text) = Lower(text)}
        hits == IF exact # {} THEN exact ELSE folded
    IN  IF hits # {} THEN <<"int", values[CHOOSE i \in hits : \A j \in hits : i <= j].ord>>
        ELSE IF text \in DOMAIN Numeral THEN <<"int", Numeral[text]>>
        ELSE None

ParseValue(a, text) ==
    LET kind == BTypeInfo(a.bType).val
    IN  CASE kind = "bool" /\ Lower(text) \in {"true", "1"} -> <<"bool", TRUE>>
          [] kind = "bool" /\ Lower(text) \in {"false", "0"} -> <<"bool", FALSE>>
          [] kind \in {"int", "uint"} /\ text \in DOMAIN Numeral /\ (kind = "int" \/ Numeral[text] >= 0) -> <<"int", Numeral[text]>>
          [] kind = "enum" -> EnumOrd(a.enum, text)
          [] kind \in {"string", "raw"} -> <<"text", text>>
          [] OTHER -> None

(* A plain Val wins, else the one of the active group, else of the lowest. *)
SetValues(a, vals, source, actSg) ==
    LET plain == {i \in DOMAIN vals : vals[i].sg = None}
        groups == {vals[i].sg : i \in DOMAIN vals \ plain}
        bySg == [g \in groups |-> vals[CHOOSE i \in DOMAIN vals : vals[i].sg = g /\ \A j \in DOMAIN vals : vals[j].sg = g => j <= i].text]
        text == IF plain # {} THEN vals[CHOOSE i \in plain : \A j \in plain : i <= j].text
                ELSE IF actSg \in groups THEN bySg[actSg]
                ELSE bySg[CHOOSE g \in groups : \A h \in groups : g <= h]
    IN  [a EXCEPT !.bySg = IF groups = {} THEN @ ELSE bySg, !.source = source, !.value = ParseValue(a, text)]

(***************************************************************************)
(* Types. A type that contains itself on the way down is left out.         *)
(***************************************************************************)
Built(nodes, broken) == [nodes |-> nodes, broken |-> broken]
Join(parts) == Built(Flat([i \in DOMAIN parts |-> parts[i].nodes]), UNION {parts[i].broken : i \in DOMAIN parts})

RECURSIVE BuildDa(_, _, _, _, _)
BuildDa(t, d, fc, path, stack) ==
    LET here == Append(path, d.name)
        struct == d.bType = "Struct"
        below == IF struct THEN LET bdas == t.da[d.type]
                                IN  Join([i \in DOMAIN bdas |-> BuildDa(t, bdas[i], fc, here, stack \cup {d.type})])
                 ELSE Built(<<>>, {})
        node == [path |-> here, attr |-> TRUE, fc |-> fc, bType |-> d.bType, constructed |-> struct, count |-> d.count, cdc |-> None,
                 enum |-> IF d.bType = "Enum" THEN t.enum[d.type] ELSE <<>>, value |-> None, bySg |-> <<>>, source |-> None]
    IN  IF struct /\ d.type \notin DOMAIN t.da THEN Built(<<>>, {<<"DAType", d.type>>})
        ELSE IF struct /\ d.type \in stack THEN Built(<<>>, {<<"cycle", d.type>>})
        ELSE IF d.bType = "Enum" /\ d.type \notin DOMAIN t.enum THEN Built(<<>>, {<<"EnumType", d.type>>})
        ELSE Built(<<IF d.vals # <<>> /\ ~struct THEN SetValues(node, d.vals, "template", None) ELSE node>> \o below.nodes, below.broken)

(* A setting has a copy in the edit buffer unless the type declares it.    *)
FcsOf(dt, c) ==
    IF c.fc = "SG" /\ ~\E i \in DOMAIN dt.children : LET x == dt.children[i] IN ~x.sdo /\ x.name = c.name /\ x.fc = "SE"
    THEN <<"SG", "SE">> ELSE <<c.fc>>

RECURSIVE BuildDo(_, _, _, _, _, _)
BuildDo(t, name, type, path, count, stack) ==
    LET here == Append(path, name)
        dt == t.do[type]
        Child(c) ==
            CASE c.sdo -> BuildDo(t, c.name, c.type, here, c.count, stack \cup {type})
              [] ~c.sdo /\ c.fc = None -> Built(<<>>, {})
              [] OTHER -> LET fcs == FcsOf(dt, c) IN Join([i \in DOMAIN fcs |-> BuildDa(t, c, fcs[i], here, {})])
        below == Join([i \in DOMAIN dt.children |-> Child(dt.children[i])])
        node == [path |-> here, attr |-> FALSE, fc |-> None, bType |-> "", constructed |-> TRUE, count |-> count, cdc |-> dt.cdc,
                 enum |-> <<>>, value |-> None, bySg |-> <<>>, source |-> None]
    IN  IF type \notin DOMAIN t.do THEN Built(<<>>, {<<"DOType", type>>})
        ELSE IF type \in stack THEN Built(<<>>, {<<"cycle", type>>})
        ELSE Built(<<node>> \o below.nodes, below.broken)

(* Seeded bug: instance data goes to the first attribute of the name only. *)
ApplyEntryFirst(nodes, entry, actSg) ==
    [i \in DOMAIN nodes |->
        IF nodes[i].attr /\ nodes[i].path = entry.path /\ ~nodes[i].constructed /\ entry.vals # <<>> /\ entry.ix = None
           /\ \A j \in 1..(i - 1) : nodes[j].path # entry.path
        THEN SetValues(nodes[i], entry.vals, "instance", actSg) ELSE nodes[i]]

ApplyEntry(nodes, entry, actSg) ==
    [i \in DOMAIN nodes |->
        IF nodes[i].attr /\ nodes[i].path = entry.path /\ ~nodes[i].constructed /\ entry.vals # <<>> /\ entry.ix = None
        THEN SetValues(nodes[i], entry.vals, "instance", actSg) ELSE nodes[i]]

ApplyInstance(nodes, data, actSg) ==
    LET f[i \in 0..Len(data)] == IF i = 0 THEN nodes ELSE ApplyEntry(f[i - 1], data[i], actSg) IN f[Len(data)]

BuildLn(t, ln, actSg) ==
    LET dos == t.ln[ln.type].dos
        typed == Join([i \in DOMAIN dos |-> BuildDo(t, dos[i].name, dos[i].type, <<>>, 0, {})])
        applied[i \in 0..Len(ln.dois)] ==
            IF i = 0 THEN typed.nodes
            ELSE IF ln.dois[i].ix # None THEN applied[i - 1]
            ELSE ApplyInstance(applied[i - 1], ln.dois[i].data, actSg)
    IN  IF ln.type \in DOMAIN t.ln THEN Built(applied[Len(ln.dois)], typed.broken)
        ELSE Built(<<>>, {<<"LNodeType", ln.type>>})

(***************************************************************************)
(* Dataset members. lds is the expanded data model; problem None means the *)
(* member resolves.                                                        *)
(***************************************************************************)
IsPrefixOf(p, q) == Len(p) <= Len(q) /\ SubSeq(q, 1, Len(p)) = p
NodeAt(nodes, path) == First(nodes, {i \in DOMAIN nodes : nodes[i].path = path})
HasAttribute(nodes, path, fc) == \E i \in DOMAIN nodes : nodes[i].attr /\ nodes[i].path = path /\ nodes[i].fc = fc
HasData(nodes, path, fc) == \E i \in DOMAIN nodes : nodes[i].attr /\ IsPrefixOf(path, nodes[i].path) /\ nodes[i].fc = fc
IsDo(nodes, path) == LET n == NodeAt(nodes, path) IN n # None /\ ~n.attr

(* Seeded bug: a data object is a member whatever its data are. *)
FcdaProblemLoose(nodes, f) ==
    IF f.do = <<>> THEN "no doName"
    ELSE IF \E k \in 1..Len(f.do) : ~IsDo(nodes, SubSeq(f.do, 1, k)) THEN "no data object"
    ELSE IF \E k \in 1..Len(f.da) : ~HasAttribute(nodes, f.do \o SubSeq(f.da, 1, k), f.fc) THEN "no attribute with the FC"
    ELSE None

FcdaProblem(nodes, f) ==
    LET node == IF f.da = <<>> THEN NodeAt(nodes, f.do)
                ELSE First(nodes, {i \in DOMAIN nodes : nodes[i].attr /\ nodes[i].path = f.do \o f.da /\ nodes[i].fc = f.fc})
    IN  IF f.do = <<>> THEN "no doName"
        ELSE IF \E k \in 1..Len(f.do) : ~IsDo(nodes, SubSeq(f.do, 1, k)) THEN "no data object"
        ELSE IF \E k \in 1..Len(f.da) : ~HasAttribute(nodes, f.do \o SubSeq(f.da, 1, k), f.fc) THEN "no attribute with the FC"
        ELSE IF f.da = <<>> /\ ~HasData(nodes, f.do, f.fc) THEN "no data with the FC"
        ELSE IF f.ix # None /\ ~(0 <= f.ix /\ f.ix < node.count) THEN "ix"
        ELSE None

ResolveFcda(lds, iedName, ownLd, f) ==
    LET inst == IF f.ld = "" THEN ownLd.inst ELSE f.ld
        ld == First(lds, {i \in DOMAIN lds : lds[i].inst = inst})
        ln == IF ld = None THEN None ELSE First(ld.lns, {i \in DOMAIN ld.lns : ld.lns[i].name = f.ln})
    IN  [domain |-> IF ld = None THEN iedName \o inst ELSE ld.domain, ln |-> f.ln, path |-> f.do \o f.da, fc |-> f.fc, ix |-> f.ix,
         problem |-> CASE f.fc = "" -> "no fc"
                       [] f.fc \notin Fcs \cup {""} -> "unknown fc"
                       [] f.fc \in Fcs /\ ld = None -> "no logical device"
                       [] f.fc \in Fcs /\ ld # None /\ ln = None -> "no logical node"
                       [] OTHER -> FcdaProblem(ln.nodes, f)]

(***************************************************************************)
(* Report control blocks: instance i of an indexed block gets ClientLN i.  *)
(***************************************************************************)
TwoDigits == <<"01", "02", "03", "04">>
BrcbOnly == {"bufOvfl", "entryID"}
OptName(o) == IF o = "configRef" THEN "confRev" ELSE o

(* Seeded bug: the clients are counted from 0. *)
AssignedOffByOne(rc, indexed, i) ==
    IF ~indexed THEN rc.clients ELSE IF i > 1 /\ i - 1 <= Len(rc.clients) THEN <<rc.clients[i - 1]>> ELSE <<>>

Assigned(rc, indexed, i) ==
    IF ~indexed THEN rc.clients ELSE IF i <= Len(rc.clients) THEN <<rc.clients[i]>> ELSE <<>>

BuildRcbs(ld, ln, rc, owner) ==
    LET indexed == rc.indexed /\ rc.max > 1
    IN  [i \in 1..(IF indexed THEN rc.max ELSE 1) |->
            [domain |-> ld.domain, ln |-> ln.name, base |-> rc.name, name |-> IF indexed THEN rc.name \o TwoDigits[i] ELSE rc.name,
             buffered |-> rc.buffered, rptId |-> rc.rptId, datSet |-> rc.datSet, confRev |-> rc.confRev, bufTime |-> rc.bufTime,
             intgPd |-> rc.intgPd, trgOps |-> rc.trgOps,
             optFields |-> {OptName(o) : o \in IF rc.buffered THEN rc.optFields ELSE rc.optFields \ BrcbOnly},
             clients |-> Assigned(rc, indexed, i), owner |-> owner]]

BuildControlBlocks(lds, ied, ld, ln) ==
    [name |-> ln.name, class |-> ln.src.class, nodes |-> ln.nodes,
     datasets |-> [i \in DOMAIN ln.src.datasets |->
                     LET ds == ln.src.datasets[i]
                     IN  [name |-> ds.name, members |-> [j \in DOMAIN ds.members |-> ResolveFcda(lds, ied.name, ld, ds.members[j])]]],
     rcbs |-> Flat([i \in DOMAIN ln.src.rcs |-> BuildRcbs(ld, ln, ln.src.rcs[i], ied.owner)]),
     cbs |-> ln.src.cbs,
     sgcb |-> IF ln.src.ln0 THEN ln.src.sc ELSE None]

(***************************************************************************)
(* The server: the access point asked for, or the one it points at; the    *)
(* first LDevice of each inst; control blocks once all data are there.     *)
(***************************************************************************)
DomainName(ied, ld) == IF ld.ldName # None THEN ld.ldName ELSE ied.name \o ld.inst

RECURSIVE FollowServerAt(_, _, _)
FollowServerAt(ied, ap, seen) ==
    LET next == IF ap.serverAt = None THEN None ELSE ApOf(ied, ap.serverAt)
    IN  IF ap.server # None \/ next = None THEN ap
        ELSE IF next.name \in seen THEN ap
        ELSE FollowServerAt(ied, next, seen \cup {next.name})

NoServer == [found |-> FALSE, broken |-> {}, ied |-> None, ap |-> None, ip |-> None, edition |-> None, manufacturer |-> None, lds |-> <<>>]

ActiveGroup(ld) == IF ld.lns # <<>> /\ ld.lns[1].ln0 /\ ld.lns[1].sc # None THEN ld.lns[1].sc.act ELSE None

LdsOnce(lds) ==
    Flat([i \in DOMAIN lds |-> IF \A j \in 1..(i - 1) : lds[j].inst # lds[i].inst THEN <<lds[i]>> ELSE <<>>])

DataModel(types, ied, lds) ==
    [i \in DOMAIN lds |->
        [inst |-> lds[i].inst, domain |-> DomainName(ied, lds[i]),
         lns |-> [j \in DOMAIN lds[i].lns |->
                     LET b == BuildLn(types, lds[i].lns[j], ActiveGroup(lds[i]))
                     IN  [name |-> lds[i].lns[j].name, nodes |-> b.nodes, broken |-> b.broken, src |-> lds[i].lns[j]]]]]

ServerModel(doc, ied, asked, cap, data) ==
    [found |-> TRUE, ied |-> ied.name, ap |-> asked.name, ip |-> IF cap = None THEN None ELSE cap.ip,
     edition |-> EditionOf(doc, ied), manufacturer |-> ied.manufacturer,
     broken |-> UNION {UNION {data[i].lns[j].broken : j \in DOMAIN data[i].lns} : i \in DOMAIN data},
     lds |-> [i \in DOMAIN data |->
                [inst |-> data[i].inst, domain |-> data[i].domain,
                 lns |-> [j \in DOMAIN data[i].lns |-> BuildControlBlocks(data, ied, data[i], data[i].lns[j])]]]]

ExpandAp(doc, ied, asked, target) ==
    IF target.server = None THEN NoServer
    ELSE ServerModel(doc, ied, asked, ConnectedApOf(doc, ied.name, asked.name), DataModel(doc.types, ied, LdsOnce(target.server)))
ExpandIed(doc, ied, asked) ==
    IF asked = None THEN NoServer ELSE ExpandAp(doc, ied, asked, FollowServerAt(ied, asked, {asked.name}))
ExpandServer(doc, iedName, apName) ==
    LET ied == IedOf(doc, iedName) IN IF ied = None THEN NoServer ELSE ExpandIed(doc, ied, ApOf(ied, apName))

(***************************************************************************)
(* What the other parts read off an expanded server (expected.py).         *)
(***************************************************************************)
DosOf(ln) == {ln.nodes[i].path[1] : i \in {j \in DOMAIN ln.nodes : Len(ln.nodes[j].path) = 1 /\ ~ln.nodes[j].attr}}
LeavesOf(ln) == {ln.nodes[i] : i \in {j \in DOMAIN ln.nodes : ln.nodes[j].attr /\ ~ln.nodes[j].constructed}}
RcbsOf(exp) == Flat([i \in DOMAIN exp.lds |-> LET lns == exp.lds[i].lns IN Flat([j \in DOMAIN lns |-> lns[j].rcbs])])

================================================================================
