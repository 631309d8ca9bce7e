---------------------------- MODULE ClientRelations -----------------------------
(***************************************************************************)
(* Who is a client of whom, across the IEDs of an SCL document             *)
(* (ied_client/scl/crossdoc.py): a ClientLN resolved to the client IED and *)
(* its address, and the report control blocks each client expects.         *)
(***************************************************************************)
EXTENDS SclExpand

IsClientLn(ln, c) ==
    \/ c.class = "LLN0" /\ ln.ln0
    \/ ~ln.ln0 /\ ln.class = c.class /\ ln.prefix = c.prefix /\ ln.inst = c.inst

(* The LNs of the access point itself come first, then those of its LDs;   *)
(* a ldInst restricts only the latter.                                     *)
HasClientLn(ap, c) ==
    LET lds == IF ap.server = None THEN <<>> ELSE ap.server
    IN  \/ \E i \in DOMAIN ap.lns : IsClientLn(ap.lns[i], c)
        \/ \E i \in DOMAIN lds : (c.ld = "" \/ lds[i].inst = c.ld) /\ \E j \in DOMAIN lds[i].lns : IsClientLn(lds[i].lns[j], c)

(* The access point named or holding the LN, and the address there; else   *)
(* the IED's own address.                                                  *)
ResolveClientLn(doc, c) ==
    LET ied == IedOf(doc, c.ied)
        aps == IF c.ap = None THEN ied.aps ELSE LET ap == ApOf(ied, c.ap) IN IF ap = None THEN <<>> ELSE <<ap>>
        found == First(aps, {i \in DOMAIN aps : HasClientLn(aps[i], c)})
        ap == IF found # None THEN found ELSE First(aps, DOMAIN aps)
        there == IF ap = None THEN None ELSE ConnectedApOf(doc, c.ied, ap.name)
        cap == IF there # None THEN there ELSE ConnectedApOf(doc, c.ied, None)
    IN  IF ied = None THEN [known |-> FALSE, found |-> FALSE, ip |-> None]
        ELSE [known |-> TRUE, found |-> found # None, ip |-> IF cap = None THEN None ELSE cap.ip]

(* Seeded bug: an IED is one of its clients only once. *)
ClientRelationshipsOnce(doc, exp) ==
    LET rcbs == RcbsOf(exp)
        Has(i, name) == \E k \in DOMAIN rcbs[i].clients : rcbs[i].clients[k].ied = name
        names == UNION {{rcbs[i].clients[k].ied : k \in DOMAIN rcbs[i].clients} : i \in DOMAIN rcbs}
        ClientOf(name) == LET i == CHOOSE i \in DOMAIN rcbs : Has(i, name) /\ \A j \in 1..(i - 1) : ~Has(j, name)
                          IN  [at |-> i, as |-> First(rcbs[i].clients, {k \in DOMAIN rcbs[i].clients : rcbs[i].clients[k].ied = name})]
    IN  {LET c == ClientOf(name) IN [client |-> name, known |-> ResolveClientLn(doc, c.as).known, ip |-> ResolveClientLn(doc, c.as).ip,
                                     rcbs |-> {c.at}] : name \in names}

(* One relationship for each client IED of the server; the address is that *)
(* of its first ClientLN.                                                  *)
ClientRelationships(doc, exp) ==
    LET rcbs == RcbsOf(exp)
        Has(i, name) == \E k \in DOMAIN rcbs[i].clients : rcbs[i].clients[k].ied = name
        names == UNION {{rcbs[i].clients[k].ied : k \in DOMAIN rcbs[i].clients} : i \in DOMAIN rcbs}
        FirstOf(name) == LET i == CHOOSE i \in DOMAIN rcbs : Has(i, name) /\ \A j \in 1..(i - 1) : ~Has(j, name)
                         IN  ResolveClientLn(doc, First(rcbs[i].clients, {k \in DOMAIN rcbs[i].clients : rcbs[i].clients[k].ied = name}))
    IN  {[client |-> name, known |-> FirstOf(name).known, ip |-> FirstOf(name).ip, rcbs |-> {i \in DOMAIN rcbs : Has(i, name)}]
           : name \in names}

================================================================================
