------------------------------- MODULE Verification -------------------------------
(***************************************************************************)
(* Verifying a device: an SCL file is read callback by callback, the       *)
(* device it describes is expanded from it, and the commands of a shell    *)
(* session (info, check, snapshot, ls --refresh, a new session) read a     *)
(* device that serves the file, or that differs from it in one way.        *)
(* (ied_client/cli/commands/verification.py, verify/checks.py run_checks,  *)
(* core/session.py)                                                        *)
(***************************************************************************)
EXTENDS Snapshots

CONSTANTS
    Files,          \* the files: a tuple of root elements [ns, tag, at, text, kids]
    Subject,        \* the IED the device is
    Inventories,    \* the inventories a session may start with
    Touched,        \* the paths of the attributes a change of the device may concern
    Interactive,    \* whether the operator can be asked
    MaxCommands     \* bound on the commands of a run

VARIABLES
    file, pos, reader,  \* the file, how many of its callbacks were made, SclReader
    doc, exp,       \* SclDocument; the ExpectedServer of Subject
    dev, changed,   \* the device, and whether it was changed
    done,           \* how many commands were given
    model, fresh,   \* Session._model, and whether it is how the device is
    identity, operatorEdition, reference,   \* of the Session; reference is the edition it states
    inventory,      \* the inventory file, which outlives sessions
    report,         \* what the last command, a check, reported of which device
    saved           \* the snapshot saved, with the device it was taken of

fileVars == <<file, pos, reader, doc, exp>>
vars == <<fileVars, dev, changed, done, model, fresh, identity, operatorEdition, reference, inventory, report, saved>>

(***************************************************************************)
(* Reading the file.                                                       *)
(***************************************************************************)
RECURSIVE Events(_)
Events(e) ==
    LET below[i \in 0..Len(e.kids)] == IF i = 0 THEN <<>> ELSE below[i - 1] \o Events(e.kids[i])
    IN  <<[k |-> "start", ns |-> e.ns, tag |-> e.tag, at |-> e.at], [k |-> "text", text |-> e.text]>>
        \o below[Len(e.kids)] \o <<[k |-> "end"]>>
Script == [f \in DOMAIN Files |-> Events(Files[f])]

Init ==
    /\ file \in DOMAIN Files /\ pos = 0 /\ reader = NewReader /\ doc = None /\ exp = None
    /\ dev = None /\ changed = FALSE /\ done = 0
    /\ model = None /\ fresh = FALSE /\ identity = None /\ operatorEdition = None /\ reference = None
    /\ inventory \in Inventories
    /\ report = None /\ saved = None

ReadOn ==
    /\ pos < Len(Script[file])
    /\ pos' = pos + 1
    /\ reader' = Callback(reader, Script[file][pos + 1])
    /\ UNCHANGED <<file, doc, exp, dev, changed, done, model, fresh, identity, operatorEdition, reference, inventory, report, saved>>

(* The end of the file; then the device of the model is put into service.  *)
Load ==
    /\ pos = Len(Script[file]) /\ doc = None
    /\ doc' = Document(reader)
    /\ exp' = IF doc' = None THEN None ELSE ExpandServer(doc', Subject, None)
    /\ UNCHANGED <<file, pos, reader, dev, changed, done, model, fresh, identity, operatorEdition, reference, inventory, report, saved>>

Install ==
    /\ doc # None /\ dev = None
    /\ dev' = Served(exp, 1)
    /\ reader' = NewReader
    /\ UNCHANGED <<file, pos, doc, exp, changed, done, model, fresh, identity, operatorEdition, reference, inventory, report, saved>>

(***************************************************************************)
(* The device is changed, once, in one way.                                *)
(***************************************************************************)
OtherValue(v) == CASE v[1] = "bool" -> <<"bool", ~v[2]>> [] v[1] = "int" -> <<"int", 7>> [] OTHER -> <<"text", "other">>
WithoutKey(f, k) == [x \in DOMAIN f \ {k} |-> f[x]]
OtherLeaf(l) ==
    {[l EXCEPT !.fc = IF l.fc = "ST" THEN "MX" ELSE "ST"], [l EXCEPT !.kind = "octet-string"], [l EXCEPT !.size = 1],
     [l EXCEPT !.val = OtherValue(@)]}
LnChanges(d, k) ==
  LET touched == {l \in d.lns[k] : l.path \in Touched}
  IN
    {[d EXCEPT !.lns = WithoutKey(@, k)]}
    \cup {[d EXCEPT !.lns[k] = {l \in @ : l.path[1] # do}] : do \in DataObjects(d.lns[k])}
    \cup {[d EXCEPT !.lns[k] = @ \ {l}] : l \in touched}
    \cup UNION {{[d EXCEPT !.lns[k] = (@ \ {l}) \cup {x}] : x \in OtherLeaf(l)} : l \in touched}
    \cup {[d EXCEPT !.lns[k] = @ \cup {[path |-> <<"Spare", "stVal">>, fc |-> "ST", kind |-> "boolean", size |-> None, val |-> <<"bool", TRUE>>]}]}
    \cup {[d EXCEPT !.denied = {<<k[1], k[2], l.fc, l.path[1]>>}] : l \in {x \in touched : x.fc \in ConfigFcs}}
DatasetChanges(d, k) ==
    LET ms == d.datasets[k]
    IN  {[d EXCEPT !.datasets = WithoutKey(@, k)]}
        \cup (IF ms = <<>> THEN {} ELSE {[d EXCEPT !.datasets[k] = Tail(ms)], [d EXCEPT !.datasets[k] = Append(Tail(ms), ms[1])]})
RcbChanges(d, k) ==
    {[d EXCEPT !.rcbs = WithoutKey(@, k)], [d EXCEPT !.rcbs[k].confRev = 8], [d EXCEPT !.rcbs[k].dataset = None],
     [d EXCEPT !.rcbs[k].trgOps = {"period"}], [d EXCEPT !.rcbs[k].buffered = ~@], [d EXCEPT !.rcbs[k].markers = {"Owner"}],
     [d EXCEPT !.rcbs[k].ena = TRUE], [d EXCEPT !.rcbs[k].ena = TRUE, !.rcbs[k].owner = "10.0.0.2", !.rcbs[k].bufTm = 8],
     [d EXCEPT !.rcbs[k].resv = TRUE, !.rcbs[k].owner = "10.0.0.9", !.rcbs[k].rptId = "mine"]}
OtherChanges(d) ==
    {[d EXCEPT !.domains = @ \cup {"SpareLD"}, !.lns = @ @@ (<<"SpareLD", "LLN0">> :> {})], [d EXCEPT !.host = "10.0.0.8"], [d EXCEPT !.vendor = "Other"], [d EXCEPT !.vendor = None]}
    \cup {[d EXCEPT !.sgcbs[x].num = 8] : x \in DOMAIN d.sgcbs}
    \cup (IF DOMAIN d.sgcbs = {} THEN {} ELSE {Served(exp, 2)})

Change ==
    /\ dev # None /\ ~changed /\ done < MaxCommands
    /\ changed' = TRUE
    /\ dev' \in UNION {LnChanges(dev, k) : k \in DOMAIN dev.lns} \cup UNION {DatasetChanges(dev, k) : k \in DOMAIN dev.datasets}
                \cup UNION {RcbChanges(dev, k) : k \in DOMAIN dev.rcbs} \cup OtherChanges(dev)
    /\ fresh' = FALSE
    /\ report' = None
    /\ UNCHANGED <<fileVars, done, model, identity, operatorEdition, reference, inventory, saved>>

(***************************************************************************)
(* Commands. The model is browsed once for a session.                      *)
(***************************************************************************)
Command ==
    /\ dev # None /\ done < MaxCommands
    /\ done' = done + 1
    /\ UNCHANGED <<fileVars, dev, changed>>

EnsureModel ==
    /\ model' = IF model = None THEN Browse(dev, {}) ELSE model
    /\ fresh' = (fresh \/ model = None)

EditionStated(kind) == IF kind = "scl" THEN SclEdition(doc, Subject) ELSE None

Refresh(failing) ==
    /\ Command
    /\ model # None
    /\ model' = Browse(dev, failing) /\ fresh' = (failing = {})
    /\ report' = None
    /\ UNCHANGED <<identity, operatorEdition, reference, inventory, saved>>

Info ==
    /\ Command /\ EnsureModel
    /\ identity' = Identify(dev, model', inventory, reference, operatorEdition)
    /\ report' = None
    /\ UNCHANGED <<operatorEdition, reference, inventory, saved>>

TakeSnapshot ==
    /\ Command /\ EnsureModel
    /\ saved = None
    /\ identity' = Identify(dev, model', inventory, reference, operatorEdition)
    /\ saved' = [snap |-> Capture(dev, model', identity', {}), dev |-> dev, fresh |-> fresh']
    /\ report' = None
    /\ UNCHANGED <<operatorEdition, reference, inventory>>

(* run_checks: the reference first, as the session's; self-consistency,    *)
(* which may need the edition and ask for it; then the reference itself.   *)
(* refused are the domains whose values cannot be read in one request.     *)
Asks(read) == NeedsLocSta(model') # {} /\ AsksFor(read) /\ Interactive

RunChecks(kind, answer, save, refused, read, server) ==
    \E told \in {IF Asks(read) THEN Answered(read, answer) ELSE read} :
        /\ answer # None => Asks(read)
        /\ operatorEdition' = IF answer # None THEN told.edition ELSE operatorEdition
        /\ inventory' = IF save THEN [inventory EXCEPT !.edition = answer] ELSE inventory
        /\ identity' = IF kind = "snapshot" THEN Identify(dev, model', inventory', None, operatorEdition') ELSE told
        /\ \E results \in {SelfConsistency(dev, model', inventory', IF told = None THEN None ELSE told.edition.value) \cup
                CASE kind = "none" -> {R("reference", "not-run", Conf, <<>>)}
                  [] kind = "scl" -> ReferenceResults(doc, server, dev, model', inventory', told, refused)
                  [] kind = "snapshot" ->
                        AgainstSnapshot(saved.snap, Capture(dev, model', identity', {<<"batch", d>> : d \in refused}), {})} :
            report' = [kind |-> kind, asked |-> Asks(read), refused |-> refused, results |-> results, passes |-> DevicePasses(results)]

Check(kind, answer, save, refused) ==
    /\ Command /\ EnsureModel
    /\ kind = "snapshot" => saved # None
    /\ kind = "none" => refused = {}
    /\ save => answer # None /\ inventory.present
    /\ reference' = EditionStated(kind)
    /\ \E ied \in {IF kind = "scl" THEN PickIed(doc, dev.host, model') ELSE Subject} : \E server \in {IF ied = exp.ied THEN exp ELSE ExpandServer(doc, ied, None)} :
       \E read \in {IF identity # None \/ NeedsLocSta(model') = {} THEN identity
                    ELSE Identify(dev, model', inventory, reference', operatorEdition)} :
            ied # None /\ RunChecks(kind, answer, save, refused, read, server)
    /\ UNCHANGED saved

NewSession ==
    /\ Command
    /\ model # None
    /\ model' = None /\ fresh' = FALSE /\ identity' = None /\ operatorEdition' = None /\ reference' = None
    /\ report' = None
    /\ UNCHANGED <<inventory, saved>>

Next ==
    \/ ReadOn \/ Load \/ Install \/ Change \/ Info \/ TakeSnapshot \/ NewSession
    \/ \E failing \in {{}} \cup (IF dev = None THEN {} ELSE {{<<"type", <<d, "LLN0">>>>} : d \in dev.domains}) : Refresh(failing)
    \/ \E kind \in {"none", "scl", "snapshot"}, answer \in {None, "Ed1"}, save \in BOOLEAN,
         refused \in IF dev = None THEN {{}} ELSE {{}, dev.domains} : Check(kind, answer, save, refused)

Spec == Init /\ [][Next]_vars

(***************************************************************************)
(* Properties of a file that has just been read.                           *)
(***************************************************************************)
JustRead == doc # None /\ dev = None

(* The tree read is the file's without foreign and skipped elements and    *)
(* all that is in them, however deep they are nested (StartElement,        *)
(* EndElement of parser.py).                                               *)
RECURSIVE Kept(_)
Kept(e) ==
    LET kids == SelectSeq(e.kids, LAMBDA x : x.ns \in {SclNs, NoNs} /\ x.tag \notin SkippedElements)
    IN  [tag |-> e.tag, at |-> e.at, kids |-> [i \in DOMAIN kids |-> Kept(kids[i])], text |-> e.text]
NothingForeignIsRead == JustRead => reader.root = Kept(Files[file])

(* A type the expansion could not follow was warned about when the file    *)
(* was parsed: check_references looks wherever expand.py will (cycles and  *)
(* empty ids have warnings of their own).                                  *)
BrokenWasAnnounced ==
    JustRead => \A b \in exp.broken : b[1] = "cycle" \/ b[2] \in {None, ""} \/ b \in doc.warned

(* Each setting has its twin in the edit buffer, with the values the file  *)
(* configures for it (expand.py: _fcs, _apply_instance).                   *)
EditBufferMirrors ==
    JustRead => \A x \in ExpLns(exp) : \A a \in LeavesOf(x.ln) :
        a.fc = "SG" => \E b \in LeavesOf(x.ln) : b = [a EXCEPT !.fc = "SE"]

(* A client IED has as many report control blocks as ClientLNs name it     *)
(* (blocks are indexed, with an instance for each): none is lost between   *)
(* the file's lists and who is told which blocks are its own (expand.py,   *)
(* crossdoc.py).                                                           *)
SourceBlocks ==
    UNION {UNION {{<<i, j, k>> : k \in DOMAIN IedOf(doc, Subject).aps[1].server[i].lns[j].rcs}
                  : j \in DOMAIN IedOf(doc, Subject).aps[1].server[i].lns} : i \in DOMAIN IedOf(doc, Subject).aps[1].server}
EveryClientHasItsInstance ==
    JustRead /\ IedOf(doc, Subject).aps[1].server # None =>
        LET lds == IedOf(doc, Subject).aps[1].server
            Clients(b) == lds[b[1]].lns[b[2]].rcs[b[3]].clients
            naming(name) == UNION {{Append(b, m) : m \in {n \in DOMAIN Clients(b) : Clients(b)[n].ied = name}} : b \in SourceBlocks}
            names == UNION {{Clients(b)[m].ied : m \in DOMAIN Clients(b)} : b \in SourceBlocks}
        IN  names = {rel.client : rel \in ClientRelationships(doc, exp)}
            /\ \A rel \in ClientRelationships(doc, exp) : Cardinality(rel.rcbs) = Cardinality(naming(rel.client))

(* The file and the device agree on which dataset members there are: what  *)
(* expand.py resolves in the file, model.py resolves on a device that      *)
(* serves the file, and nothing else.                                      *)
ResolvedMembersAreServed ==
    JustRead => LET there == Browse(Served(exp, 1), {})
                IN  \A x \in AllLns(exp) : \A i \in DOMAIN x.ln.datasets :
                        LET ms == x.ln.datasets[i].members
                        IN  \A j \in DOMAIN ms : (ms[j].problem = None) <=> Resolves(there, ms[j])

(***************************************************************************)
(* Properties of a check.                                                  *)
(***************************************************************************)
SelfIds == {"rcb-readable", "rcb-dataset-missing", "dataset-member-unresolved", "rcb-enabled-by-unknown-client",
            "rcb-reserved-by-unknown-client", "brcb-buffer-overflow", "writable-attribute-refused", "locsta-missing"}
Complaints(results, cats) == {r \in results : r.id \notin SelfIds /\ r.cat \in cats /\ r.status \in {"fail", "warn"}}

(* What the device has of what the file says, as a device would: left out  *)
(* are the values of attributes the file gives none, the size of an        *)
(* enumerated one, and what the device has besides, below an object.       *)
Configured(exp1) == {<<l.key, l.a.path, l.a.fc>> : l \in {x \in ExpLeaves(exp1) : x.a.fc \in ValueFcs /\ x.a.value # None}}
Shape(d, named, valued) ==
    [domains |-> d.domains, lns |-> DOMAIN d.lns, objects |-> [k \in DOMAIN d.lns |-> DataObjects(d.lns[k])],
     types |-> {<<k[1], k[2], KindAt(LeavesAt(d, k[1][1], k[1][2]), k[2], k[3])>> : k \in named},
     values |-> [k \in valued |-> ReadLeaf(d, k[1], k[2], k[3])]]
Differs(d) ==
    LET s == Served(exp, IF DOMAIN d.sgcbs = {} THEN 1 ELSE d.sgcbs[CHOOSE x \in DOMAIN d.sgcbs : TRUE].act)
        named == {<<l.key, l.a.path, l.a.fc>> : l \in ExpLeaves(exp)}
        Hidden(r) == [r EXCEPT !.ena = FALSE, !.resv = FALSE, !.owner = None, !.markers = {}, !.rptId = None]
    IN  \/ Shape(d, named, Configured(exp)) # Shape(s, named, Configured(exp))
        \/ \E k \in DOMAIN s.datasets : k \notin DOMAIN d.datasets \/ d.datasets # s.datasets
        \/ \E k \in DOMAIN s.rcbs : k \notin DOMAIN d.rcbs \/ Hidden(d.rcbs[k]) # Hidden([s.rcbs[k] EXCEPT !.confRev = IF @ = None THEN d.rcbs[k].confRev ELSE @])
        \/ \E x \in DOMAIN s.sgcbs : d.sgcbs[x].num # s.sgcbs[x].num
        \/ exp.ip \notin {None, d.host}


(* A check against a snapshot complains exactly when the device is not as  *)
(* it was then, its state in operation aside (of a report control block:   *)
(* whether it is enabled or reserved, and by whom; which of these it has   *)
(* is no part of the browsed tree); also when values have to be read one   *)
(* by one (snapshot.py, diff.py).                                          *)
Covered(d) ==
    [types |-> [k \in DOMAIN d.lns |-> {<<l.path, l.fc, l.kind, l.size>> : l \in d.lns[k]}],
     values |-> [k \in DOMAIN d.lns |-> {<<l.path, l.fc, ReadLeaf(d, k, l.path, l.fc)>> : l \in {x \in d.lns[k] : x.fc \in ConfigFcs}}],
     datasets |-> d.datasets, sgcbs |-> d.sgcbs, vendor |-> d.vendor,
     rcbs |-> [k \in DOMAIN d.rcbs |-> [d.rcbs[k] EXCEPT !.ena = FALSE, !.resv = FALSE, !.owner = None, !.markers = {}]]]
SnapshotTellsThemApart ==
    report # None /\ fresh /\ report.kind = "snapshot" /\ saved.fresh =>
        ((Complaints(report.results, {Conf, Comm}) = {}) <=> (Covered(saved.dev) = Covered(dev)))

(* The operator is not asked for the edition twice: not again in a session *)
(* where it was answered, nor ever once it is in the inventory (checks.py, *)
(* edition_for_check; IDN-6).                                              *)
AsksOnce ==
    [][report' # None /\ done' # done => (report'.asked => operatorEdition = None /\ inventory.edition = None)]_vars


================================================================================
