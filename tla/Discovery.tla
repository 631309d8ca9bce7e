------------------------------- MODULE Discovery -------------------------------
(***************************************************************************)
(* discover: one host at a time, a bare TCP connection, a brief            *)
(* association that reads the identity and is released, and for a host     *)
(* that told nothing the association probe, so that the draft says why     *)
(* (diagnosis/discover.py; the probes are those of diagnose).              *)
(***************************************************************************)
EXTENDS DiagnosisLadder

CONSTANT MaxHosts       \* bound: addresses in the subnet

VARIABLES
    host,       \* the address being scanned; 0 outside a scan
    subnet,     \* how many addresses the scan has
    seen,       \* DiscoveredDevice of that address
    brief,      \* the brief association: none, up, released, aborted, lost, or left open
    contacts,   \* connections made to the host's MMS port
    found       \* the addresses of the responders, in order

discoverVars == <<host, subnet, seen, brief, contacts, found>>
vars == <<probeVars, ladderVars, discoverVars>>

Unseen == [open |-> FALSE, identity |-> FALSE, names |-> FALSE, error |-> FALSE, released |-> FALSE]

DiscoverInit == host = 0 /\ subnet = 0 /\ seen = Unseen /\ brief = "none" /\ contacts = 0 /\ found = <<>>

Scanning == UNCHANGED <<icmp, link, layers, findings, stopped, verdict>>

(* scan_targets gives at least one address *)
Discover(n) ==
    /\ at = "prompt"
    /\ at' = "scan" /\ host' = 1 /\ subnet' = n /\ seen' = Unseen /\ brief' = "none" /\ contacts' = 0 /\ found' = <<>>
    /\ UNCHANGED <<tcp, tls, probeVars>> /\ Scanning

(* The end of a host: recorded if its port is open, and on to the next. *)
HostOver(device) ==
    /\ found' = IF device.open THEN Append(found, host) ELSE found
    /\ seen' = Unseen /\ brief' = "none" /\ contacts' = 0
    /\ IF host < subnet THEN at' = "scan" /\ host' = host + 1
       ELSE at' = "over" /\ host' = 0
    /\ UNCHANGED subnet

Scan(o, associate) ==
    /\ at = "scan"
    /\ tcp' = o
    /\ LET device == [seen EXCEPT !.open = (o = "accepted"), !.error = (o = "no-local-address")]
       IN  IF device.open /\ associate
           THEN /\ at' = "open"
                /\ seen' = device
                /\ contacts' = contacts + 1
                /\ UNCHANGED <<host, subnet, brief, found>>
           ELSE HostOver(device)
    /\ UNCHANGED <<tls, probeVars>> /\ Scanning

(* _associate: protocol.open *)
Open(ok) ==
    /\ at = "open"
    /\ contacts' = contacts + 1
    /\ brief' = IF ok THEN "up" ELSE "none"
    /\ seen' = [seen EXCEPT !.error = ~ok]
    /\ at' = IF ok THEN "identify" ELSE "told"
    /\ UNCHANGED <<host, subnet, found, tcp, tls, probeVars>> /\ Scanning

Lost(gone) == brief' = IF gone THEN "lost" ELSE brief

Identify(ok, gone) ==
    /\ at = "identify"
    /\ ok => brief = "up"
    /\ Lost(gone)
    /\ seen' = [seen EXCEPT !.identity = ok, !.error = @ \/ ~ok]
    /\ at' = "names"
    /\ UNCHANGED <<host, subnet, contacts, found, tcp, tls, probeVars>> /\ Scanning

(* A list without a name is no error and tells nothing. *)
LogicalDevices(answer, gone) ==
    /\ at = "names"
    /\ answer # "error" => brief = "up"
    /\ Lost(gone)
    /\ seen' = [seen EXCEPT !.names = (answer = "names"), !.error = @ \/ answer = "error"]
    /\ at' = "release"
    /\ UNCHANGED <<host, subnet, contacts, found, tcp, tls, probeVars>> /\ Scanning

(* release() has the device's answer; without one the association is       *)
(* aborted, and close() then frees what is left.                           *)
ReleaseBrief(confirmed) ==
    /\ at = "release"
    /\ confirmed => brief = "up"
    /\ brief' = CASE confirmed -> "released" [] ~confirmed /\ brief = "up" -> "aborted" [] OTHER -> brief
    /\ seen' = [seen EXCEPT !.released = confirmed]
    /\ at' = "told"
    /\ UNCHANGED <<host, subnet, contacts, found, tcp, tls, probeVars>> /\ Scanning

(* Nothing read, and an error: one more attempt, layer by layer. *)
ToldNothing == seen.error /\ ~seen.identity /\ ~seen.names

ProbeFailure ==
    /\ at = "told"
    /\ ToldNothing
    /\ at' = "probe-host"
    /\ contacts' = contacts + 1
    /\ StartAttempt
    /\ UNCHANGED <<host, subnet, seen, brief, found, tcp, tls, p, sockets>> /\ Scanning

NextHost ==
    /\ at = "told"
    /\ ~ToldNothing
    /\ HostOver(seen)
    /\ UNCHANGED <<tcp, tls, probeVars>> /\ Scanning

AttemptHost ==
    /\ at = "probe-host"
    /\ pc \notin {"done", "raised"}
    /\ AttemptStep
    /\ UNCHANGED <<at, tcp, tls, discoverVars>> /\ Scanning

(* Seeded bug: a host that does not answer the probe is probed again. *)
ClassifyHostAgain(r) ==
    /\ at = "probe-host"
    /\ pc = "done"
    /\ (r # "skipped") = (p.outcome \in TlsCheckOutcomes)
    /\ tls' = r
    /\ IF p.outcome = "initiate-no-response"
       THEN at' = "told" /\ contacts' = 0 /\ UNCHANGED <<host, subnet, seen, brief, found>>
       ELSE HostOver(seen)
    /\ pc' = "idle" /\ p' = NewProbe /\ dev' = "none"
    /\ UNCHANGED <<tcp, sockets>> /\ Scanning

(* classify_failed_association *)
ClassifyHost(r) ==
    /\ at = "probe-host"
    /\ pc = "done"
    /\ (r # "skipped") = (p.outcome \in TlsCheckOutcomes)
    /\ tls' = r
    /\ HostOver(seen)
    /\ pc' = "idle" /\ p' = NewProbe /\ dev' = "none"
    /\ UNCHANGED <<tcp, sockets>> /\ Scanning

(* What is no ServiceError ends the whole scan (Ctrl-C; a truncated ACCEPT *)
(* in the probe), and what it has found goes with it.  The finally of      *)
(* _associate closes the brief association, but one that the device has    *)
(* accepted and open has not yet returned is left.                         *)
ScanRaises ==
    /\ \/ at \in {"scan", "told"} /\ UNCHANGED <<brief, probeVars>>
       \/ at = "open" /\ brief' \in {brief, "left"} /\ UNCHANGED probeVars
       \/ /\ at \in {"identify", "names", "release"}
          /\ brief' = IF brief = "up" THEN "released" ELSE brief
          /\ UNCHANGED probeVars
       \/ at = "probe-host" /\ Unwind /\ UNCHANGED brief
    /\ at' = "over" /\ host' = 0 /\ seen' = Unseen /\ contacts' = 0 /\ found' = <<>>
    /\ UNCHANGED <<subnet, tcp, tls>> /\ Scanning

DiscoverStep ==
    \/ \E n \in 1..MaxHosts : Discover(n)
    \/ \E o \in TcpOutcomes, associate \in BOOLEAN : Scan(o, associate)
    \/ \E ok \in BOOLEAN : Open(ok)
    \/ \E ok, gone \in BOOLEAN : Identify(ok, gone)
    \/ \E answer \in {"names", "nothing", "error"}, gone \in BOOLEAN : LogicalDevices(answer, gone)
    \/ \E confirmed \in BOOLEAN : ReleaseBrief(confirmed)
    \/ ProbeFailure
    \/ NextHost
    \/ AttemptHost
    \/ \E r \in {"skipped", "tcp-timeout", "open"} : ClassifyHost(r)
    \/ ScanRaises

(* Back at the prompt, the results shown. *)
Shown ==
    /\ at = "over"
    /\ at' = "prompt"
    /\ pc' = "idle"
    /\ p' = NewProbe
    /\ dev' = "none"
    /\ icmp' = "skipped" /\ tcp' = "skipped" /\ tls' = "skipped"
    /\ layers' = <<>> /\ findings' = <<>> /\ stopped' = None /\ verdict' = NoVerdict
    /\ host' = 0 /\ subnet' = 0 /\ seen' = Unseen /\ brief' = "none" /\ contacts' = 0 /\ found' = <<>>
    /\ UNCHANGED <<sockets, link>>

Init == LadderInit /\ DiscoverInit
Next == (LadderStep /\ UNCHANGED discoverVars) \/ DiscoverStep \/ Shown

(* Requests time out and the probes have deadlines: a command that was     *)
(* begun goes on.                                                          *)
Spec == Init /\ [][Next]_vars /\ WF_vars(at # "prompt" /\ Next)

(***************************************************************************)
(* Properties                                                              *)
(***************************************************************************)
(* DIA-4 c, DIA-5: the tool takes no second slot of a device. diagnose     *)
(* probes without the shell's association; in a scan an association is     *)
(* over before the next host is contacted, a host is probed again only     *)
(* without one, and none costs more than three connections.                *)
TakesOneSlot ==
    /\ at = "attempt" => ~link
    /\ at = "scan" => brief = "none" /\ sockets = 0
    /\ at = "probe-host" => brief # "up"
    /\ contacts <= 3

(* A diagnosis and a scan of any subnet come to their end, whatever the    *)
(* devices answer.                                                         *)
CommandEnds == (at # "prompt") ~> (at = "over")
=================================================================================
