------------------------------ MODULE ReportStream ------------------------------
(***************************************************************************)
(* Reports as they arrive (core/reports.py, class Subscription), the       *)
(* display loop of the shell (cli/commands/reports.py) and the association *)
(* they come over (core/session.py, adapter/client.py, cli/shell.py).      *)
(*                                                                         *)
(* The connection thread decodes each report and puts it into a queue; the *)
(* main thread takes it out when a command displays reports, and computes  *)
(* from SqNum how many are missing.  With --keep the subscription outlives *)
(* its command.  The connection thread also tells the session of a lost    *)
(* association.  How the RCB is enabled and disabled is RcbSession's.      *)
(***************************************************************************)
EXTENDS Integers, Sequences, SequencesExt

CONSTANTS
    Modulus,      \* SqNum counts modulo this: 2^8 for a URCB, 2^16 for a BRCB
    MaxReports,   \* bound on the reports of the device
    MaxMissing,   \* bound on those that do not reach the queue
    Faults

FaultKinds ==
    { "loss",             \* the association is lost
      "early-loss",       \* it is lost between its opening and the registration of the listener
      "interrupt-in-display" }   \* Ctrl-C between taking a report from the queue and having displayed it

ASSUME BoundsAssumption ==
    /\ Modulus \in Nat \ {0, 1} /\ MaxReports \in Nat /\ MaxMissing \in 0..Modulus - 2
    /\ Faults \subseteq FaultKinds

VARIABLES
    \* the device: is the RCB enabled for this client, the SqNum of its last report, how many there were
    enabled, sqnum, sent,
    \* the connection: "none", "up" or "lost"; segments on their way; is the loss still to be handled
    link, wire, closing,
    \* the session: connection_lost, is it registered as a listener, is the report handler installed
    lostFlag, listening, handler,
    \* the subscription: is it in session.subscriptions; its queue, last_seq (-1: none) and gaps
    subscribed, queue, lastSeq, gaps,
    \* the report that next() has taken out of the queue and nothing has displayed yet, if there is one
    hand,
    \* the shell: at the prompt, between open and add_closed_listener, displaying, or ending a display with --keep or not
    pc, keep,
    \* ghosts: the reports displayed for this subscription, and how many never reached the queue
    shown, missing

device == <<enabled, sqnum, sent>>
net == <<link, wire, closing>>
flags == <<lostFlag, listening, handler>>
sub == <<subscribed, queue, hand, lastSeq, gaps>>
vars == <<device, net, flags, sub, pc, keep, shown, missing>>

Segments == [id : 1..MaxReports, seq : 0..Modulus - 1, part : 0..1]

TypeOK ==
    /\ enabled \in BOOLEAN /\ sqnum \in 0..Modulus - 1 /\ sent \in 0..MaxReports
    /\ link \in {"none", "up", "lost"} /\ closing \in BOOLEAN
    /\ Range(wire) \cup Range(queue) \cup Range(hand) \subseteq Segments /\ Len(hand) <= 1
    /\ lostFlag \in BOOLEAN /\ listening \in BOOLEAN /\ handler \in BOOLEAN
    /\ subscribed \in BOOLEAN /\ lastSeq \in -1..Modulus - 1 /\ gaps \in 0..MaxReports
    /\ pc \in {"prompt", "opened", "show", "end"} /\ keep \in BOOLEAN
    /\ Range(shown) \subseteq 1..MaxReports /\ missing \in 0..MaxMissing

Init ==
    /\ enabled = FALSE /\ sqnum = 0 /\ sent = 0
    /\ link = "none" /\ wire = <<>> /\ closing = FALSE
    /\ lostFlag = FALSE /\ listening = FALSE /\ handler = FALSE
    /\ subscribed = FALSE /\ queue = <<>> /\ hand = <<>> /\ lastSeq = -1 /\ gaps = 0
    /\ pc = "prompt" /\ keep = FALSE /\ shown = <<>> /\ missing = 0

-----------------------------------------------------------------------------
(* The device and the connection thread *)

(* A report in one or two segments; `lost` reports before it are counted by SqNum and never sent. *)
SendReport(lost, parts) ==
    /\ enabled /\ link = "up"
    /\ sent + lost + 1 <= MaxReports /\ missing + lost <= MaxMissing
    /\ sent' = sent + lost + 1
    /\ sqnum' = (sqnum + lost + 1) % Modulus
    /\ wire' = wire \o [n \in 1..parts |-> [id |-> sent', seq |-> sqnum', part |-> n - 1]]
    /\ missing' = missing + lost
    /\ UNCHANGED <<enabled, link, closing, flags, sub, pc, keep, shown>>

(* on_report: a report that cannot be decoded is dropped, since nothing may unwind into C. *)
Deliver ==
    /\ link = "up" /\ wire # <<>>
    /\ wire' = Tail(wire)
    /\ \/ handler /\ queue' = Append(queue, Head(wire)) /\ UNCHANGED missing
       \/ ~handler /\ UNCHANGED <<queue, missing>>
       \/ handler /\ missing < MaxMissing /\ missing' = missing + 1 /\ UNCHANGED queue
    /\ UNCHANGED <<device, link, closing, flags, subscribed, hand, lastSeq, gaps, pc, keep, shown>>

Lose ==
    /\ link = "up" /\ "loss" \in Faults
    /\ ~listening => "early-loss" \in Faults
    /\ link' = "lost" /\ wire' = <<>> /\ closing' = TRUE
    /\ enabled' = FALSE
    /\ UNCHANGED <<sqnum, sent, flags, sub, pc, keep, shown, missing>>

(* _on_closed runs the listeners there are. *)
OnClosed ==
    /\ closing
    /\ closing' = FALSE
    /\ lostFlag' = (lostFlag \/ listening)
    /\ UNCHANGED <<device, link, wire, listening, handler, sub, pc, keep, shown, missing>>

-----------------------------------------------------------------------------
(* Session.connect and disconnect *)

(* What is left of a lost association is freed first; freeing it joins its connection thread. *)
Open ==
    /\ pc = "prompt" /\ link # "up"
    /\ link' = "up" /\ wire' = <<>> /\ closing' = FALSE
    /\ listening' = FALSE /\ handler' = FALSE
    /\ pc' = "opened"
    /\ UNCHANGED <<device, lostFlag, sub, keep, shown, missing>>

(* seeded bug: connection_lost is not cleared for the new association *)
ListenStale ==
    /\ pc = "opened"
    /\ listening' = TRUE
    /\ pc' = "prompt"
    /\ UNCHANGED <<device, net, lostFlag, handler, sub, keep, shown, missing>>

Listen ==
    /\ pc = "opened"
    /\ lostFlag' = FALSE /\ listening' = TRUE
    /\ pc' = "prompt"
    /\ UNCHANGED <<device, net, handler, sub, keep, shown, missing>>

(* The cleanups disable the RCB; the subscription stays in session.subscriptions.  Releasing may run the listeners. *)
Disconnect ==
    /\ pc = "prompt" /\ link # "none"
    /\ link' = "none" /\ wire' = <<>> /\ closing' = FALSE
    /\ enabled' = FALSE /\ handler' = FALSE
    /\ lostFlag' \in {lostFlag, lostFlag \/ listening}
    /\ UNCHANGED <<sqnum, sent, listening, sub, pc, keep, shown, missing>>

-----------------------------------------------------------------------------
(* `subscribe` and its display *)

Subscribe(kept) ==
    /\ pc = "prompt" /\ link = "up" /\ ~subscribed
    /\ subscribed' = TRUE /\ queue' = <<>> /\ lastSeq' = -1 /\ gaps' = 0
    /\ handler' = TRUE /\ enabled' = TRUE
    /\ sqnum' \in {sqnum, Modulus - 1}     \* a URCB starts again at 0, a BRCB goes on
    /\ pc' = "show" /\ keep' = kept
    /\ shown' = <<>> /\ missing' = 0
    /\ UNCHANGED <<sent, net, lostFlag, listening, hand>>

(* seeded bug: a resumed display starts with an empty queue *)
ResumeAfresh(kept) ==
    /\ pc = "prompt" /\ link = "up" /\ subscribed
    /\ queue' = <<>>
    /\ pc' = "show" /\ keep' = kept
    /\ UNCHANGED <<device, net, flags, subscribed, hand, lastSeq, gaps, shown, missing>>

Resume(kept) ==
    /\ pc = "prompt" /\ link = "up" /\ subscribed
    /\ pc' = "show" /\ keep' = kept
    /\ UNCHANGED <<device, net, flags, sub, shown, missing>>

(* seeded bug: the difference is not taken modulo the width *)
GapNegative(seq) == IF lastSeq # -1 /\ seq # lastSeq THEN seq - (lastSeq + 1) ELSE 0
(* seeded bug: the width taken for the largest SqNum *)
GapOffByOne(seq) ==
    IF lastSeq # -1 /\ seq # lastSeq THEN (seq - lastSeq - 1 + Modulus - 1) % (Modulus - 1) ELSE 0

(* Reports missing before one with this SqNum; the last SqNum again is taken for a repetition. *)
Gap(seq) ==
    LET expected == (lastSeq + 1) % Modulus
    IN  IF lastSeq # -1 /\ seq \notin {expected, lastSeq} THEN (seq - expected + Modulus) % Modulus ELSE 0

(* Subscription.reports and queue.get in next: the loop has looked at connection_lost before. *)
TakeReport ==
    /\ pc = "show" /\ ~lostFlag /\ hand = <<>> /\ queue # <<>>
    /\ hand' = <<Head(queue)>> /\ queue' = Tail(queue)
    /\ UNCHANGED <<device, net, flags, subscribed, lastSeq, gaps, pc, keep, shown, missing>>

(* The rest of next, which counts by first segments only, and the body of the loop in show_reports. *)
ShowReport ==
    /\ pc = "show" /\ hand # <<>>
    /\ LET r == Head(hand) IN
        IF r.part = 0
        THEN gaps' = gaps + Gap(r.seq) /\ lastSeq' = r.seq /\ shown' = Append(shown, r.id)
        ELSE UNCHANGED <<gaps, lastSeq, shown>>
    /\ hand' = <<>>
    /\ UNCHANGED <<device, net, flags, subscribed, queue, pc, keep, missing>>

(* seeded bug: a display with --keep waits for the association to come back *)
StopsForLossLate == pc = "show" /\ hand = <<>> /\ lostFlag /\ ~keep

StopsForLoss == pc = "show" /\ hand = <<>> /\ lostFlag

(* connection_lost ends the display, whatever is queued. *)
DisplayLost ==
    /\ StopsForLoss
    /\ pc' = "end"
    /\ UNCHANGED <<device, net, flags, sub, keep, shown, missing>>

(* show_reports catches a Ctrl-C outside its loop, so one that finds a report in hand loses it: not counted, *)
(* its gap added but last_seq not moved on, or counted and not displayed.                                     *)
CutShort ==
    /\ "interrupt-in-display" \in Faults
    /\ LET r == Head(hand) IN
        \/ UNCHANGED <<gaps, lastSeq>>
        \/ r.part = 0 /\ gaps' = gaps + Gap(r.seq) /\ lastSeq' \in {lastSeq, r.seq}

(* --count and --duration end the display at the head of its loop, Ctrl-C anywhere. *)
DisplayEnds ==
    /\ pc = "show" /\ pc' = "end"
    /\ IF hand = <<>> THEN UNCHANGED <<gaps, lastSeq>> ELSE CutShort
    /\ hand' = <<>>
    /\ UNCHANGED <<device, net, flags, subscribed, queue, keep, shown, missing>>

(* Subscription.stop: the device answers after the reports it has sent, so they have been delivered. *)
Unsubscribe ==
    /\ link = "up" => wire = <<>>
    /\ enabled' = FALSE /\ handler' = FALSE /\ subscribed' = FALSE
    /\ UNCHANGED <<sqnum, sent, net, lostFlag, listening, queue, hand, lastSeq, gaps, keep, shown, missing>>

EndDisplay ==
    /\ pc = "end" /\ pc' = "prompt"
    /\ IF keep /\ ~lostFlag THEN UNCHANGED <<device, net, flags, sub, keep, shown, missing>> ELSE Unsubscribe

(* `subscribe --stop`, and check_connection before a prompt: it tells of a loss and stops what is subscribed. *)
StopKept ==
    /\ pc = "prompt" /\ subscribed /\ (link = "up" \/ lostFlag) /\ pc' = pc
    /\ Unsubscribe

-----------------------------------------------------------------------------
Next ==
    \/ \E lost \in 0..MaxMissing, parts \in 1..2 : SendReport(lost, parts)
    \/ Deliver \/ Lose \/ OnClosed
    \/ Open \/ Listen \/ Disconnect
    \/ \E kept \in BOOLEAN : Subscribe(kept) \/ Resume(kept)
    \/ TakeReport \/ ShowReport \/ DisplayLost \/ DisplayEnds \/ EndDisplay \/ StopKept

(* The two threads run.  Nothing makes a display end but a loss. *)
Spec ==
    /\ Init /\ [][Next]_vars
    /\ WF_vars(Deliver) /\ WF_vars(OnClosed)
    /\ WF_vars(TakeReport) /\ WF_vars(ShowReport) /\ WF_vars(DisplayLost) /\ WF_vars(EndDisplay)

-----------------------------------------------------------------------------
(* Properties *)

(* RPT-2: reports are displayed in the order of the device, and the gaps flagged count exactly those between them     *)
(* that were not, across the wrap of SqNum, segments, a kept queue and repeated displays.  Holds while fewer than     *)
(* Modulus - 1 are missing in a row (BoundsAssumption): that many look like a repetition; and unless a Ctrl-C comes   *)
(* between next() and the printed line ("interrupt-in-display"), which loses a counted report without a word.         *)
GapsAreTrue ==
    shown # <<>> => /\ \A n \in 1..Len(shown) - 1 : shown[n] < shown[n + 1]
                    /\ gaps = Last(shown) - shown[1] + 1 - Len(shown)

(* What the tool has received and not yet displayed: the report taken out of the queue, and the queue. *)
Held == hand \o queue

(* RPT-2: what has been received is displayed or stays to be displayed: a subscription kept without a display, one   *)
(* that is resumed, and a display ended by a loss, a count or a Ctrl-C while it waits drop none.  A Ctrl-C between    *)
(* queue.get and the printed line does ("interrupt-in-display").                                                     *)
NothingDropped ==
    [][ subscribed /\ subscribed' =>
            \/ IsPrefix(Held, Held')
            \/ Held' = Tail(Held) /\ (Head(Held).part = 0 => Head(Held).id \in Range(shown')) ]_vars

(* RPT-7: connection_lost says whether the association was lost, once the connection thread has run its listeners. *)
LossIsKnown == pc # "opened" /\ ~closing /\ link # "none" => (lostFlag <=> link = "lost")

(* What is behind it: only an association whose listener is registered is lost, and the flag is clear until then. *)
LossInv ==
    /\ pc = "opened" => link = "up" /\ ~closing /\ ~listening
    /\ pc # "opened" /\ link = "up" => listening /\ ~lostFlag /\ ~closing
    /\ link = "lost" => listening /\ (closing \/ lostFlag)
    /\ closing => link = "lost"

(* Behind the gaps. What is on its way to the display, in order, and the reports in it: their first segments. *)
Pending == Held \o wire
Heads(s) == {r \in {s[n] : n \in 1..Len(s)} : r.part = 0}
Ids(s) == {r.id : r \in Heads(s)}
InOrder(s) == \A m, n \in 1..Len(s) : m < n /\ s[m].part = 0 /\ s[n].part = 0 => s[m].id < s[n].id

(* The last report displayed, and the device's last one while more can follow it, as far as the numbers go. *)
LastShown == IF shown = <<>> THEN {} ELSE {[id |-> Last(shown), seq |-> lastSeq]}
LastSent == IF enabled THEN {[id |-> sent, seq |-> sqnum]} ELSE {}
Stamps == LastShown \cup {[id |-> r.id, seq |-> r.seq] : r \in Heads(Pending)} \cup LastSent

(* SqNum keeps count of the reports. *)
KeepsCount(a, b) == b.seq = (a.seq + (b.id - a.id)) % Modulus

(* Reports are enabled for a subscription, and under way only while they are. *)
StreamInv ==
    /\ enabled => subscribed /\ handler /\ link = "up"
    /\ wire # <<>> => enabled
    /\ hand # <<>> => pc = "show"

OrderInv ==
    /\ InOrder(Pending)
    /\ \A i \in Ids(Pending) : i <= sent /\ \A s \in LastShown : s.id < i
    /\ \A s \in LastShown : s.id <= sent
    /\ (lastSeq = -1 <=> shown = <<>>) /\ (shown = <<>> => gaps = 0)

NumberInv == \A a, b \in Stamps : a.id <= b.id => KeepsCount(a, b)

(* Between two reports that are displayed or may yet be, at most as many have been lost as are missing. *)
Absent(a, b) == (a + 1..b - 1) \ Ids(Pending)
From == {s.id : s \in LastShown} \cup Ids(Pending)
Until == Ids(Pending) \cup (IF enabled THEN {sent + 1} ELSE {})
MissingInv == \A a \in From, b \in Until : Cardinality(Absent(a, b)) <= missing

GapInv == StreamInv /\ OrderInv /\ NumberInv /\ MissingInv /\ GapsAreTrue

(* A lost association ends the display, and with it the command. *)
LossEndsDisplay == pc = "show" /\ link = "lost" ~> pc = "prompt"

(* "`subscribe <rcb>` enables and displays reports" (RPT-2). *)
DisplayedIsEnabled == pc = "show" /\ link = "up" => enabled
===============================================================================
