---------------------------- MODULE ReportStreamProofs ----------------------------
(***************************************************************************)
(* Proofs about ReportStream, for any width of SqNum and any number of     *)
(* reports.                                                                *)
(***************************************************************************)
EXTENDS ReportStream, FiniteSetTheorems, SequenceTheorems, TLAPS

(* An association is never lost before its listener is registered: the assumption under which the flag is true. *)
ListenedTo == "early-loss" \notin Faults

(* No Ctrl-C comes between taking a report from the queue and having displayed it. *)
Uninterrupted == "interrupt-in-display" \notin Faults

(* Whatever else happens, the type of what says that the association is lost. *)
LinkTypes ==
    /\ link \in {"none", "up", "lost"} /\ closing \in BOOLEAN /\ lostFlag \in BOOLEAN /\ listening \in BOOLEAN
    /\ pc \in {"prompt", "opened", "show", "end"}

LEMMA LossStep ==
    ASSUME ListenedTo, LinkTypes, LossInv, [Next]_vars
    PROVE  (LinkTypes /\ LossInv)'
<1> USE DEF LinkTypes, LossInv, ListenedTo, net, flags
<1>1. CASE \E lost \in 0..MaxMissing, parts \in 1..2 : SendReport(lost, parts)
  BY <1>1 DEF SendReport
<1>2. CASE Deliver
  BY <1>2 DEF Deliver
<1>3. CASE Lose
  BY <1>3 DEF Lose
<1>4. CASE OnClosed
  BY <1>4 DEF OnClosed
<1>5. CASE Open
  BY <1>5 DEF Open
<1>6. CASE Listen
  BY <1>6 DEF Listen
<1>7. CASE Disconnect
  BY <1>7 DEF Disconnect
<1>8. CASE \E kept \in BOOLEAN : Subscribe(kept)
  BY <1>8 DEF Subscribe
<1>9. CASE \E kept \in BOOLEAN : Resume(kept)
  BY <1>9 DEF Resume
<1>10. CASE TakeReport \/ ShowReport
  BY <1>10 DEF TakeReport, ShowReport
<1>11. CASE DisplayLost
  BY <1>11 DEF DisplayLost, StopsForLoss
<1>12. CASE DisplayEnds
  BY <1>12 DEF DisplayEnds
<1>13. CASE EndDisplay
  BY <1>13 DEF EndDisplay, Unsubscribe
<1>14. CASE StopKept
  BY <1>14 DEF StopKept, Unsubscribe
<1>15. CASE UNCHANGED vars
  BY <1>15 DEF vars
<1>16. QED
  BY <1>1, <1>2, <1>3, <1>4, <1>5, <1>6, <1>7, <1>8, <1>9, <1>10, <1>11, <1>12, <1>13, <1>14, <1>15 DEF Next

(* connection_lost is true of the association the session has, if none is lost before add_closed_listener. *)
THEOREM LossReachesTheSession == ASSUME ListenedTo PROVE Spec => []LossIsKnown
<1>1. Init => LinkTypes /\ LossInv
  BY DEF Init, LinkTypes, LossInv
<1>2. LinkTypes /\ LossInv /\ [Next]_vars => (LinkTypes /\ LossInv)'
  BY LossStep
<1>3. LinkTypes /\ LossInv => LossIsKnown
  BY DEF LinkTypes, LossInv, LossIsKnown
<1>4. QED
  BY <1>1, <1>2, <1>3, PTL DEF Spec

-----------------------------------------------------------------------------
(* SqNum *)

LEMMA Small ==
    ASSUME NEW m \in Nat \ {0}, NEW q \in Int, m * q < m, -m < m * q
    PROVE  q = 0
<1>1. q >= 1 => m * q >= m
  OBVIOUS
<1>2. q <= -1 => m * q <= -m
  OBVIOUS
<1>3. QED
  BY <1>1, <1>2

LEMMA Remainder ==
    ASSUME NEW m \in Nat \ {0}, NEW x \in Nat, NEW r \in 0..m - 1, NEW q \in Int, x = m * q + r
    PROVE  x % m = r
<1>1. PICK k \in Int, s \in 0..m - 1 : x = m * k + s /\ x % m = s
  OBVIOUS
<1>2. m * (q - k) = s - r
  BY <1>1
<1>3. q - k = 0
  BY <1>1, <1>2, Small
<1>4. QED
  BY <1>1, <1>2, <1>3

LEMMA ModPlus ==
    ASSUME NEW m \in Nat \ {0}, NEW x \in Nat, NEW y \in Nat
    PROVE  ((x % m) + y) % m = (x + y) % m
<1>1. PICK k \in Int, s \in 0..m - 1 : x = m * k + s /\ x % m = s
  OBVIOUS
<1>2. PICK l \in Int, t \in 0..m - 1 : s + y = m * l + t /\ (s + y) % m = t
  OBVIOUS
<1>3. PICK z \in Nat : z = x + y
  OBVIOUS
<1>4. PICK q \in Int : q = k + l
  OBVIOUS
<1>5. z = m * q + t
  BY <1>1, <1>2, <1>3, <1>4
<1>6. z % m = t
  BY <1>5, Remainder
<1>7. QED
  BY <1>1, <1>2, <1>3, <1>6

LEMMA Wrap ==
    ASSUME NEW x \in Nat, x < Modulus + Modulus
    PROVE  x % Modulus = IF x < Modulus THEN x ELSE x - Modulus
<1>1. Modulus \in Nat \ {0}
  BY BoundsAssumption
<1>2. CASE x < Modulus
  BY <1>1, <1>2
<1>3. CASE x >= Modulus
  <2>1. x - Modulus \in 0..Modulus - 1 /\ x = Modulus * 1 + (x - Modulus)
    BY <1>1, <1>3
  <2>2. QED
    BY <1>1, <1>3, <2>1
<1>4. QED
  BY <1>1, <1>2, <1>3

(* RPT-2: the gap flagged is the number of reports missing, whatever the width of SqNum and wherever it wraps, *)
(* as long as fewer than Modulus - 1 are missing in a row.                                                      *)
THEOREM GapIsExact ==
    ASSUME lastSeq \in 0..Modulus - 1, NEW lost \in 0..Modulus - 2
    PROVE  Gap((lastSeq + 1 + lost) % Modulus) = lost
<1> DEFINE expected == (lastSeq + 1) % Modulus
           seq == (lastSeq + 1 + lost) % Modulus
<1>1. Modulus \in Nat \ {0, 1}
  BY BoundsAssumption
<1>2. expected = IF lastSeq + 1 < Modulus THEN lastSeq + 1 ELSE 0
  BY <1>1, Wrap
<1>3. seq = IF lastSeq + 1 + lost < Modulus THEN lastSeq + 1 + lost ELSE lastSeq + 1 + lost - Modulus
  BY <1>1, Wrap
<1>4. seq # lastSeq /\ (seq = expected <=> lost = 0)
  BY <1>1, <1>2, <1>3
<1>5. seq - expected + Modulus \in {lost, lost + Modulus}
  BY <1>1, <1>2, <1>3
<1>6. (seq - expected + Modulus) % Modulus = lost
  BY <1>1, <1>5, Wrap
<1>7. Gap(seq) = IF lastSeq # -1 /\ seq \notin {expected, lastSeq} THEN (seq - expected + Modulus) % Modulus ELSE 0
  BY DEF Gap
<1>8. QED
  BY <1>1, <1>4, <1>6, <1>7

-----------------------------------------------------------------------------
(* Sequences of segments *)

(* The reports of a sequence are those of another, in its order. *)
Within(t, s) ==
    \E f \in [1..Len(t) -> 1..Len(s)] :
        /\ \A n \in 1..Len(t) : t[n] = s[f[n]]
        /\ \A m, n \in 1..Len(t) : m < n => f[m] < f[n]

LEMMA HeadsAre ==
    ASSUME NEW s, NEW r
    PROVE  r \in Heads(s) <=> \E n \in 1..Len(s) : r = s[n] /\ r.part = 0
BY DEF Heads

LEMMA IdsAre ==
    ASSUME NEW s, NEW i
    PROVE  i \in Ids(s) <=> \E n \in 1..Len(s) : i = s[n].id /\ s[n].part = 0
BY DEF Heads, Ids

LEMMA HeadsType ==
    ASSUME NEW s \in Seq(Segments)
    PROVE  Heads(s) \subseteq Segments /\ Ids(s) \subseteq 1..MaxReports
<1>1. \A n \in 1..Len(s) : s[n] \in Segments
  OBVIOUS
<1>2. QED
  BY <1>1 DEF Heads, Ids, Segments

LEMMA WithinKeeps ==
    ASSUME NEW s \in Seq(Segments), NEW t \in Seq(Segments), Within(t, s)
    PROVE  /\ Heads(t) \subseteq Heads(s) /\ Ids(t) \subseteq Ids(s)
           /\ InOrder(s) => InOrder(t)
<1>1. PICK f \in [1..Len(t) -> 1..Len(s)] :
        /\ \A n \in 1..Len(t) : t[n] = s[f[n]]
        /\ \A m, n \in 1..Len(t) : m < n => f[m] < f[n]
  BY DEF Within
<1>2. Heads(t) \subseteq Heads(s)
  BY <1>1, HeadsAre
<1>3. Ids(t) \subseteq Ids(s)
  BY <1>2 DEF Ids
<1>4. ASSUME InOrder(s) PROVE InOrder(t)
  BY <1>1, <1>4 DEF InOrder
<1>5. QED
  BY <1>2, <1>3, <1>4

LEMMA HeadOut ==
    ASSUME NEW s \in Seq(Segments), s # <<>>
    PROVE  /\ Within(Tail(s), s)
           /\ \A r \in Heads(s) : r = Head(s) \/ r \in Heads(Tail(s))
           /\ Head(s) \in Segments
           /\ Head(s).part = 0 => Head(s) \in Heads(s)
           /\ InOrder(s) /\ Head(s).part = 0 => \A i \in Ids(Tail(s)) : Head(s).id < i
<1>1. Len(s) \in Nat \ {0} /\ Len(Tail(s)) = Len(s) - 1 /\ Head(s) = s[1] /\ Tail(s) \in Seq(Segments)
  OBVIOUS
<1>2. \A n \in 1..Len(Tail(s)) : Tail(s)[n] = s[n + 1]
  OBVIOUS
<1>3. Within(Tail(s), s)
  <2> DEFINE f == [n \in 1..Len(Tail(s)) |-> n + 1]
  <2>1. f \in [1..Len(Tail(s)) -> 1..Len(s)]
    BY <1>1
  <2>2. \A n \in 1..Len(Tail(s)) : Tail(s)[n] = s[f[n]]
    BY <1>2
  <2>3. \A m, n \in 1..Len(Tail(s)) : m < n => f[m] < f[n]
    BY <1>1
  <2>4. QED
    BY <2>1, <2>2, <2>3 DEF Within
<1>4. ASSUME NEW r \in Heads(s), r # Head(s) PROVE r \in Heads(Tail(s))
  <2>1. PICK n \in 1..Len(s) : r = s[n] /\ r.part = 0
    BY HeadsAre
  <2>2. n # 1 /\ n - 1 \in 1..Len(Tail(s)) /\ Tail(s)[n - 1] = r
    BY <1>1, <1>2, <1>4, <2>1
  <2>3. QED
    BY <2>1, <2>2, HeadsAre
<1>5. Head(s) \in Segments
  BY <1>1
<1>6. Head(s).part = 0 => Head(s) \in Heads(s)
  BY <1>1, HeadsAre
<1>7. ASSUME InOrder(s), Head(s).part = 0, NEW i \in Ids(Tail(s)) PROVE Head(s).id < i
  <2>1. PICK n \in 1..Len(Tail(s)) : i = Tail(s)[n].id /\ Tail(s)[n].part = 0
    BY IdsAre
  <2>2. 1 \in 1..Len(s) /\ n + 1 \in 1..Len(s) /\ 1 < n + 1 /\ Tail(s)[n] = s[n + 1]
    BY <1>1, <1>2
  <2>3. QED
    BY <1>1, <1>7, <2>1, <2>2 DEF InOrder
<1>8. QED
  BY <1>3, <1>4, <1>5, <1>6, <1>7

LEMMA InFront ==
    ASSUME NEW q \in Seq(Segments), NEW w \in Seq(Segments)
    PROVE  /\ Within(q, q \o w)
           /\ \A r : r \in Heads(q \o w) <=> r \in Heads(q) \cup Heads(w)
           /\ Ids(q \o w) = Ids(q) \cup Ids(w)
           /\ InOrder(q \o w) => \A i \in Ids(q), j \in Ids(w) : i < j
<1>1. Len(q) \in Nat /\ Len(w) \in Nat /\ Len(q \o w) = Len(q) + Len(w)
  <2>1. Len(q) \in Nat /\ Len(w) \in Nat
    OBVIOUS
  <2>2. Len(q \o w) = Len(q) + Len(w)
    BY ConcatProperties
  <2>3. QED
    BY <2>1, <2>2
<1>2. \A n \in 1..Len(q) : n \in 1..Len(q \o w) /\ (q \o w)[n] = q[n]
  BY <1>1
<1>3. \A n \in 1..Len(w) : n + Len(q) \in 1..Len(q \o w) /\ (q \o w)[n + Len(q)] = w[n]
  BY <1>1
<1>4. \A n \in 1..Len(q \o w) : n \in 1..Len(q) \/ n - Len(q) \in 1..Len(w)
  BY <1>1
<1>5. Within(q, q \o w)
  <2> DEFINE f == [n \in 1..Len(q) |-> n]
  <2>1. f \in [1..Len(q) -> 1..Len(q \o w)]
    BY <1>1
  <2>2. \A n \in 1..Len(q) : q[n] = (q \o w)[f[n]]
    BY <1>2
  <2>3. QED
    BY <2>1, <2>2 DEF Within
<1>6. ASSUME NEW r PROVE r \in Heads(q \o w) <=> r \in Heads(q) \cup Heads(w)
  <2>1. ASSUME r \in Heads(q \o w) PROVE r \in Heads(q) \cup Heads(w)
    <3>1. PICK n \in 1..Len(q \o w) : r = (q \o w)[n] /\ r.part = 0
      BY <2>1, HeadsAre
    <3>2. CASE n \in 1..Len(q)
      BY <1>2, <3>1, <3>2, HeadsAre
    <3>3. CASE n - Len(q) \in 1..Len(w)
      <4>1. (q \o w)[(n - Len(q)) + Len(q)] = w[n - Len(q)]
        BY <1>3, <3>3
      <4>2. w[n - Len(q)] = r
        BY <1>1, <3>1, <4>1
      <4>3. QED
        BY <3>1, <3>3, <4>2, HeadsAre
    <3>4. QED
      BY <1>4, <3>2, <3>3
  <2>2. ASSUME r \in Heads(q) PROVE r \in Heads(q \o w)
    <3>1. PICK n \in 1..Len(q) : r = q[n] /\ r.part = 0
      BY <2>2, HeadsAre
    <3>2. n \in 1..Len(q \o w) /\ (q \o w)[n] = r
      BY <1>2, <3>1
    <3>3. QED
      BY <3>1, <3>2, HeadsAre
  <2>3. ASSUME r \in Heads(w) PROVE r \in Heads(q \o w)
    <3>1. PICK n \in 1..Len(w) : r = w[n] /\ r.part = 0
      BY <2>3, HeadsAre
    <3>2. n + Len(q) \in 1..Len(q \o w) /\ (q \o w)[n + Len(q)] = r
      BY <1>3, <3>1
    <3>3. QED
      BY <3>1, <3>2, HeadsAre
  <2>4. QED
    BY <2>1, <2>2, <2>3
<1>7. Ids(q \o w) = Ids(q) \cup Ids(w)
  BY <1>6 DEF Ids
<1>8. ASSUME InOrder(q \o w), NEW i \in Ids(q), NEW j \in Ids(w) PROVE i < j
  <2>1. PICK m \in 1..Len(q) : i = q[m].id /\ q[m].part = 0
    BY IdsAre
  <2>2. PICK n \in 1..Len(w) : j = w[n].id /\ w[n].part = 0
    BY IdsAre
  <2>3. m < n + Len(q)
    BY <1>1
  <2>4. QED
    BY <1>2, <1>3, <1>8, <2>1, <2>2, <2>3 DEF InOrder
<1>9. QED
  BY <1>5, <1>6, <1>7, <1>8

(* One segment of the wire is left out. *)
LEMMA LeaveOut ==
    ASSUME NEW q \in Seq(Segments), NEW w \in Seq(Segments), w # <<>>
    PROVE  Within(q \o Tail(w), q \o w)
<1> DEFINE t == q \o Tail(w)
           s == q \o w
           f == [n \in 1..Len(t) |-> IF n <= Len(q) THEN n ELSE n + 1]
<1>1. Len(q) \in Nat /\ Len(w) \in Nat \ {0} /\ Len(Tail(w)) = Len(w) - 1 /\ Tail(w) \in Seq(Segments)
  OBVIOUS
<1>2. Len(t) = Len(q) + Len(w) - 1 /\ Len(s) = Len(q) + Len(w)
  BY <1>1
<1>3. f \in [1..Len(t) -> 1..Len(s)]
  BY <1>1, <1>2
<1>4. ASSUME NEW n \in 1..Len(t) PROVE t[n] = s[f[n]]
  <2>1. CASE n <= Len(q)
    BY <1>1, <1>2, <2>1
  <2>2. CASE n > Len(q)
    <3>1. n - Len(q) \in 1..Len(Tail(w)) /\ n + 1 \in 1..Len(s) /\ f[n] = n + 1
      BY <1>1, <1>2, <2>2
    <3>2. t[n] = Tail(w)[n - Len(q)]
      BY <1>1, <1>2, <2>2
    <3>3. Tail(w)[n - Len(q)] = w[n - Len(q) + 1]
      BY <3>1
    <3>4. s[n + 1] = w[n + 1 - Len(q)]
      BY <1>1, <1>2, <2>2
    <3>5. QED
      BY <1>1, <3>1, <3>2, <3>3, <3>4
  <2>3. QED
    BY <1>1, <2>1, <2>2
<1>5. \A m, n \in 1..Len(t) : m < n => f[m] < f[n]
  BY <1>1, <1>2
<1>6. QED
  BY <1>3, <1>4, <1>5 DEF Within

(* The segment delivered is in the same place. *)
LEMMA Moved ==
    ASSUME NEW q \in Seq(Segments), NEW w \in Seq(Segments), w # <<>>
    PROVE  Append(q, Head(w)) \o Tail(w) = q \o w
<1>1. Len(q) \in Nat /\ Len(w) \in Nat \ {0} /\ Len(Tail(w)) = Len(w) - 1 /\ Tail(w) \in Seq(Segments) /\ Head(w) = w[1]
  OBVIOUS
<1>2. Append(q, Head(w)) \in Seq(Segments) /\ Len(Append(q, Head(w))) = Len(q) + 1
  OBVIOUS
<1> DEFINE t == Append(q, Head(w)) \o Tail(w)
           s == q \o w
<1>3. t \in Seq(Segments) /\ s \in Seq(Segments) /\ Len(t) = Len(q) + Len(w) /\ Len(s) = Len(q) + Len(w)
  BY <1>1, <1>2
<1>4. ASSUME NEW n \in 1..Len(s) PROVE t[n] = s[n]
  <2>1. CASE n <= Len(q) + 1
    BY <1>1, <1>2, <1>3, <2>1
  <2>2. CASE n > Len(q) + 1
    <3>1. t[n] = Tail(w)[n - (Len(q) + 1)]
      BY <1>1, <1>2, <1>3, <2>2
    <3>2. Tail(w)[n - (Len(q) + 1)] = w[n - (Len(q) + 1) + 1]
      BY <1>1, <1>3, <2>2
    <3>3. s[n] = w[n - Len(q)]
      BY <1>1, <1>3, <2>2
    <3>4. QED
      BY <1>1, <3>1, <3>2, <3>3
  <2>3. QED
    BY <1>1, <2>1, <2>2
<1>5. QED
  BY <1>3, <1>4, SeqEqual

(* The next segment comes off the front of what is pending. *)
LEMMA Ahead ==
    ASSUME NEW q \in Seq(Segments), NEW w \in Seq(Segments), q # <<>>
    PROVE  Tail(q) \o w = Tail(q \o w) /\ Head(q \o w) = Head(q) /\ q \o w # <<>>
<1>1. /\ Len(q) \in Nat \ {0} /\ Len(w) \in Nat /\ Tail(q) \in Seq(Segments) /\ Len(Tail(q)) = Len(q) - 1
      /\ Head(q) = q[1]
  OBVIOUS
<1> DEFINE s == q \o w
           t == Tail(q) \o w
<1>2. s \in Seq(Segments) /\ Len(s) = Len(q) + Len(w)
  BY <1>1, ConcatProperties
<1>3. s # <<>> /\ Head(s) = s[1]
  BY <1>1, <1>2
<1>4. s[1] = q[1]
  BY <1>1
<1>5. Tail(s) \in Seq(Segments) /\ Len(Tail(s)) = Len(q) + Len(w) - 1
  BY <1>1, <1>2, <1>3
<1>6. t \in Seq(Segments) /\ Len(t) = Len(q) + Len(w) - 1
  BY <1>1
<1>7. ASSUME NEW n \in 1..Len(t) PROVE t[n] = Tail(s)[n]
  <2>1. Tail(s)[n] = s[n + 1]
    BY <1>1, <1>2, <1>3, <1>5, <1>6, HeadTailProperties
  <2>2. CASE n <= Len(q) - 1
    <3>1. t[n] = Tail(q)[n]
      BY <1>1, <1>6, <2>2
    <3>2. Tail(q)[n] = q[n + 1]
      BY <1>1, <1>6, <2>2
    <3>3. s[n + 1] = q[n + 1]
      BY <1>1, <1>6, <2>2
    <3>4. QED
      BY <2>1, <3>1, <3>2, <3>3
  <2>3. CASE n > Len(q) - 1
    <3>1. t[n] = w[n - (Len(q) - 1)]
      BY <1>1, <1>6, <2>3
    <3>2. s[n + 1] = w[n + 1 - Len(q)]
      BY <1>1, <1>6, <2>3
    <3>3. n - (Len(q) - 1) = n + 1 - Len(q)
      BY <1>1, <1>6
    <3>4. QED
      BY <2>1, <3>1, <3>2, <3>3
  <2>4. QED
    BY <1>1, <1>6, <2>2, <2>3
<1>8. t = Tail(s)
  BY <1>5, <1>6, <1>7, SeqEqual
<1>9. QED
  BY <1>1, <1>3, <1>4, <1>8

-----------------------------------------------------------------------------
(* The types *)

Types ==
    /\ enabled \in BOOLEAN /\ sqnum \in 0..Modulus - 1 /\ sent \in 0..MaxReports
    /\ link \in {"none", "up", "lost"} /\ closing \in BOOLEAN
    /\ wire \in Seq(Segments) /\ queue \in Seq(Segments) /\ hand \in Seq(Segments) /\ Len(hand) <= 1
    /\ lostFlag \in BOOLEAN /\ listening \in BOOLEAN /\ handler \in BOOLEAN
    /\ subscribed \in BOOLEAN /\ lastSeq \in -1..Modulus - 1 /\ gaps \in Nat
    /\ pc \in {"prompt", "opened", "show", "end"} /\ keep \in BOOLEAN
    /\ shown \in Seq(1..MaxReports) /\ missing \in 0..MaxMissing

LEMMA Bounds ==
    /\ Modulus \in Nat /\ Modulus > 1 /\ MaxReports \in Nat
    /\ MaxMissing \in Nat /\ MaxMissing <= Modulus - 2
BY BoundsAssumption

LEMMA GapType ==
    ASSUME lastSeq \in -1..Modulus - 1, NEW seq \in 0..Modulus - 1
    PROVE  Gap(seq) \in Nat
<1> DEFINE expected == (lastSeq + 1) % Modulus
<1>1. expected \in 0..Modulus - 1
  BY Bounds
<1>2. seq - expected + Modulus \in Nat
  BY <1>1, Bounds
<1>3. (seq - expected + Modulus) % Modulus \in Nat
  BY <1>2, Bounds
<1>4. QED
  BY <1>3 DEF Gap

LEMMA SentSegments ==
    ASSUME NEW i \in 1..MaxReports, NEW q \in 0..Modulus - 1, NEW parts \in 1..2
    PROVE  /\ [n \in 1..parts |-> [id |-> i, seq |-> q, part |-> n - 1]] \in Seq(Segments)
           /\ Len([n \in 1..parts |-> [id |-> i, seq |-> q, part |-> n - 1]]) = parts
<1>1. \A n \in 1..parts : [id |-> i, seq |-> q, part |-> n - 1] \in Segments
  BY DEF Segments
<1>2. QED
  BY <1>1

LEMMA TypesStep ==
    ASSUME Uninterrupted, Types, [Next]_vars
    PROVE  Types'
<1> USE DEF Types, device, net, flags, sub
<1>1. ASSUME NEW lost \in 0..MaxMissing, NEW parts \in 1..2, SendReport(lost, parts) PROVE Types'
  <2>1. sent' \in 1..MaxReports /\ sqnum' \in 0..Modulus - 1 /\ missing' \in 0..MaxMissing
    BY <1>1, Bounds DEF SendReport
  <2>2. wire' \in Seq(Segments)
    BY <1>1, <2>1, SentSegments, ConcatProperties DEF SendReport
  <2>3. QED
    BY <1>1, <2>1, <2>2 DEF SendReport
<1>2. CASE Deliver
  <2>1. wire' \in Seq(Segments) /\ Head(wire) \in Segments
    BY <1>2 DEF Deliver
  <2>2. queue' \in Seq(Segments)
    <3>1. queue' = Append(queue, Head(wire)) \/ queue' = queue
      BY <1>2 DEF Deliver
    <3>2. Append(queue, Head(wire)) \in Seq(Segments)
      BY <2>1, AppendProperties
    <3>3. QED
      BY <3>1, <3>2
  <2>3. missing' \in 0..MaxMissing
    BY <1>2, Bounds DEF Deliver
  <2>4. QED
    BY <1>2, <2>1, <2>2, <2>3 DEF Deliver
<1>3. CASE Lose
  BY <1>3, EmptySeq DEF Lose
<1>4. CASE OnClosed
  BY <1>4 DEF OnClosed
<1>5. CASE Open
  BY <1>5, EmptySeq DEF Open
<1>6. CASE Listen
  BY <1>6 DEF Listen
<1>7. CASE Disconnect
  BY <1>7, EmptySeq DEF Disconnect
<1>8. ASSUME NEW kept \in BOOLEAN, Subscribe(kept) PROVE Types'
  BY <1>8, EmptySeq, Bounds DEF Subscribe
<1>9. ASSUME NEW kept \in BOOLEAN, Resume(kept) PROVE Types'
  BY <1>9 DEF Resume
<1>10. CASE TakeReport
  <2>1. queue # <<>> /\ queue' = Tail(queue) /\ hand' = <<Head(queue)>>
    BY <1>10 DEF TakeReport
  <2>2. Head(queue) \in Segments /\ queue' \in Seq(Segments)
    BY <2>1
  <2>3. <<Head(queue)>> \in Seq(Segments) /\ Len(<<Head(queue)>>) = 1
    BY <2>2
  <2>4. QED
    BY <1>10, <2>1, <2>2, <2>3 DEF TakeReport
<1>17. CASE ShowReport
  <2>1. hand # <<>> /\ hand' = <<>> /\ UNCHANGED <<device, net, flags, subscribed, queue, pc, keep, missing>>
    BY <1>17 DEF ShowReport
  <2>2. Head(hand) \in Segments /\ hand' \in Seq(Segments) /\ Len(hand') <= 1
    BY <2>1, EmptySeq
  <2>3. Head(hand).id \in 1..MaxReports /\ Head(hand).seq \in 0..Modulus - 1
    BY <2>2 DEF Segments
  <2>4. CASE Head(hand).part = 0
    <3>1. gaps' = gaps + Gap(Head(hand).seq) /\ lastSeq' = Head(hand).seq /\ shown' = Append(shown, Head(hand).id)
      BY <1>17, <2>4 DEF ShowReport
    <3>2. gaps' \in Nat
      <4>1. Gap(Head(hand).seq) \in Nat
        BY <2>3, GapType
      <4>2. gaps \in Nat
        OBVIOUS
      <4>3. QED
        BY <3>1, <4>1, <4>2
    <3>3. QED
      BY <2>1, <2>2, <2>3, <3>1, <3>2, Bounds
  <2>5. CASE Head(hand).part # 0
    BY <1>17, <2>1, <2>2, <2>5 DEF ShowReport
  <2>6. QED
    BY <2>4, <2>5
<1>11. CASE DisplayLost
  BY <1>11 DEF DisplayLost
<1>12. CASE DisplayEnds
  BY <1>12, EmptySeq DEF DisplayEnds, CutShort, Uninterrupted
<1>13. CASE EndDisplay
  BY <1>13 DEF EndDisplay, Unsubscribe
<1>14. CASE StopKept
  BY <1>14 DEF StopKept, Unsubscribe
<1>15. CASE UNCHANGED vars
  BY <1>15 DEF vars
<1>16. QED
  BY <1>1, <1>2, <1>3, <1>4, <1>5, <1>6, <1>7, <1>8, <1>9, <1>10, <1>11, <1>12, <1>13, <1>14, <1>15, <1>17 DEF Next

-----------------------------------------------------------------------------
(* Fewer segments *)

(* Taking the next report out of the queue does not change what the tool holds. *)
LEMMA Taken ==
    ASSUME Types, TakeReport
    PROVE  Held' = Held
<1>1. hand = <<>> /\ queue # <<>> /\ hand' = Append(<<>>, Head(queue)) /\ queue' = Tail(queue)
  BY DEF TakeReport
<1>2. Append(<<>>, Head(queue)) \o Tail(queue) = <<>> \o queue
  BY <1>1, EmptySeq, Moved DEF Types
<1>3. QED
  BY <1>1, <1>2 DEF Held

(* What comes in goes behind what the tool holds. *)
LEMMA Behind ==
    ASSUME NEW h \in Seq(Segments), NEW q \in Seq(Segments), NEW r \in Segments
    PROVE  h \o Append(q, r) = Append(h \o q, r)
<1>1. Append(q, r) = q \o <<r>> /\ Append(h \o q, r) = (h \o q) \o <<r>> /\ <<r>> \in Seq(Segments)
  BY AppendIsConcat, ConcatProperties
<1>2. QED
  BY <1>1, ConcatAssociative

(* What is displayed is the first of what the tool holds. *)
LEMMA Displayed ==
    ASSUME Types, hand # <<>>, hand' = <<>>, queue' = queue
    PROVE  Held # <<>> /\ Held' = Tail(Held) /\ Head(Held) = Head(hand)
<1>1. Tail(hand) = <<>>
  BY DEF Types
<1>2. Tail(hand) \o queue = Tail(hand \o queue) /\ Head(hand \o queue) = Head(hand) /\ hand \o queue # <<>>
  BY Ahead DEF Types
<1>3. QED
  BY <1>1, <1>2 DEF Held

LEMMA HeldType ==
    ASSUME Types
    PROVE  Held \in Seq(Segments)
BY ConcatProperties DEF Types, Held

LEMMA PendingType ==
    ASSUME Types
    PROVE  Pending \in Seq(Segments) /\ Heads(Pending) \subseteq Segments /\ Ids(Pending) \subseteq 1..MaxReports
<1>1. Pending \in Seq(Segments)
  BY HeldType, ConcatProperties DEF Types, Pending
<1>2. QED
  BY <1>1, HeadsType

(* What changes neither the reports displayed nor the device's count keeps everything but the absent reports. *)
LEMMA Shrunk ==
    ASSUME Types, Types', OrderInv, NumberInv, GapsAreTrue, Within(Pending', Pending),
           UNCHANGED <<shown, lastSeq, sent, sqnum, gaps>>, enabled' => enabled
    PROVE  OrderInv' /\ NumberInv' /\ GapsAreTrue'
<1>1. Pending \in Seq(Segments) /\ Pending' \in Seq(Segments)
  <2>1. Held \in Seq(Segments) /\ Held' \in Seq(Segments)
    BY ConcatProperties DEF Types, Held
  <2>2. QED
    BY <2>1, ConcatProperties DEF Types, Pending
<1>2. /\ Heads(Pending') \subseteq Heads(Pending) /\ Ids(Pending') \subseteq Ids(Pending)
      /\ InOrder(Pending')
  BY <1>1, WithinKeeps DEF OrderInv
<1>3. LastShown' = LastShown /\ LastSent' \subseteq LastSent
  BY DEF LastShown, LastSent
<1>4. Stamps' \subseteq Stamps
  BY <1>2, <1>3 DEF Stamps
<1>5. OrderInv'
  BY <1>2, <1>3 DEF OrderInv
<1>6. NumberInv'
  BY <1>4 DEF NumberInv, KeepsCount
<1>7. GapsAreTrue'
  BY DEF GapsAreTrue
<1>8. QED
  BY <1>5, <1>6, <1>7

LEMMA Between ==
    ASSUME NEW a \in Int, NEW b \in Int, NEW I
    PROVE  IsFiniteSet((a + 1..b - 1) \ I) /\ Cardinality((a + 1..b - 1) \ I) \in Nat
<1>1. IsFiniteSet(a + 1..b - 1)
  BY FS_Interval
<1>2. IsFiniteSet((a + 1..b - 1) \ I)
  BY <1>1, FS_Subset
<1>3. QED
  BY <1>2, FS_CardinalityType

LEMMA FromUntilType ==
    ASSUME Types
    PROVE  From \subseteq Nat /\ Until \subseteq Nat
<1>1. Ids(Pending) \subseteq Nat
  BY PendingType, Bounds
<1>2. \A s \in LastShown : s.id \in Nat
  BY Bounds DEF LastShown, Types, Last
<1>3. QED
  BY <1>1, <1>2, Bounds DEF From, Until, Types

(* No more are absent. *)
LEMMA NoMoreAbsent ==
    ASSUME Types, Types', MissingInv, From' \subseteq From, Until' \subseteq Until, missing' >= missing,
           \A a \in From', b \in Until' : Absent(a, b)' \subseteq Absent(a, b)
    PROVE  MissingInv'
<1>1. ASSUME NEW a \in From', NEW b \in Until' PROVE Cardinality(Absent(a, b)') <= missing'
  <2> DEFINE span == a + 1..b - 1
             old == span \ Ids(Pending)
             new == span \ Ids(Pending')
  <2>1. a \in Int /\ b \in Int
    BY FromUntilType
  <2>2. IsFiniteSet(old) /\ Cardinality(old) \in Nat /\ IsFiniteSet(new) /\ Cardinality(new) \in Nat
    BY <2>1, Between
  <2>3. Absent(a, b) = old /\ Absent(a, b)' = new
    BY DEF Absent
  <2>4. Cardinality(old) <= missing
    BY <1>1, <2>3 DEF MissingInv
  <2> HIDE DEF old, new
  <2>5. new \in SUBSET old
    BY <1>1, <2>3
  <2>6. Cardinality(new) <= Cardinality(old)
    BY <2>2, <2>5, FS_Subset
  <2>7. missing \in Nat /\ missing' \in Nat
    BY Bounds DEF Types
  <2>8. Cardinality(new) <= missing'
    BY <2>2, <2>4, <2>6, <2>7
  <2>9. QED
    BY <2>3, <2>8
<1>2. QED
  BY <1>1 DEF MissingInv

-----------------------------------------------------------------------------
(* The steps *)

LEMMA StreamStep ==
    ASSUME Types, StreamInv, [Next]_vars
    PROVE  StreamInv'
<1> USE DEF Types, StreamInv, device, net, flags, sub
<1>1. CASE \E lost \in 0..MaxMissing, parts \in 1..2 : SendReport(lost, parts)
  BY <1>1 DEF SendReport
<1>2. CASE Deliver
  BY <1>2 DEF Deliver
<1>3. CASE Lose
  BY <1>3 DEF Lose
<1>4. CASE OnClosed
  BY <1>4 DEF OnClosed
<1>5. CASE Open
  BY <1>5 DEF Open
<1>6. CASE Listen
  BY <1>6 DEF Listen
<1>7. CASE Disconnect
  BY <1>7 DEF Disconnect
<1>8. CASE \E kept \in BOOLEAN : Subscribe(kept)
  BY <1>8 DEF Subscribe
<1>9. CASE \E kept \in BOOLEAN : Resume(kept)
  BY <1>9 DEF Resume
<1>10. CASE TakeReport \/ ShowReport
  BY <1>10 DEF TakeReport, ShowReport
<1>11. CASE DisplayLost \/ DisplayEnds
  BY <1>11 DEF DisplayLost, DisplayEnds, StopsForLoss
<1>12. CASE EndDisplay
  BY <1>12 DEF EndDisplay, Unsubscribe
<1>13. CASE StopKept
  BY <1>13 DEF StopKept, Unsubscribe
<1>14. CASE UNCHANGED vars
  BY <1>14 DEF vars
<1>15. QED
  BY <1>1, <1>2, <1>3, <1>4, <1>5, <1>6, <1>7, <1>8, <1>9, <1>10, <1>11, <1>12, <1>13, <1>14 DEF Next

Counts == OrderInv /\ NumberInv /\ MissingInv /\ GapsAreTrue

LEMMA CountsSame ==
    ASSUME Counts, UNCHANGED <<Held, wire, shown, lastSeq, sent, sqnum, gaps, enabled, missing>>
    PROVE  Counts'
<1>1. Pending' = Pending
  BY DEF Pending
<1>2. LastShown' = LastShown /\ LastSent' = LastSent
  BY DEF LastShown, LastSent
<1>3. Stamps' = Stamps /\ From' = From /\ Until' = Until
  BY <1>1, <1>2 DEF Stamps, From, Until
<1>4. OrderInv'
  BY <1>1, <1>2 DEF Counts, OrderInv
<1>5. NumberInv'
  BY <1>3 DEF Counts, NumberInv
<1>6. MissingInv'
  BY <1>1, <1>3 DEF Counts, MissingInv, Absent
<1>7. GapsAreTrue'
  BY DEF Counts, GapsAreTrue
<1>8. QED
  BY <1>4, <1>5, <1>6, <1>7 DEF Counts

(* The device stops sending and nothing is on its way any more; what the tool holds stays. *)
LEMMA CountsCut ==
    ASSUME Types, Types', Counts, ~enabled', wire' = <<>>,
           UNCHANGED <<Held, shown, lastSeq, sent, sqnum, gaps, missing>>
    PROVE  Counts'
<1>1. Pending' = Held
  BY HeldType, ConcatEmptySeq DEF Pending
<1>2. /\ Within(Pending', Pending)
      /\ Ids(Pending) = Ids(Held) \cup Ids(wire)
      /\ \A i \in Ids(Held), j \in Ids(wire) : i < j
  BY <1>1, HeldType, InFront DEF Types, Pending, Counts, OrderInv
<1>3. OrderInv' /\ NumberInv' /\ GapsAreTrue'
  BY <1>2, Shrunk DEF Counts
<1>4. From' \subseteq From /\ Until' = Ids(Held) /\ Until' \subseteq Until
  BY <1>1, <1>2 DEF From, Until, LastShown
<1>5. ASSUME NEW a \in From', NEW b \in Until' PROVE Absent(a, b)' \subseteq Absent(a, b)
  <2>1. a \in Int /\ b \in Int /\ b \in Ids(Held)
    BY <1>4, FromUntilType
  <2>2. \A i \in a + 1..b - 1 : i \notin Ids(wire)
    <3>1. \A j \in Ids(wire) : b < j /\ j \in Int
      BY <1>2, <2>1, HeadsType, Bounds DEF Types
    <3>2. QED
      BY <2>1, <3>1
  <2>3. QED
    BY <1>1, <1>2, <2>2 DEF Absent
<1>6. missing' >= missing
  BY Bounds DEF Types
<1>7. MissingInv'
  BY <1>4, <1>5, <1>6, NoMoreAbsent DEF Counts
<1>8. QED
  BY <1>3, <1>7 DEF Counts

(* A new subscription. *)
LEMMA CountsBegin ==
    ASSUME Types, Types', StreamInv, NEW kept \in BOOLEAN, Subscribe(kept)
    PROVE  Counts'
<1>1. wire' = <<>> /\ Held' = <<>> /\ shown' = <<>> /\ enabled' /\ lastSeq' = -1 /\ gaps' = 0 /\ sent' = sent
  <2>1. hand' = <<>> /\ queue' = <<>>
    BY DEF Subscribe, StreamInv
  <2>2. Held' = <<>>
    BY <2>1, ConcatEmptySeq, EmptySeq DEF Held
  <2>3. QED
    BY <2>2 DEF Subscribe, StreamInv, net
<1>2. Pending' = <<>>
  <2>1. Pending' = wire'
    BY <1>1, ConcatEmptySeq, EmptySeq DEF Pending
  <2>2. QED
    BY <1>1, <2>1
<1>3. Len(Pending') = 0 /\ Heads(Pending') = {} /\ Ids(Pending') = {} /\ InOrder(Pending')
  BY <1>2 DEF Heads, Ids, InOrder
<1>4. LastShown' = {} /\ LastSent' = {[id |-> sent', seq |-> sqnum']}
  BY <1>1 DEF LastShown, LastSent
<1>5. OrderInv'
  BY <1>1, <1>3, <1>4 DEF OrderInv
<1>6. NumberInv'
  <2>1. Stamps' = {[id |-> sent', seq |-> sqnum']}
    BY <1>3, <1>4 DEF Stamps
  <2>2. (sqnum' + (sent' - sent')) % Modulus = sqnum'
    <3>1. \A m \in Nat : \A x \in 0..m - 1, y \in Nat : (x + (y - y)) % m = x
      <4>1. \A m \in Nat : \A x \in 0..m - 1 : x % m = x
        OBVIOUS
      <4>2. \A x \in Nat, y \in Nat : x + (y - y) = x
        OBVIOUS
      <4>3. QED
        BY <4>1, <4>2
    <3>2. Modulus \in Nat /\ sqnum' \in 0..Modulus - 1 /\ sent' \in Nat
      BY Bounds DEF Types
    <3>3. QED
      BY <3>1, <3>2
  <2>3. QED
    BY <2>1, <2>2 DEF NumberInv, KeepsCount
<1>7. MissingInv'
  BY <1>3, <1>4 DEF MissingInv, From
<1>8. GapsAreTrue'
  BY <1>1 DEF GapsAreTrue
<1>9. QED
  BY <1>5, <1>6, <1>7, <1>8 DEF Counts

(* A segment goes into the queue, or a report is dropped. *)
LEMMA CountsDeliver ==
    ASSUME Types, Types', StreamInv, Counts, Deliver
    PROVE  Counts'
<1> USE DEF Types
<1>1. /\ wire # <<>> /\ handler /\ wire' = Tail(wire)
      /\ UNCHANGED <<shown, lastSeq, sent, sqnum, gaps, enabled>>
  BY DEF Deliver, StreamInv, device
<1>2. CASE Held' = Append(Held, Head(wire)) /\ missing' = missing
  <2>1. Pending' = Pending
    BY <1>1, <1>2, HeldType, Moved DEF Pending
  <2>2. LastShown' = LastShown /\ LastSent' = LastSent
    BY <1>1 DEF LastShown, LastSent
  <2>3. Stamps' = Stamps /\ From' = From /\ Until' = Until
    BY <1>1, <2>1, <2>2 DEF Stamps, From, Until
  <2>4. OrderInv' /\ NumberInv'
    BY <1>1, <2>1, <2>2, <2>3 DEF Counts, OrderInv, NumberInv
  <2>5. MissingInv'
    BY <1>2, <2>1, <2>3 DEF Counts, MissingInv, Absent
  <2>6. GapsAreTrue'
    BY <1>1 DEF Counts, GapsAreTrue
  <2>7. QED
    BY <2>4, <2>5, <2>6 DEF Counts
<1>3. CASE Held' = Held /\ missing' = missing + 1
  <2>1. Pending' = Held \o Tail(wire)
    BY <1>1, <1>3 DEF Pending
  <2>2. Within(Pending', Pending)
    BY <1>1, <2>1, HeldType, LeaveOut DEF Pending
  <2>3. OrderInv' /\ NumberInv' /\ GapsAreTrue'
    BY <1>1, <2>2, Shrunk DEF Counts
  <2>4. Ids(Pending') \subseteq Ids(Pending)
    <3>1. Pending \in Seq(Segments) /\ Pending' \in Seq(Segments)
      BY <1>1, <2>1, HeldType, ConcatProperties, PendingType
    <3>2. QED
      BY <2>2, <3>1, WithinKeeps
  <2>5. \A i \in Ids(Pending) : i = Head(wire).id \/ i \in Ids(Pending')
    <3>1. Ids(Pending) = Ids(Held) \cup Ids(wire)
      BY HeldType, InFront DEF Pending
    <3>2. Tail(wire) \in Seq(Segments)
      BY <1>1
    <3>3. Ids(Pending') = Ids(Held) \cup Ids(Tail(wire))
      BY <2>1, <3>2, HeldType, InFront
    <3>4. \A i \in Ids(wire) : i = Head(wire).id \/ i \in Ids(Tail(wire))
      BY <1>1, HeadOut DEF Ids
    <3>5. QED
      BY <3>1, <3>3, <3>4
  <2>6. From' \subseteq From /\ Until' \subseteq Until
    BY <1>1, <2>4 DEF From, Until, LastShown
  <2>7. ASSUME NEW a \in From', NEW b \in Until' PROVE Cardinality(Absent(a, b)') <= missing'
    <3> DEFINE span == a + 1..b - 1
               old == span \ Ids(Pending)
               new == span \ Ids(Pending')
               more == old \cup {Head(wire).id}
    <3>1. a \in Int /\ b \in Int
      BY <2>6, FromUntilType
    <3>2. IsFiniteSet(old) /\ Cardinality(old) \in Nat /\ IsFiniteSet(new) /\ Cardinality(new) \in Nat
      BY <3>1, Between
    <3>3. Absent(a, b) = old /\ Absent(a, b)' = new
      BY DEF Absent
    <3>4. Cardinality(old) <= missing
      BY <2>6, <3>3 DEF Counts, MissingInv
    <3>5. new \in SUBSET more
      BY <2>5
    <3> HIDE DEF old, new
    <3>6. IsFiniteSet(more) /\ Cardinality(more) <= Cardinality(old) + 1 /\ Cardinality(more) \in Nat
      <4>1. /\ IsFiniteSet(more)
            /\ Cardinality(more) = IF Head(wire).id \in old THEN Cardinality(old) ELSE Cardinality(old) + 1
        BY <3>2, FS_AddElement
      <4>2. Cardinality(more) = Cardinality(old) \/ Cardinality(more) = Cardinality(old) + 1
        BY <4>1
      <4>3. \A n \in Nat : n + 1 \in Nat /\ n <= n + 1 /\ n + 1 <= n + 1
        OBVIOUS
      <4> HIDE DEF more, old
      <4>4. QED
        BY <3>2, <4>1, <4>2, <4>3
    <3> HIDE DEF more
    <3>7. Cardinality(new) <= Cardinality(more)
      BY <3>5, <3>6, FS_Subset
    <3>8. missing \in Nat
      BY Bounds
    <3>9. Cardinality(new) <= missing'
      <4>1. \A n, m, o, d \in Nat : n <= m /\ m <= o + 1 /\ o <= d => n <= d + 1
        OBVIOUS
      <4>2. QED
        BY <1>3, <3>2, <3>4, <3>6, <3>7, <3>8, <4>1
    <3>10. QED
      BY <3>3, <3>9
  <2>8. QED
    BY <2>3, <2>7 DEF Counts, MissingInv
<1>4. \/ Held' = Append(Held, Head(wire)) /\ missing' = missing
      \/ Held' = Held /\ missing' = missing + 1
  <2>1. hand' = hand /\ Head(wire) \in Segments
    BY <1>1 DEF Deliver
  <2>2. hand \o Append(queue, Head(wire)) = Append(Held, Head(wire))
    BY <2>1, Behind DEF Held
  <2>3. \/ queue' = Append(queue, Head(wire)) /\ missing' = missing
        \/ queue' = queue /\ missing' = missing + 1
    BY <1>1 DEF Deliver
  <2>4. QED
    BY <2>1, <2>2, <2>3 DEF Held
<1>5. QED
  BY <1>2, <1>3, <1>4

(* A report of the device, in its segments. *)
LEMMA SendPending ==
    ASSUME Types, Types', Counts, NEW lost \in 0..MaxMissing, NEW parts \in 1..2, SendReport(lost, parts)
    PROVE  /\ Heads(Pending') = Heads(Pending) \cup {[id |-> sent', seq |-> sqnum', part |-> 0]}
           /\ Ids(Pending') = Ids(Pending) \cup {sent'}
           /\ InOrder(Pending')
<1> DEFINE new == [n \in 1..parts |-> [id |-> sent', seq |-> sqnum', part |-> n - 1]]
<1>1. /\ sent \in Nat /\ sent' \in 1..MaxReports /\ sqnum' \in 0..Modulus - 1 /\ sent < sent'
      /\ wire' = wire \o new /\ Held' = Held
  BY Bounds DEF SendReport, Types, sub, Held
<1>2. new \in Seq(Segments) /\ Len(new) = parts /\ \A n \in 1..parts : new[n] = [id |-> sent', seq |-> sqnum', part |-> n - 1]
  BY <1>1, SentSegments
<1> HIDE DEF new
<1>3. Pending' = Pending \o new /\ Pending \in Seq(Segments)
  <2>1. Held \o (wire \o new) = (Held \o wire) \o new
    <3>1. Held \in Seq(Segments) /\ wire \in Seq(Segments)
      BY HeldType DEF Types
    <3>2. new \in Seq(Segments)
      BY <1>2
    <3>3. (Held \o wire) \o new = Held \o (wire \o new)
      BY <3>1, <3>2, ConcatAssociative
    <3>4. QED
      BY <3>3
  <2>2. QED
    BY <1>1, <2>1, PendingType DEF Pending
<1>4. \A r : r \in Heads(new) <=> r = [id |-> sent', seq |-> sqnum', part |-> 0]
  <2>1. \A r \in Heads(new) : r = [id |-> sent', seq |-> sqnum', part |-> 0]
    <3>1. \A n \in 1..parts : new[n].part = 0 => new[n] = [id |-> sent', seq |-> sqnum', part |-> 0]
      BY <1>2
    <3>2. QED
      BY <1>2, <3>1, HeadsAre
  <2>2. new[1] = [id |-> sent', seq |-> sqnum', part |-> 0] /\ 1 \in 1..Len(new)
    BY <1>2
  <2>3. [id |-> sent', seq |-> sqnum', part |-> 0] \in Heads(new)
    BY <2>2, HeadsAre
  <2>4. QED
    BY <2>1, <2>3
<1>5. \A r : r \in Heads(Pending') <=> r \in Heads(Pending) \cup Heads(new)
  BY <1>2, <1>3, InFront
<1>6. Heads(Pending') = Heads(Pending) \cup {[id |-> sent', seq |-> sqnum', part |-> 0]}
  BY <1>4, <1>5
<1>7. Ids(Pending') = Ids(Pending) \cup {sent'}
  <2> DEFINE head == [id |-> sent', seq |-> sqnum', part |-> 0]
  <2>1. head.id = sent' /\ Heads(Pending') = Heads(Pending) \cup {head}
    BY <1>6
  <2> HIDE DEF head
  <2>2. QED
    BY <2>1 DEF Ids
<1>8. ASSUME NEW m \in 1..Len(Pending'), NEW n \in 1..Len(Pending'), m < n,
             Pending'[m].part = 0, Pending'[n].part = 0
      PROVE  Pending'[m].id < Pending'[n].id
  <2>1. Len(Pending) \in Nat /\ Len(Pending') = Len(Pending) + parts
    BY <1>2, <1>3, ConcatProperties
  <2>2. \A k \in 1..Len(Pending) : Pending'[k] = Pending[k]
    BY <1>2, <1>3
  <2>3. \A k \in 1..Len(Pending') : k > Len(Pending) => Pending'[k] = new[k - Len(Pending)] /\ k - Len(Pending) \in 1..parts
    <3>1. ASSUME NEW k \in 1..Len(Pending'), k > Len(Pending)
          PROVE  Pending'[k] = new[k - Len(Pending)] /\ k - Len(Pending) \in 1..parts
      <4>1. k \in 1..Len(Pending) + Len(new)
        BY <1>2, <2>1
      <4>2. (Pending \o new)[k] = IF k <= Len(Pending) THEN Pending[k] ELSE new[k - Len(Pending)]
        BY <1>2, <1>3, <4>1, ConcatProperties
      <4>3. QED
        BY <1>2, <1>3, <2>1, <3>1, <4>1, <4>2
    <3>2. QED
      BY <3>1
  <2>4. \A k \in 1..Len(Pending') : k > Len(Pending) /\ Pending'[k].part = 0 => k = Len(Pending) + 1 /\ Pending'[k].id = sent'
    <3>1. ASSUME NEW k \in 1..Len(Pending'), k > Len(Pending), Pending'[k].part = 0
          PROVE  k = Len(Pending) + 1 /\ Pending'[k].id = sent'
      <4>1. new[k - Len(Pending)] = [id |-> sent', seq |-> sqnum', part |-> k - Len(Pending) - 1]
        BY <1>2, <2>3, <3>1
      <4>2. Pending'[k] = new[k - Len(Pending)]
        BY <2>3, <3>1
      <4>3. k - Len(Pending) - 1 = 0 /\ Pending'[k].id = sent'
        BY <3>1, <4>1, <4>2
      <4>4. QED
        BY <2>1, <4>3
    <3>2. QED
      BY <3>1
  <2>5. CASE n \in 1..Len(Pending)
    <3>1. m \in 1..Len(Pending)
      BY <1>8, <2>1, <2>5
    <3>2. QED
      BY <1>8, <2>2, <2>5, <3>1 DEF Counts, OrderInv, InOrder
  <2>6. CASE n \notin 1..Len(Pending)
    <3>1. n = Len(Pending) + 1 /\ Pending'[n].id = sent'
      BY <1>8, <2>1, <2>4, <2>6
    <3>2. m \in 1..Len(Pending) /\ Pending'[m] = Pending[m]
      BY <1>8, <2>1, <2>2, <3>1
    <3>3. Pending[m].id \in Ids(Pending)
      BY <1>8, <3>2, IdsAre
    <3>4. Pending[m].id <= sent /\ Pending[m].id \in Nat
      <4>1. Pending[m].id <= sent
        BY <3>3 DEF Counts, OrderInv
      <4>2. Pending[m].id \in 1..MaxReports
        BY <3>3, PendingType
      <4>3. QED
        BY <4>1, <4>2, Bounds
    <3>5. sent \in Nat /\ sent' \in Nat
      BY <1>1, Bounds
    <3>6. Pending[m].id < sent'
      <4>1. \A x, y, z \in Nat : x <= y /\ y < z => x < z
        OBVIOUS
      <4>2. sent < sent'
        BY <1>1
      <4>3. QED
        BY <3>4, <3>5, <4>1, <4>2
    <3>7. QED
      BY <3>1, <3>2, <3>6
  <2>7. QED
    BY <2>5, <2>6
<1>9. InOrder(Pending')
  BY <1>8 DEF InOrder
<1>10. QED
  BY <1>6, <1>7, <1>9

LEMMA StampsType ==
    ASSUME Types, OrderInv
    PROVE  \A s \in Stamps : s.id \in Nat /\ s.seq \in 0..Modulus - 1 /\ s.id <= sent
<1>1. \A s \in LastShown : s.id \in Nat /\ s.seq \in 0..Modulus - 1 /\ s.id <= sent
  <2>1. shown # <<>> => Last(shown) \in Nat
    BY Bounds DEF Types, Last
  <2>2. shown # <<>> => lastSeq \in 0..Modulus - 1
    BY Bounds DEF Types, OrderInv
  <2>3. QED
    BY <2>1, <2>2 DEF LastShown, OrderInv
<1>2. \A r \in Heads(Pending) : r.id \in Nat /\ r.seq \in 0..Modulus - 1 /\ r.id <= sent
  <2>1. \A r \in Heads(Pending) : r.id \in Ids(Pending) /\ r \in Segments
    BY PendingType DEF Ids
  <2>2. QED
    BY <2>1, Bounds DEF Segments, OrderInv
<1>3. \A s \in LastSent : s.id \in Nat /\ s.seq \in 0..Modulus - 1 /\ s.id <= sent
  BY Bounds DEF LastSent, Types
<1>4. QED
  BY <1>1, <1>2, <1>3 DEF Stamps

LEMMA CountsSend ==
    ASSUME Types, Types', Counts, NEW lost \in 0..MaxMissing, NEW parts \in 1..2, SendReport(lost, parts)
    PROVE  Counts'
<1> DEFINE N == [id |-> sent', seq |-> sqnum']
<1>1. /\ enabled /\ enabled' /\ sent' = sent + lost + 1 /\ sqnum' = (sqnum + lost + 1) % Modulus
      /\ missing' = missing + lost /\ UNCHANGED <<shown, lastSeq, gaps>>
  BY DEF SendReport, sub
<1>2. sent \in Nat /\ sent' \in Nat /\ lost \in Nat /\ sqnum \in Nat /\ missing \in Nat /\ sent < sent'
  BY <1>1, Bounds DEF Types
<1>3. /\ Heads(Pending') = Heads(Pending) \cup {[id |-> sent', seq |-> sqnum', part |-> 0]}
      /\ Ids(Pending') = Ids(Pending) \cup {sent'}
      /\ InOrder(Pending')
  BY SendPending
<1>4. LastShown' = LastShown /\ LastSent' = {N} /\ [id |-> sent, seq |-> sqnum] \in Stamps
  BY <1>1 DEF LastShown, LastSent, Stamps
<1>5. \A s \in Stamps : s.id \in Nat /\ s.seq \in 0..Modulus - 1 /\ s.id <= sent
  BY StampsType DEF Counts
<1>6. Ids(Pending) \subseteq Nat /\ \A i \in Ids(Pending) : i <= sent
  BY PendingType, Bounds DEF Counts, OrderInv
<1>7. \A s \in LastShown : s.id \in Nat /\ s.id <= sent
  BY <1>5 DEF Stamps
<1>8. OrderInv'
  <2>1. \A i \in Ids(Pending') : i <= sent' /\ \A s \in LastShown' : s.id < i
    BY <1>2, <1>3, <1>4, <1>6, <1>7 DEF Counts, OrderInv
  <2>2. \A s \in LastShown' : s.id <= sent'
    BY <1>2, <1>4, <1>7
  <2>3. (lastSeq' = -1 <=> shown' = <<>>) /\ (shown' = <<>> => gaps' = 0)
    BY <1>1 DEF Counts, OrderInv
  <2>4. QED
    BY <1>3, <2>1, <2>2, <2>3 DEF OrderInv
<1>9. NumberInv'
  <2>1. Stamps' \subseteq Stamps \cup {N}
    BY <1>3, <1>4 DEF Stamps
  <2>2. ASSUME NEW s \in Stamps PROVE KeepsCount(s, N)
    <3>1. s.id \in Nat /\ s.seq \in Nat /\ s.id <= sent
      BY <1>5, Bounds
    <3>2. KeepsCount(s, [id |-> sent, seq |-> sqnum])
      BY <1>4, <3>1 DEF Counts, NumberInv
    <3>3. sqnum = (s.seq + (sent - s.id)) % Modulus
      BY <3>2 DEF KeepsCount
    <3>4. PICK x \in Nat : x = s.seq + (sent - s.id)
      BY <1>2, <3>1
    <3>5. PICK y \in Nat : y = lost + 1
      BY <1>2
    <3>6. ((x % Modulus) + y) % Modulus = (x + y) % Modulus
      <4>1. Modulus \in Nat \ {0}
        BY Bounds
      <4>2. QED
        BY <4>1, ModPlus
    <3>7. x + y = s.seq + (sent' - s.id) /\ sqnum + lost + 1 = sqnum + y
      BY <1>1, <1>2, <3>1, <3>4, <3>5
    <3>8. sqnum' = (x + y) % Modulus
      BY <1>1, <3>3, <3>4, <3>6, <3>7
    <3>9. QED
      BY <3>7, <3>8 DEF KeepsCount
  <2>3. KeepsCount(N, N)
    <3>1. \A m \in Nat : \A x \in 0..m - 1, y \in Nat : (x + (y - y)) % m = x
      <4>1. \A m \in Nat : \A x \in 0..m - 1 : x % m = x
        OBVIOUS
      <4>2. \A x \in Nat, y \in Nat : x + (y - y) = x
        OBVIOUS
      <4>3. QED
        BY <4>1, <4>2
    <3>2. Modulus \in Nat /\ sqnum' \in 0..Modulus - 1 /\ sent' \in Nat
      BY Bounds DEF Types
    <3>3. QED
      BY <3>1, <3>2 DEF KeepsCount
  <2>4. ASSUME NEW a \in Stamps', NEW b \in Stamps', a.id <= b.id PROVE KeepsCount(a, b)
    <3>1. CASE b = N
      BY <2>1, <2>2, <2>3, <3>1
    <3>2. CASE b # N
      <4>1. b \in Stamps /\ b.id \in Nat /\ b.id <= sent
        BY <1>5, <2>1, <3>2
      <4>2. a # N
        BY <1>2, <2>4, <4>1
      <4>3. a \in Stamps
        BY <2>1, <4>2
      <4>4. QED
        BY <2>4, <4>1, <4>3 DEF Counts, NumberInv
    <3>3. QED
      BY <3>1, <3>2
  <2>5. QED
    BY <2>4 DEF NumberInv, KeepsCount
<1>10. MissingInv'
  <2>1. From' = From \cup {sent'} /\ Until' = Ids(Pending) \cup {sent', sent' + 1}
    BY <1>1, <1>3, <1>4 DEF From, Until
  <2>2. From \subseteq Nat /\ \A a \in From : a <= sent
    BY <1>6, <1>7 DEF From
  <2>3. sent + 1 \in Until /\ Ids(Pending) \subseteq Until
    BY <1>1 DEF Until
  <2>4. ASSUME NEW a \in From', NEW b \in Until' PROVE Cardinality(Absent(a, b)') <= missing'
    <3>11. PICK u \in Int : u = sent + 1
      BY <1>2
    <3>12. PICK v \in Int : v = sent + lost
      BY <1>2
    <3> DEFINE new == (a + 1..b - 1) \ Ids(Pending')
               end == (a + 1..u - 1) \ Ids(Pending)
               here == (a + 1..b - 1) \ Ids(Pending)
               skipped == u..v
    <3>1. a \in Int /\ b \in Int /\ a \in Nat /\ b \in Nat
      BY <1>2, <1>6, <2>1, <2>2
    <3>2. IsFiniteSet(new) /\ Cardinality(new) \in Nat
      BY <3>1, Between
    <3>3. IsFiniteSet(end) /\ Cardinality(end) \in Nat
      BY <3>1, Between
    <3>4. IsFiniteSet(here) /\ Cardinality(here) \in Nat
      BY <3>1, Between
    <3>5. Absent(a, b)' = new /\ Absent(a, b) = here /\ Absent(a, u) = end
      BY DEF Absent
    <3>6. IsFiniteSet(skipped) /\ Cardinality(skipped) = lost
      <4>1. IsFiniteSet(skipped) /\ Cardinality(skipped) = IF u > v THEN 0 ELSE v - u + 1
        BY FS_Interval
      <4>2. QED
        BY <1>2, <3>11, <3>12, <4>1
    <3>7. CASE a = sent'
      <4>1. new = {}
        <5>1. b <= sent' + 1
          BY <1>2, <1>6, <2>1
        <5>2. ~(a + 1 <= b - 1)
          <6>1. \A x, y \in Int : y <= x + 1 => ~(x + 1 <= y - 1)
            OBVIOUS
          <6>2. b <= a + 1
            BY <3>7, <5>1
          <6>3. QED
            BY <3>1, <6>1, <6>2
        <5>3. \A x, y \in Int : ~(x <= y) => x..y = {}
          OBVIOUS
        <5>4. QED
          BY <3>1, <5>2, <5>3
      <4> HIDE DEF new
      <4>2. Cardinality(new) = 0
        BY <4>1, FS_EmptySet
      <4>3. QED
        BY <1>1, <1>2, <3>5, <4>2
    <3>8. CASE a # sent' /\ b \in Ids(Pending)
      <4>1. Cardinality(here) <= missing
        BY <2>1, <2>3, <3>5, <3>8 DEF Counts, MissingInv
      <4>2. new \in SUBSET here
        BY <1>3
      <4> HIDE DEF new, here
      <4>3. Cardinality(new) <= Cardinality(here)
        BY <3>4, <4>2, FS_Subset
      <4>4. \A n, o, d, l \in Nat : n <= o /\ o <= d => n <= d + l
        OBVIOUS
      <4>5. QED
        BY <1>1, <1>2, <3>2, <3>4, <3>5, <4>1, <4>3, <4>4
    <3>9. CASE a # sent' /\ b \notin Ids(Pending)
      <4>1. a \in From /\ b \in {sent', sent' + 1}
        BY <2>1, <3>9
      <4>2. Cardinality(end) <= missing
        BY <2>3, <3>5, <3>11, <4>1 DEF Counts, MissingInv
      <4>3. new \in SUBSET (end \cup skipped)
        <5>1. ASSUME NEW i \in new PROVE i \in end \cup skipped
          <6>1. i \in Int /\ a + 1 <= i /\ i <= b - 1 /\ i \notin Ids(Pending) /\ i # sent'
            BY <1>3, <3>1
          <6>2. i <= sent + lost
            BY <1>1, <1>2, <4>1, <6>1
          <6>3. QED
            BY <1>2, <3>1, <3>11, <3>12, <6>1, <6>2
        <5>2. QED
          BY <5>1
      <4> HIDE DEF new, end, skipped
      <4>4. /\ IsFiniteSet(end \cup skipped)
            /\ Cardinality(end \cup skipped) = Cardinality(end) + lost - Cardinality(end \cap skipped)
        BY <3>3, <3>6, FS_Union
      <4>5. Cardinality(end \cap skipped) \in Nat
        <5>1. end \cap skipped \in SUBSET end
          OBVIOUS
        <5>2. IsFiniteSet(end \cap skipped)
          BY <3>3, <5>1, FS_Subset
        <5>3. QED
          BY <5>2, FS_CardinalityType
      <4>6. Cardinality(new) <= Cardinality(end \cup skipped)
        BY <4>3, <4>4, FS_Subset
      <4>7. \A n, e, i, d, l \in Nat : n <= e + l - i /\ e <= d => n <= d + l
        OBVIOUS
      <4>8. Cardinality(new) <= Cardinality(end) + lost - Cardinality(end \cap skipped)
        BY <4>4, <4>6
      <4>9. Cardinality(new) <= missing + lost
        BY <1>2, <3>2, <3>3, <4>2, <4>5, <4>7, <4>8
      <4>10. QED
        BY <1>1, <3>5, <4>9
    <3>10. QED
      BY <3>7, <3>8, <3>9
  <2>5. QED
    BY <2>4 DEF MissingInv
<1>11. GapsAreTrue'
  BY <1>1 DEF Counts, GapsAreTrue
<1>12. QED
  BY <1>8, <1>9, <1>10, <1>11 DEF Counts

(* A segment that does not begin a report counts for nothing. *)
LEMMA CountsSkip ==
    ASSUME Types, Types', Counts, ShowReport, Head(hand).part # 0
    PROVE  Counts'
<1>1. hand # <<>> /\ UNCHANGED <<gaps, lastSeq, shown, sent, sqnum, enabled, missing, wire>> /\ hand' = <<>> /\ queue' = queue
  BY DEF ShowReport, device, net
<1>2. Pending # <<>> /\ Pending' = Tail(Pending) /\ Head(Pending) = Head(hand) /\ Pending \in Seq(Segments)
  <2>1. Held # <<>> /\ Held' = Tail(Held) /\ Head(Held) = Head(hand)
    BY <1>1, Displayed
  <2>2. Tail(Held) \o wire = Tail(Pending) /\ Head(Pending) = Head(Held) /\ Pending # <<>>
    BY <2>1, HeldType, Ahead DEF Pending, Types
  <2>3. Pending' = Tail(Held) \o wire
    BY <1>1, <2>1 DEF Pending
  <2>4. QED
    BY <2>1, <2>2, <2>3, PendingType
<1>3. Within(Pending', Pending) /\ \A r \in Heads(Pending) : r = Head(Pending) \/ r \in Heads(Pending')
  BY <1>2, HeadOut
<1>4. OrderInv' /\ NumberInv' /\ GapsAreTrue'
  BY <1>1, <1>3, Shrunk DEF Counts
<1>5. \A r \in Heads(Pending) : r.part = 0
  BY HeadsAre
<1>6. Heads(Pending) \subseteq Heads(Pending')
  BY <1>2, <1>3, <1>5
<1>7. Pending' \in Seq(Segments)
  BY <1>2
<1>8. Ids(Pending') = Ids(Pending)
  BY <1>2, <1>3, <1>6, <1>7, WithinKeeps DEF Ids
<1>9. From' = From /\ Until' = Until
  BY <1>1, <1>8 DEF From, Until, LastShown
<1>10. MissingInv'
  BY <1>1, <1>8, <1>9 DEF Counts, MissingInv, Absent
<1>11. QED
  BY <1>4, <1>10 DEF Counts

(* The gap before the next report is what is missing between it and the one displayed last. *)
LEMMA GapTaken ==
    ASSUME Types, Counts, hand # <<>>, Head(hand).part = 0, shown # <<>>
    PROVE  Gap(Head(hand).seq) = Head(hand).id - Last(shown) - 1 /\ Last(shown) < Head(hand).id
<1> DEFINE r == Head(hand)
           L == Last(shown)
<1>1. Pending # <<>> /\ Head(Pending) = r /\ Pending \in Seq(Segments)
  <2>1. Held # <<>> /\ Head(Held) = r
    BY Ahead DEF Held, Types
  <2>2. QED
    BY <2>1, HeldType, Ahead, PendingType DEF Pending, Types
<1>2. r \in Heads(Pending) /\ r \in Segments /\ \A i \in Ids(Tail(Pending)) : r.id < i
  BY <1>1, HeadOut DEF Counts, OrderInv
<1>3. \A i \in Ids(Pending) : i = r.id \/ i \in Ids(Tail(Pending))
  BY <1>1, HeadOut DEF Ids
<1>4. r.id \in Ids(Pending) /\ r.id \in 1..MaxReports /\ r.seq \in 0..Modulus - 1
  BY <1>2 DEF Ids, Segments
<1>5. LastShown = {[id |-> L, seq |-> lastSeq]}
  BY DEF LastShown
<1>6. L \in Nat /\ L < r.id /\ lastSeq \in 0..Modulus - 1
  <2>1. L < r.id
    BY <1>4, <1>5 DEF Counts, OrderInv
  <2>2. [id |-> L, seq |-> lastSeq] \in Stamps
    BY <1>5 DEF Stamps
  <2>3. QED
    BY <2>1, <2>2, StampsType DEF Counts
<1>7. L \in Int /\ r.id \in Int /\ r.id \in Nat
  BY <1>4, <1>6, Bounds
<1> DEFINE lost == r.id - L - 1
           span == L + 1..r.id - 1
<1>8. lost \in Nat
  BY <1>6, <1>7
<1>9. Cardinality(span) = lost
  <2>1. Cardinality(span) = IF L + 1 > r.id - 1 THEN 0 ELSE r.id - 1 - (L + 1) + 1
    <3>1. PICK u \in Int : u = L + 1
      BY <1>7
    <3>2. PICK v \in Int : v = r.id - 1
      BY <1>7
    <3>3. Cardinality(u..v) = IF u > v THEN 0 ELSE v - u + 1
      BY FS_Interval
    <3>4. QED
      BY <3>1, <3>2, <3>3
  <2>2. \A x, y \in Int : x < y => (IF x + 1 > y - 1 THEN 0 ELSE y - 1 - (x + 1) + 1) = y - x - 1
    OBVIOUS
  <2>3. QED
    BY <1>6, <1>7, <2>1, <2>2
<1>10. Absent(L, r.id) = span
  <2>1. \A i \in Ids(Pending) : r.id <= i /\ i \in Int
    <3>1. Ids(Pending) \subseteq Nat
      BY PendingType, Bounds
    <3>2. QED
      BY <1>2, <1>3, <1>7, <3>1
  <2>2. \A i \in span : i < r.id /\ i \in Int
    BY <1>7
  <2>3. \A i \in span : i \notin Ids(Pending)
    BY <1>7, <2>1, <2>2
  <2>4. QED
    BY <2>3 DEF Absent
<1>11. lost <= missing
  <2>1. L \in From /\ r.id \in Until
    BY <1>4, <1>5 DEF From, Until
  <2>2. Cardinality(Absent(L, r.id)) <= missing
    BY <2>1 DEF Counts, MissingInv
  <2>3. QED
    BY <1>9, <1>10, <2>2
<1>12. lost \in 0..Modulus - 2
  BY <1>8, <1>11, Bounds DEF Types
<1>13. r.seq = (lastSeq + (r.id - L)) % Modulus
  <2>1. [id |-> L, seq |-> lastSeq] \in Stamps /\ [id |-> r.id, seq |-> r.seq] \in Stamps
    BY <1>2, <1>5 DEF Stamps
  <2>2. L <= r.id
    BY <1>6, <1>7
  <2>3. KeepsCount([id |-> L, seq |-> lastSeq], [id |-> r.id, seq |-> r.seq])
    BY <2>1, <2>2 DEF Counts, NumberInv
  <2>4. QED
    BY <2>3 DEF KeepsCount
<1>14. lastSeq + (r.id - L) = lastSeq + 1 + lost
  BY <1>6, <1>7, Bounds
<1>15. r.seq = (lastSeq + 1 + lost) % Modulus
  BY <1>13, <1>14
<1> HIDE DEF lost
<1>16. Gap((lastSeq + 1 + lost) % Modulus) = lost
  BY <1>6, <1>12, GapIsExact
<1>17. QED
  BY <1>6, <1>15, <1>16 DEF lost

LEMMA CountsTake ==
    ASSUME Types, Types', Counts, ShowReport, Head(hand).part = 0
    PROVE  Counts'
<1> DEFINE r == Head(hand)
<1>1. /\ hand # <<>> /\ hand' = <<>> /\ queue' = queue /\ UNCHANGED <<sent, sqnum, enabled, missing, wire>>
      /\ gaps' = gaps + Gap(r.seq) /\ lastSeq' = r.seq /\ shown' = Append(shown, r.id)
  BY DEF ShowReport, device, net
<1>2. Pending # <<>> /\ Pending' = Tail(Pending) /\ Head(Pending) = r /\ Pending \in Seq(Segments)
  <2>1. Held # <<>> /\ Held' = Tail(Held) /\ Head(Held) = Head(hand)
    BY <1>1, Displayed
  <2>2. Tail(Held) \o wire = Tail(Pending) /\ Head(Pending) = Head(Held) /\ Pending # <<>>
    BY <2>1, HeldType, Ahead DEF Pending, Types
  <2>3. Pending' = Tail(Held) \o wire
    BY <1>1, <2>1 DEF Pending
  <2>4. QED
    BY <2>1, <2>2, <2>3, PendingType
<1>3. /\ Within(Pending', Pending) /\ r \in Heads(Pending) /\ r \in Segments
      /\ \A h \in Heads(Pending) : h = r \/ h \in Heads(Pending')
      /\ \A i \in Ids(Pending') : r.id < i
  BY <1>2, HeadOut DEF Counts, OrderInv
<1>4. Heads(Pending') \subseteq Heads(Pending) /\ Ids(Pending') \subseteq Ids(Pending) /\ InOrder(Pending')
  <2>1. Pending' \in Seq(Segments)
    BY <1>2
  <2>2. QED
    BY <1>2, <1>3, <2>1, WithinKeeps DEF Counts, OrderInv
<1>5. r.id \in Ids(Pending) /\ r.id \in 1..MaxReports /\ r.seq \in 0..Modulus - 1
  BY <1>3 DEF Ids, Segments
<1>6. /\ shown' \in Seq(1..MaxReports) /\ shown' # <<>> /\ Len(shown') = Len(shown) + 1 /\ Len(shown) \in Nat
      /\ Last(shown') = r.id /\ shown'[Len(shown) + 1] = r.id
      /\ \A n \in 1..Len(shown) : shown'[n] = shown[n]
  <2>1. shown \in Seq(1..MaxReports) /\ Len(shown) \in Nat
    BY DEF Types
  <2>2. /\ Append(shown, r.id) \in Seq(1..MaxReports) /\ Append(shown, r.id) # <<>>
        /\ Len(Append(shown, r.id)) = Len(shown) + 1 /\ Append(shown, r.id)[Len(shown) + 1] = r.id
        /\ \A n \in 1..Len(shown) : Append(shown, r.id)[n] = shown[n]
    BY <1>5, <2>1, AppendProperties
  <2>3. QED
    BY <1>1, <2>1, <2>2 DEF Last
<1>7. LastShown' = {[id |-> r.id, seq |-> r.seq]} /\ LastSent' = LastSent
  BY <1>1, <1>6 DEF LastShown, LastSent
<1>8. OrderInv'
  <2>1. \A i \in Ids(Pending') : i <= sent' /\ \A s \in LastShown' : s.id < i
    BY <1>1, <1>3, <1>4, <1>7 DEF Counts, OrderInv
  <2>2. \A s \in LastShown' : s.id <= sent'
    BY <1>1, <1>5, <1>7 DEF Counts, OrderInv
  <2>3. lastSeq' # -1 /\ shown' # <<>>
    <3>1. r.seq # -1
      BY <1>5, Bounds
    <3>2. QED
      BY <1>1, <1>6, <3>1
  <2>4. QED
    BY <1>4, <2>1, <2>2, <2>3 DEF OrderInv
<1>9. NumberInv'
  <2>1. Stamps' \subseteq Stamps
    BY <1>3, <1>4, <1>7 DEF Stamps
  <2>2. QED
    BY <2>1 DEF Counts, NumberInv, KeepsCount
<1>10. MissingInv'
  <2>1. From' = {r.id} \cup Ids(Pending')
    BY <1>7 DEF From
  <2>2. From' \subseteq From /\ Until' \subseteq Until
    BY <1>1, <1>4, <1>5, <2>1 DEF From, Until
  <2>3. ASSUME NEW a \in From', NEW b \in Until' PROVE Absent(a, b)' \subseteq Absent(a, b)
    <3>1. a \in Int /\ b \in Int /\ r.id \in Int
      BY <1>5, <2>2, FromUntilType, Bounds
    <3>2. r.id <= a
      BY <1>3, <2>1, <3>1
    <3>3. \A i \in a + 1..b - 1 : i # r.id
      BY <3>1, <3>2
    <3>4. \A i \in Ids(Pending) : i = r.id \/ i \in Ids(Pending')
      BY <1>3 DEF Ids
    <3>5. QED
      BY <3>3, <3>4 DEF Absent
  <2>4. missing' >= missing
    BY <1>1, Bounds DEF Types
  <2>5. QED
    BY <2>2, <2>3, <2>4, NoMoreAbsent DEF Counts
<1>11. GapsAreTrue'
  <2>1. CASE shown = <<>>
    <3>1. Len(shown) = 0 /\ lastSeq = -1 /\ gaps = 0
      BY <2>1 DEF Counts, OrderInv
    <3>2. gaps' = 0
      BY <1>1, <3>1 DEF Gap
    <3>3. Len(shown') = 1 /\ shown'[1] = r.id
      BY <1>6, <3>1
    <3>4. Last(shown') - shown'[1] + 1 - Len(shown') = 0
      <4>1. \A x \in Nat : x - x + 1 - 1 = 0
        OBVIOUS
      <4>2. r.id \in Nat
        BY <1>5, Bounds
      <4>3. QED
        BY <1>6, <3>3, <4>1, <4>2
    <3>5. QED
      BY <3>2, <3>3, <3>4 DEF GapsAreTrue
  <2>2. CASE shown # <<>>
    <3>1. Gap(r.seq) = r.id - Last(shown) - 1 /\ Last(shown) < r.id
      BY <1>1, <2>2, GapTaken
    <3>2. Len(shown) \in Nat \ {0} /\ Last(shown) = shown[Len(shown)] /\ shown[1] \in Nat /\ Last(shown) \in Nat
      <4>1. shown \in Seq(1..MaxReports) /\ Len(shown) \in Nat \ {0}
        BY <2>2, EmptySeq DEF Types
      <4>2. shown[1] \in 1..MaxReports /\ shown[Len(shown)] \in 1..MaxReports
        <5>1. 1 \in 1..Len(shown) /\ Len(shown) \in 1..Len(shown)
          BY <4>1
        <5>2. QED
          BY <4>1, <5>1, ElementOfSeq
      <4>3. QED
        BY <4>1, <4>2, Bounds DEF Last
    <3>3. \A n \in 1..Len(shown') - 1 : shown'[n] < shown'[n + 1]
      <4>1. ASSUME NEW n \in 1..Len(shown') - 1 PROVE shown'[n] < shown'[n + 1]
        <5>1. CASE n = Len(shown)
          <6>1. n \in 1..Len(shown)
            BY <3>2, <5>1
          <6>2. QED
            BY <1>6, <3>1, <3>2, <5>1, <6>1
        <5>2. CASE n # Len(shown)
          <6>1. n \in 1..Len(shown) - 1 /\ n \in 1..Len(shown) /\ n + 1 \in 1..Len(shown)
            BY <1>6, <3>2, <5>2
          <6>2. shown[n] < shown[n + 1]
            BY <2>2, <6>1 DEF Counts, GapsAreTrue
          <6>3. QED
            BY <1>6, <6>1, <6>2
        <5>3. QED
          BY <5>1, <5>2
      <4>2. QED
        BY <4>1
    <3>4. gaps = Last(shown) - shown[1] + 1 - Len(shown)
      BY <2>2 DEF Counts, GapsAreTrue
    <3>5. shown'[1] = shown[1]
      BY <1>6, <3>2
    <3>6. gaps' = r.id - shown[1] + 1 - (Len(shown) + 1)
      <4>2. r.id \in Nat /\ Len(shown) \in Nat
        BY <1>5, <3>2, Bounds
      <4>3. gaps' = (Last(shown) - shown[1] + 1 - Len(shown)) + (r.id - Last(shown) - 1)
        BY <1>1, <3>1, <3>4
      <4>4. Last(shown) \in Nat /\ shown[1] \in Nat
        BY <3>2
      <4>5. (Last(shown) - shown[1] + 1 - Len(shown)) + (r.id - Last(shown) - 1) = r.id - shown[1] + 1 - (Len(shown) + 1)
        <5> DEFINE i == r.id
                   l == Last(shown)
                   f == shown[1]
                   n == Len(shown)
        <5>1. i \in Nat /\ l \in Nat /\ f \in Nat /\ n \in Nat
          BY <4>2, <4>4
        <5> HIDE DEF i, l, f, n
        <5>2. (l - f + 1 - n) + (i - l - 1) = i - f + 1 - (n + 1)
          BY <5>1
        <5>3. QED
          BY <5>2 DEF i, l, f, n
      <4>6. QED
        BY <4>3, <4>5
    <3>7. QED
      BY <1>6, <3>3, <3>5, <3>6 DEF GapsAreTrue
  <2>3. QED
    BY <2>1, <2>2
<1>12. QED
  BY <1>8, <1>9, <1>10, <1>11 DEF Counts

-----------------------------------------------------------------------------
(* Every step *)

LEMMA CountsStep ==
    ASSUME Uninterrupted, Types, Types', StreamInv, Counts, [Next]_vars
    PROVE  Counts'
<1> USE DEF device, net, flags, sub
<1>1. ASSUME NEW lost \in 0..MaxMissing, NEW parts \in 1..2, SendReport(lost, parts) PROVE Counts'
  BY <1>1, CountsSend
<1>2. CASE Deliver
  BY <1>2, CountsDeliver
<1>3. CASE Lose
  BY <1>3, CountsCut DEF Lose, Held
<1>4. CASE OnClosed
  BY <1>4, CountsSame DEF OnClosed, Held
<1>5. CASE Open
  <2>1. ~enabled' /\ wire' = <<>> /\ UNCHANGED <<Held, shown, lastSeq, sent, sqnum, gaps, missing>>
    BY <1>5 DEF Open, StreamInv, Held
  <2>2. QED
    BY <2>1, CountsCut
<1>6. CASE Listen
  BY <1>6, CountsSame DEF Listen, Held
<1>7. CASE Disconnect
  BY <1>7, CountsCut DEF Disconnect, Held
<1>8. ASSUME NEW kept \in BOOLEAN, Subscribe(kept) PROVE Counts'
  BY <1>8, CountsBegin
<1>9. ASSUME NEW kept \in BOOLEAN, Resume(kept) PROVE Counts'
  BY <1>9, CountsSame DEF Resume, Held
<1>10. CASE TakeReport
  <2>1. Held' = Held
    BY <1>10, Taken
  <2>2. QED
    BY <1>10, <2>1, CountsSame DEF TakeReport
<1>17. CASE ShowReport
  BY <1>17, CountsSkip, CountsTake
<1>11. CASE DisplayLost \/ DisplayEnds
  BY <1>11, CountsSame DEF DisplayLost, DisplayEnds, CutShort, Uninterrupted, Held
<1>12. CASE Unsubscribe
  <2>1. ~enabled' /\ wire' = <<>> /\ UNCHANGED <<Held, shown, lastSeq, sent, sqnum, gaps, missing>>
    BY <1>12 DEF Unsubscribe, StreamInv, Held
  <2>2. QED
    BY <2>1, CountsCut
<1>13. CASE EndDisplay
  BY <1>12, <1>13, CountsSame DEF EndDisplay, Held
<1>14. CASE StopKept
  BY <1>12, <1>14 DEF StopKept
<1>15. CASE UNCHANGED vars
  BY <1>15, CountsSame DEF vars, Held
<1>16. QED
  BY <1>1, <1>2, <1>3, <1>4, <1>5, <1>6, <1>7, <1>8, <1>9, <1>10, <1>11, <1>13, <1>14, <1>15, <1>17 DEF Next

LEMMA CountsInit ==
    ASSUME Init
    PROVE  Types /\ StreamInv /\ Counts
<1>1. Types
  <2>1. <<>> \in Seq(Segments) /\ <<>> \in Seq(1..MaxReports)
    BY EmptySeq
  <2>4. Len(<<>>) <= 1
    OBVIOUS
  <2>2. 0 \in 0..Modulus - 1 /\ 0 \in 0..MaxReports /\ 0 \in 0..MaxMissing /\ -1 \in -1..Modulus - 1 /\ 0 \in Nat
    BY Bounds
  <2>3. QED
    BY <2>1, <2>2, <2>4 DEF Init, Types
<1>2. StreamInv
  BY DEF Init, StreamInv
<1>3. Pending = <<>>
  BY ConcatEmptySeq, EmptySeq DEF Init, Held, Pending
<1>4. Heads(Pending) = {} /\ Ids(Pending) = {} /\ InOrder(Pending)
  BY <1>3, EmptySeq DEF Heads, Ids, InOrder
<1>5. LastShown = {} /\ LastSent = {}
  BY DEF Init, LastShown, LastSent
<1>6. OrderInv /\ NumberInv /\ MissingInv /\ GapsAreTrue
  BY <1>4, <1>5 DEF Init, OrderInv, NumberInv, MissingInv, GapsAreTrue, Stamps, From
<1>7. QED
  BY <1>1, <1>2, <1>6 DEF Counts

LEMMA RangeOf ==
    ASSUME NEW S, NEW s \in Seq(S)
    PROVE  Range(s) \subseteq S
<1>1. DOMAIN s = 1..Len(s) /\ \A n \in 1..Len(s) : s[n] \in S
  BY LenProperties, ElementOfSeq
<1>2. QED
  BY <1>1 DEF Range

StreamIInv == Types /\ StreamInv /\ Counts

LEMMA StreamInductive == ASSUME Uninterrupted PROVE Spec => []StreamIInv
<1>1. Init => StreamIInv
  BY CountsInit DEF StreamIInv
<1>2. StreamIInv /\ [Next]_vars => StreamIInv'
  BY TypesStep, StreamStep, CountsStep DEF StreamIInv
<1>3. QED
  BY <1>1, <1>2, PTL DEF Spec

(* The variables keep to their types; `gaps` never exceeds the reports there were. *)
THEOREM ReportTypes == ASSUME Uninterrupted PROVE Spec => []TypeOK
<1>1. ASSUME StreamIInv PROVE TypeOK
  <2>1. Range(wire) \cup Range(queue) \cup Range(hand) \subseteq Segments /\ Range(shown) \subseteq 1..MaxReports
    BY <1>1, RangeOf DEF StreamIInv, Types
  <2>2. gaps \in 0..MaxReports
    <3>1. CASE shown = <<>>
      BY <1>1, <3>1, Bounds DEF StreamIInv, Counts, OrderInv
    <3>2. CASE shown # <<>>
      <4>1. shown \in Seq(1..MaxReports) /\ Len(shown) \in Nat \ {0}
        BY <1>1, <3>2, EmptySeq DEF StreamIInv, Types
      <4>2. shown[1] \in 1..MaxReports /\ Last(shown) \in 1..MaxReports
        <5>1. 1 \in 1..Len(shown) /\ Len(shown) \in 1..Len(shown)
          BY <4>1
        <5>2. QED
          BY <4>1, <5>1, ElementOfSeq DEF Last
      <4>3. gaps = Last(shown) - shown[1] + 1 - Len(shown) /\ gaps \in Nat
        BY <1>1, <3>2 DEF StreamIInv, Counts, GapsAreTrue, Types
      <4>4. \A n \in Nat : \A l, f \in 1..n, c \in Nat \ {0}, g \in Nat : g = l - f + 1 - c => g \in 0..n
        OBVIOUS
      <4>5. QED
        BY <4>1, <4>2, <4>3, <4>4, Bounds
    <3>3. QED
      BY <3>1, <3>2
  <2>3. QED
    BY <1>1, <2>1, <2>2 DEF StreamIInv, Types, TypeOK
<1>2. QED
  BY <1>1, StreamInductive, PTL

(* RPT-2: the reports displayed for a subscription are in the order of the device, and the gaps flagged between them *)
(* add up to exactly those that were not displayed: for any width of SqNum, any number of reports in one or two      *)
(* segments, lost on the way or dropped by on_report, and any sequence of kept, resumed and ended displays, losses    *)
(* and new associations.  Fewer than Modulus - 1 may be missing, which a repetition would look like, and no Ctrl-C    *)
(* may come between taking a report from the queue and having displayed it.                                          *)
THEOREM EveryGapIsTrue == ASSUME Uninterrupted PROVE Spec => []GapsAreTrue
<1>1. StreamIInv => GapsAreTrue
  BY DEF StreamIInv, Counts
<1>2. QED
  BY <1>1, StreamInductive, PTL

LEMMA PrefixRefl ==
    ASSUME NEW s \in Seq(Segments)
    PROVE  IsPrefix(s, s)
BY DEF IsPrefix

LEMMA PrefixAppend ==
    ASSUME NEW s \in Seq(Segments), NEW e \in Segments
    PROVE  IsPrefix(s, Append(s, e))
<1>1. Len(s) \in Nat /\ Len(Append(s, e)) = Len(s) + 1 /\ Append(s, e) \in Seq(Segments)
  OBVIOUS
<1>2. \A n \in 1..Len(s) : Append(s, e)[n] = s[n]
  BY AppendProperties
<1>3. \A n \in 1..Len(s) : s[n] \in Segments /\ Append(s, e)[n] \in Segments
  BY <1>2
<1> DEFINE a == SubSeq(s, 1, Len(s))
           b == SubSeq(Append(s, e), 1, Len(s))
<1>4. a = s
  BY SubSeqFull
<1>5. b \in Seq(Segments) /\ Len(b) = Len(s) /\ \A n \in 1..Len(s) : b[n] = Append(s, e)[n]
  BY <1>1, <1>3
<1>6. b = s
  BY <1>1, <1>2, <1>5, SeqEqual
<1>7. QED
  BY <1>1, <1>4, <1>6 DEF IsPrefix

(* RPT-2: no step of a subscription that goes on takes anything away from what the tool has received but the       *)
(* segment it displays or skips as a continuation; taking it from the queue, ending a display and resuming one take   *)
(* nothing away, unless a Ctrl-C comes between the two steps.                                                        *)
THEOREM NothingIsDropped == ASSUME Uninterrupted PROVE Spec => NothingDropped
<1> DEFINE Kept == \/ IsPrefix(Held, Held')
                   \/ Held' = Tail(Held) /\ (Head(Held).part = 0 => Head(Held).id \in Range(shown'))
<1>1. ASSUME Types, StreamInv, [Next]_vars, subscribed, subscribed' PROVE Kept
  <2> USE <1>1 DEF device, net, flags, sub
  <2>1. Held \in Seq(Segments) /\ hand \in Seq(Segments) /\ queue \in Seq(Segments) /\ wire \in Seq(Segments)
    BY HeldType DEF Types
  <2>2. CASE Held' = Held
    BY <2>1, <2>2, PrefixRefl
  <2>3. CASE Deliver
    <3>1. hand' = hand /\ (queue' = queue \/ queue' = Append(queue, Head(wire)))
      BY <2>3 DEF Deliver
    <3>2. Head(wire) \in Segments
      BY <2>1, <2>3 DEF Deliver
    <3>5. hand \o Append(queue, Head(wire)) = Append(Held, Head(wire))
      BY <2>1, <3>2, Behind DEF Held
    <3>3. Held' = Held \/ Held' = Append(Held, Head(wire))
      BY <3>1, <3>5 DEF Held
    <3>4. QED
      BY <2>1, <2>2, <3>2, <3>3, PrefixAppend
  <2>4. CASE TakeReport
    BY <2>2, <2>4, Taken
  <2>5. CASE ShowReport
    <3>1. hand # <<>> /\ Held' = Tail(Held) /\ Head(Held) = Head(hand)
      BY <2>5, Displayed DEF ShowReport
    <3>2. ASSUME Head(hand).part = 0 PROVE Head(hand).id \in Range(shown')
      <4>1. shown' = Append(shown, Head(hand).id)
        BY <2>5, <3>2 DEF ShowReport
      <4>2. Head(hand) \in Segments
        BY <2>1, <3>1
      <4>3. Head(hand).id \in 1..MaxReports
        BY <4>2 DEF Segments
      <4>4. shown \in Seq(1..MaxReports) /\ Len(shown) \in Nat
        BY DEF Types
      <4>5. /\ Append(shown, Head(hand).id) \in Seq(1..MaxReports)
            /\ Len(Append(shown, Head(hand).id)) = Len(shown) + 1
            /\ Append(shown, Head(hand).id)[Len(shown) + 1] = Head(hand).id
        BY <4>3, <4>4, AppendProperties
      <4>6. Len(shown) + 1 \in DOMAIN shown' /\ shown'[Len(shown) + 1] = Head(hand).id
        BY <4>1, <4>4, <4>5
      <4>7. QED
        BY <4>6 DEF Range
    <3>3. QED
      BY <3>1, <3>2
  <2>6. ASSUME ~Deliver, ~TakeReport, ~ShowReport PROVE queue' = queue /\ hand' = hand
    BY <2>6 DEF Next, vars, SendReport, Lose, OnClosed, Open, Listen, Disconnect, Subscribe, Resume,
                DisplayLost, DisplayEnds, CutShort, Uninterrupted, EndDisplay, StopKept, Unsubscribe
  <2>7. QED
    BY <2>2, <2>3, <2>4, <2>5, <2>6 DEF Held
<1>2. ASSUME Types, StreamInv, [Next]_vars
      PROVE  [subscribed /\ subscribed' => Kept]_vars
  BY <1>1, <1>2
<1>3. StreamIInv => Types /\ StreamInv
  BY DEF StreamIInv
<1>4. QED
  BY <1>2, <1>3, StreamInductive, PTL DEF Spec, NothingDropped

===================================================================================
