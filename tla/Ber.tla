---------------------------------- MODULE Ber ----------------------------------
(***************************************************************************)
(* The BER encoder and decoder of the association probes                   *)
(* (mms_protocol/diagnosis/ber.py). Octets are numbers 0..255. An element  *)
(* that cannot be decoded is NoTlv: where the code raises BerError, the    *)
(* result here is (or ends with) NoTlv. Integers are those of at most      *)
(* three content octets, which is all the association PDUs carry.          *)
(***************************************************************************)
EXTENDS Integers, Sequences, SequencesExt

Universal == 0
Application == 64
Context == 128

(* The decoders are functions on octet strings. *)
Octet == 0..255
OctetString == Seq(Octet)

BigEndian(n, k) == [i \in 1..k |-> (n \div 256^(k - i)) % 256]
FromBytes[s \in OctetString] == IF s = <<>> THEN 0 ELSE 256 * FromBytes[Front(s)] + Last(s)
(* Seven bits of each octet: long tag numbers and the arcs of names *)
FromSeptets[s \in OctetString] == IF s = <<>> THEN 0 ELSE 128 * FromSeptets[Front(s)] + (Last(s) % 128)
Drop(s, n) == SubSeq(s, n + 1, Len(s))

(***************************************************************************)
(* Encoding.                                                               *)
(***************************************************************************)
(* Seeded bug: the short form is used for 128 as well. *)
EncodeLengthOffByOne(n) == IF n <= 128 THEN <<n>> ELSE <<129>> \o BigEndian(n % 256, 1)

EncodeLength(n) ==
    IF n < 128 THEN <<n>>
    ELSE LET k == CHOOSE k \in 1..3 : 256^(k - 1) <= n /\ n < 256^k
         IN  <<128 + k>> \o BigEndian(n, k)

Tlv(tag, value) == <<tag>> \o EncodeLength(Len(value)) \o value

(* The shortest two's complement that holds n. *)
IntegerContent(n) ==
    LET k == CHOOSE k \in 1..3 : /\ -(2^(8*k - 1)) <= n /\ n < 2^(8*k - 1)
                                 /\ \A j \in 1..(k - 1) : ~(-(2^(8*j - 1)) <= n /\ n < 2^(8*j - 1))
    IN  BigEndian(n % 256^k, k)
Integer(n, tag) == Tlv(tag, IntegerContent(n))

(* An arc in base 128, every octet but the last marked as continued. *)
ArcContent(arc) ==
    LET k == CHOOSE k \in 1..3 : arc < 128^k /\ (k = 1 \/ arc >= 128^(k - 1))
    IN  [i \in 1..k |-> ((arc \div 128^(k - i)) % 128) + (IF i < k THEN 128 ELSE 0)]
OidContent(arcs) == FlattenSeq([i \in 1..(Len(arcs) - 1) |->
                                  ArcContent(IF i = 1 THEN 40 * arcs[1] + arcs[2] ELSE arcs[i + 1])])
Oid(arcs) == Tlv(6, OidContent(arcs))
BitString(b, tag) == Tlv(tag, <<b.unused>> \o b.octets)

(***************************************************************************)
(* Decoding. Every length is checked against the octets there are.         *)
(***************************************************************************)
NoTlv == [ok |-> FALSE, cls |-> -1, con |-> FALSE, num |-> -1, value |-> <<>>, rest |-> <<>>]

(* Octets end at the first without its top bit, at the last if none is. *)
SeptetsEnd(d, from) ==
    LET S == {i \in from..Len(d) : d[i] < 128}
    IN  IF S = {} THEN Len(d) ELSE CHOOSE i \in S : \A j \in S : i <= j

(* The octets of the identifier: a high tag number takes more than one *)
TagEnd(d) == IF d[1] % 32 # 31 THEN 1 ELSE SeptetsEnd(d, 2)

(* Seeded bug: what is missing of a value is not noticed. *)
EndsClipped(d, from, n) == IF from + n > Len(d) THEN Len(d) ELSE from + n

(* Where a value of n octets ends, -1 if there are not as many *)
Ends(d, from, n) == IF from + n > Len(d) THEN -1 ELSE from + n

(* The element whose identifier is the first t octets of d; k octets of    *)
(* long length.                                                            *)
Element(d, t, k) ==
    LET from == t + 1 + k
        n == IF k = 0 THEN d[t + 1] ELSE FromBytes[SubSeq(d, t + 2, from)]
    IN  IF k > 4 \/ from > Len(d) \/ Ends(d, from, n) = -1 THEN NoTlv
        ELSE [ok |-> TRUE, cls |-> 64 * (d[1] \div 64), con |-> (d[1] \div 32) % 2 = 1,
              num |-> IF t = 1 THEN d[1] % 32 ELSE FromSeptets[SubSeq(d, 2, t)],
              value |-> SubSeq(d, from + 1, Ends(d, from, n)), rest |-> Drop(d, Ends(d, from, n))]

DecodeAfter(d, t) ==
    IF Len(d) <= t \/ d[t + 1] = 128 THEN NoTlv
    ELSE Element(d, t, IF d[t + 1] > 128 THEN d[t + 1] - 128 ELSE 0)
DecodeOne[d \in OctetString] == IF d = <<>> THEN NoTlv ELSE DecodeAfter(d, TagEnd(d))

DecodeAll[d \in OctetString] ==
    LET e == DecodeOne[d]
    IN  IF d = <<>> THEN <<>> ELSE IF e.ok THEN <<e>> \o DecodeAll[e.rest] ELSE <<NoTlv>>

Is(e, cls, num) == e.cls = cls /\ e.num = num
Children(e) == IF e.con THEN DecodeAll[e.value] ELSE <<NoTlv>>
Sound(elements) == \A i \in DOMAIN elements : elements[i].ok

(* The first child with a tag, and the last: a loop over the children      *)
(* keeps the last.                                                         *)
Child(elements, cls, num) ==
    LET S == {i \in DOMAIN elements : Is(elements[i], cls, num)}
    IN  IF S = {} THEN NoTlv ELSE elements[CHOOSE i \in S : \A j \in S : i <= j]
LastChild(elements, cls, num) == Child(Reverse(elements), cls, num)

Signed(content) ==
    LET n == FromBytes[content] IN IF content[1] >= 128 THEN n - 256^Len(content) ELSE n

Arcs[content \in OctetString] ==
    LET k == SeptetsEnd(content, 1)
    IN  IF content = <<>> \/ content[k] >= 128 THEN <<>>
        ELSE <<FromSeptets[SubSeq(content, 1, k)]>> \o Arcs[Drop(content, k)]
DecodeOid(content) ==
    LET a == Arcs[content]
        first == IF a[1] \div 40 > 2 THEN 2 ELSE a[1] \div 40
    IN  <<first, a[1] - 40 * first>> \o Tail(a)

DecodeBitString(content) == [octets |-> Tail(content), unused |-> content[1]]
BitsSet(b) == {i \in 0..(8 * Len(b.octets) - b.unused - 1) : (b.octets[i \div 8 + 1] \div 2^(7 - (i % 8))) % 2 = 1}

================================================================================
