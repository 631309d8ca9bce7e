------------------------------- MODULE IsoStack --------------------------------
(***************************************************************************)
(* The layers of an MMS association as the diagnosis builds and reads them *)
(* (mms_protocol/diagnosis/iso.py): TPKT, COTP class 0, session,           *)
(* presentation, ACSE and the MMS initiate and conclude PDUs, on octets.   *)
(* A parser returns Raised(layer) where the code raises IsoError(layer).   *)
(* Names of codes and the JSON shown to the user are left out.             *)
(***************************************************************************)
EXTENDS Ber, FiniteSets

CONSTANT None       \* an absent (Python: None) field

Raised(layer) == [ok |-> FALSE, layer |-> layer]
Optional(value, encoded) == IF value \in {None, <<>>} THEN <<>> ELSE encoded

(***************************************************************************)
(* TPKT and COTP.                                                          *)
(***************************************************************************)
CR == 224
CC == 208
DR == 128
DT == 240
ER == 112

Tpkt(payload) == <<3, 0>> \o BigEndian(Len(payload) + 4, 2) \o payload
TpktLength(header) == 256 * header[3] + header[4]
TpktValid(header) == header[1] = 3 /\ TpktLength(header) >= 6
LooksLikeTls(d) == Len(d) >= 3 /\ d[1] \in {21, 22} /\ d[2] = 3 /\ d[3] <= 4

TpduSizeBytes(code) == 2^code
Short(code, value) == IF value = <<>> THEN <<>> ELSE <<code, Len(value)>> \o value
CotpCr(p) ==
    LET header == <<CR, 0, 0, 0, 1, 0, 192, 1, p.tpduSize>> \o Short(194, p.calledTsel) \o Short(193, p.callingTsel)
    IN  <<Len(header)>> \o header
CotpDt(payload, eot) == <<2, DT, IF eot THEN 128 ELSE 0>> \o payload
CotpDr(dst, src, reason) == <<6, DR>> \o BigEndian(dst, 2) \o BigEndian(src, 2) \o <<reason>>

(* Parameters as code, length, value; Overrun is one that is cut short *)
Overrun == [code |-> -1, value |-> <<>>]
CotpParams[d \in OctetString] ==
    IF d = <<>> THEN <<>>
    ELSE IF Len(d) < 2 \/ Len(d) < 2 + d[2] THEN <<Overrun>>
    ELSE <<[code |-> d[1], value |-> SubSeq(d, 3, 2 + d[2])]>> \o CotpParams[Drop(d, 2 + d[2])]
Whole(items) == \A i \in DOMAIN items : items[i].code # -1

(* The first value with a code, or None *)
Param(items, code) ==
    LET S == {i \in DOMAIN items : items[i].code = code}
    IN  IF S = {} THEN None ELSE items[CHOOSE i \in S : \A j \in S : i <= j].value

CotpFixed(code) == CASE code \in {CR, CC, DR} -> 6 [] code = ER -> 4 [] code = DT -> 2 [] OTHER -> 1

ParseCotp[t \in OctetString] ==
    LET header == SubSeq(t, 2, t[1] + 1)
        code == 16 * (header[1] \div 16)
        params == IF code \in {CR, CC, DR, ER} THEN CotpParams[Drop(header, CotpFixed(code))] ELSE <<>>
    IN  IF Len(t) < 2 \/ t[1] \in {0, 255} \/ t[1] + 1 > Len(t) THEN Raised("cotp")
        ELSE IF Len(header) < CotpFixed(code) \/ ~Whole(params) THEN Raised("cotp")
        ELSE [ok |-> TRUE, code |-> code, params |-> params, eot |-> code # DT \/ header[2] >= 128,
              reason |-> CASE code = DR -> header[6] [] code = ER -> header[4] [] OTHER -> None,
              data |-> IF code = ER THEN <<>> ELSE Drop(t, t[1] + 1)]

TpduSize(cotp) ==
    LET v == Param(Reverse(cotp.params), 192) IN IF v # None /\ v # <<>> /\ v[1] \in 7..13 THEN TpduSizeBytes(v[1]) ELSE None

(***************************************************************************)
(* Session.                                                                *)
(***************************************************************************)
FN == 9
DN == 10
RF == 12
CN == 13
AC == 14
AB == 25

(* Seeded bug: 255 octets still take the short length. *)
SizedShort(code, value) == <<code>> \o (IF Len(value) <= 255 THEN <<Len(value)>> ELSE <<255>> \o BigEndian(Len(value), 2)) \o value

(* A session parameter, and an SPDU around its parameters *)
Sized(code, value) ==
    <<code>> \o (IF Len(value) < 255 THEN <<Len(value)>> ELSE <<255>> \o BigEndian(Len(value), 2)) \o value

SessionConnect(p, user) ==
    Sized(CN, Sized(5, Sized(19, <<0>>) \o Sized(22, <<2>>)) \o Sized(20, <<0, 2>>)
              \o Optional(p.callingSsel, Sized(51, p.callingSsel)) \o Optional(p.calledSsel, Sized(52, p.calledSsel))
              \o Sized(193, user))
SessionData(user) == <<1, 0, 1, 0>> \o user
SessionFinish(user) == Sized(FN, Sized(193, user))
SessionAbort(user) == Sized(AB, Sized(17, <<11>>) \o Sized(193, user))

(* Place and length of what follows the code that starts d: the length 255 *)
(* announces two octets of length. Negative if it is not all there.        *)
SpduHeader(d) ==
    LET h == IF Len(d) >= 2 /\ d[2] = 255 THEN 4 ELSE 2
        n == IF h = 4 THEN 256 * d[3] + d[4] ELSE d[2]
    IN  IF Len(d) < h \/ Len(d) < h + n THEN [h |-> h, n |-> -1] ELSE [h |-> h, n |-> n]

SessionParams[d \in OctetString] ==
    LET a == SpduHeader(d)
    IN  IF d = <<>> THEN <<>>
        ELSE IF a.n = -1 THEN <<Overrun>>
        ELSE <<[code |-> d[1], value |-> SubSeq(d, a.h + 1, a.h + a.n)]>> \o SessionParams[Drop(d, a.h + a.n)]

SpduOf(si, items, user) ==
    IF Whole(items) THEN [ok |-> TRUE, si |-> si, params |-> items, user |-> user] ELSE Raised("session")

(* GIVE TOKENS then DATA TRANSFER, the user data after the header; any     *)
(* other SPDU carries it in a parameter, a REFUSE after its reason.        *)
ParseSpdu[d \in OctetString] ==
    LET a == SpduHeader(d)
        tokens == d[1] = 1 /\ a.n = 0 /\ Len(d) > a.h /\ d[a.h + 1] = 1
        e == IF tokens THEN Drop(d, a.h) ELSE d
        b == SpduHeader(e)
        items == SessionParams[SubSeq(e, b.h + 1, b.h + b.n)]
        plain == IF Param(items, 193) # None THEN Param(items, 193) ELSE Param(items, 194)
        reason == Param(items, 50)
        user == IF d[1] = RF /\ reason # None /\ Len(reason) > 1 THEN Tail(reason) ELSE plain
    IN  IF a.n = -1 \/ b.n = -1 THEN Raised("session")
        ELSE SpduOf(d[1], items, IF d[1] = 1 THEN Drop(e, b.h + b.n) ELSE IF user = None THEN <<>> ELSE user)

RefuseReason(spdu) ==
    LET v == Param(spdu.params, 50) IN IF spdu.si # RF \/ v \in {None, <<>>} THEN None ELSE v[1]

(***************************************************************************)
(* Presentation.                                                           *)
(***************************************************************************)
AcseContext == 1
MmsContext == 3

UserData(context, payload) == Tlv(97, Tlv(48, Integer(context, 2) \o Tlv(160, payload)))
Proposed(context, syntax) == Tlv(48, Integer(context, 2) \o Oid(syntax) \o Tlv(48, Oid(<<2, 1, 1>>)))
PresentationCp(p, acse) ==
    Tlv(49, Tlv(160, Tlv(128, <<1>>))
            \o Tlv(162, Optional(p.callingPsel, Tlv(129, p.callingPsel)) \o Optional(p.calledPsel, Tlv(130, p.calledPsel))
                        \o Tlv(164, Proposed(AcseContext, <<2, 2, 1, 0, 1>>) \o Proposed(MmsContext, <<1, 0, 9506, 2, 1>>))
                        \o UserData(AcseContext, acse)))
PresentationAru(acse) == Tlv(160, UserData(AcseContext, acse))

(* The last field that holds data, the context it is in: one PDV *)
Pdv(e) ==
    LET f == Children(e)
        holds(x) == x.cls = Context /\ x.num \in {0, 1, 2}
        context == LastChild(f, Universal, 2)
    IN  IF ~Is(e, Universal, 16) \/ ~Sound(f) \/ (context.ok /\ context.value = <<>>) \/ ~\E i \in DOMAIN f : holds(f[i])
        THEN [ok |-> FALSE, context |-> None, data |-> <<>>]
        ELSE [ok |-> TRUE, context |-> IF context.ok THEN Signed(context.value) ELSE None,
              data |-> Last(SelectSeq(f, holds)).value]

ParseUserData(e) ==
    CASE Is(e, Application, 0) -> <<[ok |-> TRUE, context |-> None, data |-> e.value]>>
      [] Is(e, Application, 1) /\ Sound(Children(e)) -> [i \in DOMAIN Children(e) |-> Pdv(Children(e)[i])]
      [] OTHER -> <<[ok |-> FALSE, context |-> None, data |-> <<>>]>>

(* User data of a data or release PPDU *)
ParsePresentationData[d \in OctetString] == IF DecodeOne[d].ok THEN ParseUserData(DecodeOne[d]) ELSE <<[ok |-> FALSE, context |-> None, data |-> <<>>]>>

(* The data for a context: a PDV without one is for any, and the first is  *)
(* taken if none is.                                                       *)
ApduFor(pdvs, context) ==
    LET S == {i \in DOMAIN pdvs : pdvs[i].context \in {context, None}}
    IN  IF pdvs = <<>> THEN None
        ELSE pdvs[IF S = {} THEN 1 ELSE CHOOSE i \in S : \A j \in S : i <= j].data

(* A field that is a number: None if absent, -1 for an encoding that is    *)
(* refused (empty).                                                        *)
Number(e) == IF ~e.ok THEN None ELSE IF e.value = <<>> THEN -1 ELSE Signed(e.value)

PpduKind(top, abort) ==
    CASE abort /\ Is(top, Context, 0) /\ top.con -> "ARU"
      [] abort /\ Is(top, Universal, 16) -> "ARP"
      [] ~abort /\ Is(top, Universal, 17) /\ Child(Children(top), Context, 2).ok -> "CPA"
      [] ~abort /\ Is(top, Universal, 16) -> "CPR"
      [] OTHER -> None

PpduOf(kind, f) ==
    LET isUser(x) == x.cls = Application
        users == SelectSeq(f, isUser)
        user == IF users = <<>> \/ kind = "ARP" THEN <<>> ELSE ParseUserData(Last(users))
        result == LastChild(f, Context, 5)
        results == IF result.ok /\ kind \in {"CPA", "CPR"} THEN Children(result) ELSE <<>>
        reason == CASE kind = "CPR" -> Number(LastChild(f, Context, 10)) [] kind = "ARP" -> Number(Child(f, Context, 0))
                    [] OTHER -> None
    IN  IF ~Sound(f) \/ ~Sound(results) \/ reason = -1 \/ \E i \in DOMAIN user : ~user[i].ok THEN Raised("presentation")
        ELSE [ok |-> TRUE, kind |-> kind, reason |-> reason, user |-> user,
              results |-> [i \in DOMAIN results |-> Number(Child(Children(results[i]), Context, 0))]]

PpduFrom(top, kind) ==
    CASE kind = None -> Raised("presentation")
      [] kind = "CPA" -> PpduOf(kind, Children(Child(Children(top), Context, 2)))
      [] OTHER -> PpduOf(kind, Children(top))
PresentationOf(top, abort) == PpduFrom(top, IF top.ok THEN PpduKind(top, abort) ELSE None)
ParsePresentation[d \in OctetString, abort \in BOOLEAN] == PresentationOf(DecodeOne[d], abort)

(***************************************************************************)
(* ACSE.                                                                   *)
(***************************************************************************)
AcseAarq(p, mms) ==
    Tlv(96, Tlv(161, Oid(<<1, 0, 9506, 2, 3>>))
            \o Optional(p.calledTitle, Tlv(162, Oid(p.calledTitle)))
            \o (IF p.calledAe = None THEN <<>> ELSE Tlv(163, Integer(p.calledAe, 2)))
            \o Optional(p.callingTitle, Tlv(166, Oid(p.callingTitle)))
            \o (IF p.callingAe = None THEN <<>> ELSE Tlv(167, Integer(p.callingAe, 2)))
            \o Tlv(190, Tlv(40, Integer(MmsContext, 2) \o Tlv(160, mms))))
AcseRlrq == Tlv(98, Integer(0, 128))
AcseAbrt == Tlv(100, Integer(0, 128))

AcseKinds == [n \in 0..4 |-> <<"AARQ", "AARE", "RLRQ", "RLRE", "ABRT">>[n + 1]]

(* What is inside an explicitly tagged field: a name or a number, if it is *)
(* of that type.                                                           *)
Inner(e, num) ==
    LET c == Children(e)
    IN  IF ~e.ok \/ c = <<>> \/ ~Is(c[1], Universal, num) THEN None
        ELSE IF num = 6 THEN DecodeOid(c[1].value) ELSE Signed(c[1].value)

(* The first EXTERNAL's encoding *)
ExternalData(e) ==
    LET x == Child(Children(e), Universal, 8)
        holds(f) == f.cls = Context /\ f.num \in {0, 1, 2}
        found == SelectSeq(Children(x), holds)
    IN  IF ~x.ok \/ found = <<>> THEN None ELSE found[1].value

AcseOf(kind, f) ==
    LET field(n) == LastChild(f, Context, n)
        diagnostics == IF kind = "AARE" /\ field(3).ok THEN Children(field(3)) ELSE <<>>
    IN  IF ~Sound(f) \/ ~Sound(diagnostics) THEN Raised("acse")
        ELSE [ok |-> TRUE, kind |-> kind,
              result |-> IF kind = "AARE" THEN Inner(field(2), 2) ELSE None,
              diagnostic |-> IF diagnostics = <<>> THEN None
                             ELSE [source |-> Last(diagnostics).num, code |-> Inner(Last(diagnostics), 2)],
              title |-> IF kind = "AARE" THEN Inner(field(4), 6) ELSE None,
              aborted |-> IF kind = "ABRT" THEN <<Number(field(0)), Number(field(1))>> ELSE None,
              info |-> IF field(30).ok THEN ExternalData(field(30)) ELSE None]

AcseFrom(top) ==
    IF ~top.ok \/ top.cls # Application \/ top.num \notin 0..4 THEN Raised("acse")
    ELSE AcseOf(AcseKinds[top.num], Children(top))
ParseAcse[d \in OctetString] == AcseFrom(DecodeOne[d])

(***************************************************************************)
(* MMS initiate and conclude.                                              *)
(***************************************************************************)
InitiateBody(p) ==
    Integer(p.pduSize, 128) \o Integer(p.calling, 129) \o Integer(p.called, 130)
    \o (IF p.nesting = None THEN <<>> ELSE Integer(p.nesting, 131))
    \o Tlv(164, Integer(p.version, 128) \o BitString(p.cbb, 129) \o BitString(p.services, 130))
MmsInitiateRequest(p) == Tlv(168, InitiateBody(p))
MmsConcludeRequest == <<139, 0>>

InitiateFields(f, detail) ==
    [pduSize |-> Number(LastChild(f, Context, 0)), calling |-> Number(LastChild(f, Context, 1)),
     called |-> Number(LastChild(f, Context, 2)), nesting |-> Number(LastChild(f, Context, 3)),
     version |-> Number(LastChild(detail, Context, 0)),
     cbb |-> DecodeBitString(LastChild(detail, Context, 1).value),
     services |-> DecodeBitString(LastChild(detail, Context, 2).value)]
ParseInitiate(f) == InitiateFields(f, Children(Child(f, Context, 4)))

(* Class and code of a ServiceError *)
ParseServiceError(f) ==
    LET inner == Children(Child(f, Context, 0))
    IN  IF ~Sound(inner) \/ inner = <<>> THEN None ELSE [class |-> inner[1].num, code |-> Number(inner[1])]

MmsOf(top, f) ==
    LET isReason(x) == x.num # 0 /\ x.cls = Context
        reasons == SelectSeq(f, isReason)
    IN  IF ~Sound(f) THEN Raised("mms")
        ELSE [ok |-> TRUE, number |-> top.num,
              initiate |-> IF top.num \in {8, 9} THEN ParseInitiate(f) ELSE None,
              error |-> CASE top.num \in {10, 13} -> ParseServiceError(f)
                          [] top.num = 4 /\ reasons # <<>> -> [class |-> reasons[1].num, code |-> Number(reasons[1])]
                          [] OTHER -> None]
MmsFrom(top) ==
    IF ~top.ok \/ top.cls # Context THEN Raised("mms")
    ELSE MmsOf(top, IF top.num \in {8, 9, 10, 13} \/ (top.num = 4 /\ top.con) THEN Children(top) ELSE <<>>)
ParseMms[d \in OctetString] == MmsFrom(DecodeOne[d])

Supports(initiate, service) == service \in BitsSet(initiate.services)

(***************************************************************************)
(* Complete requests.                                                      *)
(***************************************************************************)
AssociationRequest(p) == SessionConnect(p, PresentationCp(p, AcseAarq(p, MmsInitiateRequest(p))))
ConcludeRequest == SessionData(UserData(MmsContext, MmsConcludeRequest))
ReleaseRequest == SessionFinish(UserData(AcseContext, AcseRlrq))
AbortRequest == SessionAbort(PresentationAru(AcseAbrt))

================================================================================
