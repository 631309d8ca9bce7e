------------------------------- MODULE IsoStream -------------------------------
(***************************************************************************)
(* The octet stream under an association attempt (_Stream and _send_dt of  *)
(* mms_protocol/diagnosis/probes.py): one end sends messages as COTP data  *)
(* TPDUs no larger than was agreed, TCP delivers the octets in pieces of   *)
(* any size, and the other end finds the packets, joins the data TPDUs and *)
(* decodes what they carry. The deadline may pass while the stream waits,  *)
(* and the peer may close or reset the connection. The octets of the       *)
(* answers are those the scripted servers of the tests send.               *)
(***************************************************************************)
EXTENDS IsoStack

CONSTANTS
    Requests,   \* association parameters a request is made of
    Answers,    \* meanings an IED may express
    Sizes,      \* TPDU sizes agreed, in octets
    Pieces      \* numbers of octets one receive may return

VARIABLES
    msgs,       \* what is sent, in order: [code, tsdu, means]
    wire,       \* octets sent and not yet received
    buf,        \* _Stream.buf
    payload,    \* recv_cotp: data of the TPDUs so far
    got,        \* what recv_cotp has returned: [code, tsdu]
    pc          \* fill, parse, linger; done, timeout, closed, raised

vars == <<msgs, wire, buf, payload, got, pc>>

(***************************************************************************)
(* What the peer can express, and its octets.                              *)
(***************************************************************************)
AnswerMms(m) ==
    CASE m.number = 9 -> Tlv(169, InitiateBody(m.initiate))
      [] m.number = 10 -> Tlv(170, Tlv(160, Integer(m.error.code, 128 + m.error.class)))
      [] m.number = 4 -> Tlv(164, Integer(7, 128) \o Integer(m.error.code, 128 + m.error.class))
      [] m.number = 12 -> <<140, 0>>

AnswerAcse(a, mms) ==
    CASE a.kind = "AARE" ->
            Tlv(97, Tlv(161, Oid(<<1, 0, 9506, 2, 3>>)) \o Tlv(162, Integer(a.result, 2))
                    \o (IF a.diagnostic = None THEN <<>> ELSE Tlv(163, Tlv(160 + a.diagnostic.source, Integer(a.diagnostic.code, 2))))
                    \o (IF a.title = None THEN <<>> ELSE Tlv(164, Oid(a.title)))
                    \o (IF mms = None THEN <<>> ELSE Tlv(190, Tlv(40, Integer(MmsContext, 2) \o Tlv(160, AnswerMms(mms))))))
      [] a.kind = "ABRT" -> Tlv(100, Integer(a.aborted[1], 128) \o IF a.aborted[2] = None THEN <<>> ELSE Integer(a.aborted[2], 129))
      [] a.kind = "RLRE" -> <<99, 0>>

AnswerPpdu(m) ==
    LET user == IF m.acse = None THEN <<>> ELSE UserData(AcseContext, AnswerAcse(m.acse, m.mms))
    IN  CASE m.kind = "CPA" -> Tlv(49, Tlv(160, Tlv(128, <<1>>))
                                    \o Tlv(162, Tlv(131, <<0, 0, 0, 1>>)
                                                \o Tlv(165, FlattenSeq([i \in DOMAIN m.results |->
                                                                          Tlv(48, Integer(m.results[i], 128) \o Tlv(129, <<81, 1>>))])) \o user))
          [] m.kind = "CPR" -> Tlv(48, (IF m.reason = None THEN <<>> ELSE Integer(m.reason, 138)) \o user)
          [] m.kind = "ARU" -> Tlv(160, user)
          [] m.kind = "ARP" -> Tlv(48, Integer(m.reason, 128))
          [] m.kind = "data" -> IF m.acse = None THEN UserData(MmsContext, AnswerMms(m.mms)) ELSE user
          [] m.kind = None -> <<>>

AnswerTsdu(m) ==
    CASE m.si = AC -> Sized(AC, Sized(5, <<19, 1, 0, 22, 1, 2>>) \o Sized(20, <<0, 2>>) \o Sized(52, <<0, 1>>) \o Sized(193, AnswerPpdu(m)))
      [] m.si = RF -> Sized(RF, Sized(50, <<m.refuse>> \o AnswerPpdu(m)))
      [] m.si = AB -> Sized(AB, Sized(17, <<3>>) \o Optional(AnswerPpdu(m), Sized(193, AnswerPpdu(m))))
      [] m.si = DN -> Sized(DN, Sized(193, AnswerPpdu(m)))
      [] m.si = 1 -> SessionData(AnswerPpdu(m))

InitiateOf(p) == [pduSize |-> p.pduSize, calling |-> p.calling, called |-> p.called, nesting |-> p.nesting,
                  version |-> p.version, cbb |-> p.cbb, services |-> p.services]
RequestMeaning(p) ==
    [si |-> CN, refuse |-> None, kind |-> "CPA", reason |-> None, results |-> <<>>,
     acse |-> [kind |-> "AARQ", result |-> None, diagnostic |-> None, title |-> None, aborted |-> None],
     mms |-> [number |-> 8, initiate |-> InitiateOf(p), error |-> None]]

(***************************************************************************)
(* Decoding a message layer by layer, as _Assoc and _end do.               *)
(***************************************************************************)
Unreadable == [si |-> -1]
MmsReading(mms) == IF mms.ok THEN [number |-> mms.number, initiate |-> mms.initiate, error |-> mms.error] ELSE Unreadable

ReadAcse(m, acse) ==
    IF ~acse.ok THEN Unreadable
    ELSE [m EXCEPT !.acse = [kind |-> acse.kind, result |-> acse.result, diagnostic |-> acse.diagnostic,
                             title |-> acse.title, aborted |-> acse.aborted],
                   !.mms = IF acse.info = None THEN None ELSE MmsReading(ParseMms[acse.info])]

ReadPpdu(m, ppdu) ==
    LET r == [m EXCEPT !.kind = ppdu.kind, !.reason = ppdu.reason, !.results = ppdu.results]
    IN  IF ~ppdu.ok THEN Unreadable
        ELSE IF ppdu.user = <<>> THEN r ELSE ReadAcse(r, ParseAcse[ApduFor(ppdu.user, AcseContext)])

ReadPdvs(m, pdvs) ==
    IF pdvs = <<>> \/ \E i \in DOMAIN pdvs : ~pdvs[i].ok THEN Unreadable
    ELSE IF m.si = 1 THEN [m EXCEPT !.mms = MmsReading(ParseMms[pdvs[1].data])]
    ELSE ReadAcse(m, ParseAcse[pdvs[1].data])

ReadSpdu(spdu) ==
    LET data == spdu.si \in {1, DN, FN}
        m == [si |-> spdu.si, refuse |-> RefuseReason(spdu), kind |-> IF data THEN "data" ELSE None, reason |-> None,
              results |-> <<>>, acse |-> None, mms |-> None]
    IN  IF ~spdu.ok \/ (data /\ spdu.user = <<>>) THEN Unreadable
        ELSE IF spdu.user = <<>> THEN m
        ELSE IF data THEN ReadPdvs(m, ParsePresentationData[spdu.user])
        ELSE ReadPpdu(m, ParsePresentation[spdu.user, spdu.si = AB])
Reading[tsdu \in OctetString] == ReadSpdu(ParseSpdu[tsdu])

(***************************************************************************)
(* Sending.                                                                *)
(***************************************************************************)
(* _send_dt *)
SendDt(spdu, size) ==
    LET room == IF size > 4 THEN size - 3 ELSE 1
        n == IF spdu = <<>> THEN 1 ELSE (Len(spdu) + room - 1) \div room
        chunk(i) == SubSeq(spdu, (i - 1) * room + 1, IF i * room < Len(spdu) THEN i * room ELSE Len(spdu))
    IN  FlattenSeq([i \in 1..n |-> Tpkt(CotpDt(chunk(i), i = n))])

Message(code, tsdu, means) == [code |-> code, tsdu |-> tsdu, means |-> means]
Data(tsdu, means) == Message(DT, tsdu, means)
Confirm == Message(CC, <<>>, None)
Disconnect == Message(DR, <<>>, None)
PeerConfirm == Tpkt(<<17, CC, 0, 1, 0, 1, 0, 192, 1, 13, 194, 2, 0, 1, 193, 2, 0, 1>>)

(* One end sends a request; or the peer confirms the transport connection  *)
(* and answers, asks to disconnect instead, or sends data and one more.    *)
Exchanges == {<<Data(AssociationRequest(p), RequestMeaning(p))>> : p \in Requests}
        \cup {<<Confirm, Data(AnswerTsdu(m), m)>> : m \in Answers}
        \cup {<<Data(AnswerTsdu(m), m), Disconnect>> : m \in {a \in Answers : a.si = 1}}

(* A packet's length fits the sixteen bits of its header (tpkt raises      *)
(* ValueError otherwise), a receive returns something, and messages are    *)
(* octets.                                                                 *)
ASSUME StreamAssumption ==
    /\ \A size \in Sizes : size \in Nat /\ size + 4 <= 65535
    /\ Pieces \subseteq Nat \ {0}
    /\ \A p \in Requests : AssociationRequest(p) \in OctetString
    /\ \A m \in Answers : AnswerTsdu(m) \in OctetString

Octets(m, size) ==
    CASE m.code = DT -> SendDt(m.tsdu, size)
      [] m.code = CC -> PeerConfirm
      [] m.code = DR -> Tpkt(CotpDr(1, 1, 128))

Init ==
    /\ msgs \in Exchanges
    /\ \E size \in Sizes : wire = FlattenSeq([i \in DOMAIN msgs |-> Octets(msgs[i], size)])
    /\ buf = <<>> /\ payload = <<>> /\ got = <<>>
    /\ pc = "fill"

(***************************************************************************)
(* Receiving.                                                              *)
(***************************************************************************)
Shorter(n) == IF n < Len(wire) THEN n ELSE Len(wire)

(* _fill: at least one octet, whatever has arrived by now *)
Fill(n) ==
    /\ pc \in {"fill", "linger"}
    /\ wire # <<>>
    /\ buf' = buf \o SubSeq(wire, 1, Shorter(n))
    /\ wire' = Drop(wire, Shorter(n))
    /\ pc' = IF pc = "linger" THEN "linger" ELSE "parse"
    /\ UNCHANGED <<msgs, payload, got>>

(* The deadline passes, octets waiting or not *)
Timeout == pc = "fill" /\ pc' = "timeout" /\ UNCHANGED <<msgs, wire, buf, payload, got>>

(* wait_closed: after an answer the stream is only watched for a while *)
WatchEnds == pc = "linger" /\ pc' = "parse" /\ UNCHANGED <<msgs, wire, buf, payload, got>>

(* The peer closes (a reset also loses what is in flight) *)
Closed ==
    /\ pc \in {"fill", "linger"}
    /\ pc' = "closed"
    /\ UNCHANGED <<msgs, wire, buf, payload, got>>

WholePacket == Len(buf) >= 4 /\ Len(buf) >= TpktLength(buf)
Malformed == Len(buf) >= 4 /\ (LooksLikeTls(buf) \/ ~TpktValid(buf))

(* Seeded bug: the rest of what arrived with the packet is dropped. *)
RemainingNone == <<>>

(* What is left of the buffer once its first packet is taken *)
Remaining == Drop(buf, TpktLength(buf))

Return(m) ==
    /\ got' = Append(got, m)
    /\ payload' = <<>>
    /\ pc' = IF Len(got) + 1 = Len(msgs) THEN "done" ELSE IF m.code = DT THEN "linger" ELSE "parse"

(* recv_tpkt and the body of recv_cotp *)
Parse ==
    /\ pc = "parse"
    /\ IF Malformed THEN pc' = "raised" /\ UNCHANGED <<buf, payload, got>>
       ELSE IF ~WholePacket THEN pc' = "fill" /\ UNCHANGED <<buf, payload, got>>
       ELSE LET cotp == ParseCotp[SubSeq(buf, 5, TpktLength(buf))]
            IN  /\ buf' = Remaining
                /\ CASE ~cotp.ok -> pc' = "raised" /\ UNCHANGED <<payload, got>>
                     [] cotp.ok /\ cotp.code # DT -> Return([code |-> cotp.code, tsdu |-> <<>>])
                     [] cotp.ok /\ cotp.code = DT /\ cotp.eot -> Return([code |-> DT, tsdu |-> payload \o cotp.data])
                     [] OTHER -> payload' = payload \o cotp.data /\ UNCHANGED <<got, pc>>
    /\ UNCHANGED <<msgs, wire>>

Over == pc \in {"done", "timeout", "closed", "raised"} /\ UNCHANGED vars

Next == (\E n \in Pieces : Fill(n)) \/ Timeout \/ WatchEnds \/ Closed \/ Parse \/ Over

(* Octets that were sent arrive, and a receiver that can go on does. The   *)
(* deadline may still pass first.                                          *)
Spec == Init /\ [][Next]_vars /\ WF_vars(\E n \in Pieces : Fill(n)) /\ WF_vars(Parse) /\ WF_vars(WatchEnds)

(***************************************************************************)
(* Properties.                                                             *)
(***************************************************************************)
(* However the octets are cut into TPDUs by the sender and into pieces by  *)
(* TCP, what the receiver is given are the messages that were sent, whole  *)
(* and in order (recv_tpkt keeps the octets after a packet, recv_cotp      *)
(* joins the data TPDUs of one message and no more).                       *)
InOrderAndWhole ==
    /\ Len(got) <= Len(msgs)
    /\ \A i \in DOMAIN got : got[i].code = msgs[i].code /\ got[i].tsdu = msgs[i].tsdu
    /\ pc # "raised"

(* What the decoders of the layers make of a message is what its sender    *)
(* meant, at the lengths where an encoding changes form too.               *)
Understood == \A i \in DOMAIN got : got[i].code = DT => Reading[got[i].tsdu] = msgs[i].means

(* A message that was cut short, anywhere, is never taken for a message:   *)
(* one of the layers refuses it.                                           *)
NoTruncation ==
    pc = "done" /\ payload = <<>> /\ buf = <<>> =>
        \A i \in DOMAIN got : \A n \in 1..(Len(got[i].tsdu) - 1) :
            LET r == Reading[SubSeq(got[i].tsdu, 1, n)] IN r = Unreadable \/ r.mms = Unreadable

(* Unless the deadline passes or the peer closes, every message sent is    *)
(* handed over in the end: the receiver never waits for octets it has.     *)
EverythingArrives == <>(pc \in {"done", "timeout", "closed"})

================================================================================
