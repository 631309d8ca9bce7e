------------------------------ MODULE MCIsoStream -------------------------------
(***************************************************************************)
(* Requests and answers for the octet stream: the defaults of libiec61850, *)
(* everything that can be left out left out, and AP titles that bring a    *)
(* length to the boundary of its encoding (128 in BER, 255 in a session   *)
(* message).                                                               *)
(***************************************************************************)
EXTENDS IsoStream

Ones(n) == [i \in 1..n |-> 1]
Default ==
    [callingTsel |-> <<0, 1>>, calledTsel |-> <<0, 1>>, callingSsel |-> <<0, 1>>, calledSsel |-> <<0, 1>>,
     callingPsel |-> <<0, 0, 0, 1>>, calledPsel |-> <<0, 0, 0, 1>>,
     callingTitle |-> <<1, 1, 1, 999>>, callingAe |-> 12, calledTitle |-> <<1, 1, 1, 999, 1>>, calledAe |-> 12,
     tpduSize |-> 13, pduSize |-> 65000, calling |-> 5, called |-> 5, nesting |-> 10, version |-> 1,
     cbb |-> [octets |-> <<241, 0>>, unused |-> 5],
     services |-> [octets |-> <<238, 28, 0, 0, 4, 8, 0, 0, 121, 239, 24>>, unused |-> 3]]
Bare == [Default EXCEPT !.callingSsel = <<>>, !.calledSsel = <<>>, !.callingPsel = <<>>, !.calledPsel = <<>>,
                        !.callingTitle = None, !.callingAe = None, !.calledTitle = None, !.calledAe = None,
                        !.nesting = None, !.pduSize = 128]
Titled(n) == [Default EXCEPT !.callingTitle = <<1, 1>> \o Ones(n)]
MCRequests == {Default, Bare} \cup {Titled(n) : n \in {76, 98, 125}}

Initiate(size) == [number |-> 9, initiate |-> [InitiateOf(Default) EXCEPT !.pduSize = size], error |-> None]
MmsError(number, class, code) == [number |-> number, initiate |-> None, error |-> [class |-> class, code |-> code]]
Aare(result, diagnostic, title) == [kind |-> "AARE", result |-> result, diagnostic |-> diagnostic, title |-> title, aborted |-> None]
Abrt(source, code) == [kind |-> "ABRT", result |-> None, diagnostic |-> None, title |-> None, aborted |-> <<source, code>>]
Rlre == [kind |-> "RLRE", result |-> None, diagnostic |-> None, title |-> None, aborted |-> None]
Meaning(si, refuse, kind, reason, results, acse, mms) ==
    [si |-> si, refuse |-> refuse, kind |-> kind, reason |-> reason, results |-> results, acse |-> acse, mms |-> mms]
MCAnswers ==
    {Meaning(AC, None, "CPA", None, <<0, 0>>, Aare(0, None, t), Initiate(n)) : t \in {None, <<1, 1, 1, 999, 1>>}, n \in {127, 128, 65000}}
    \cup {Meaning(AC, None, "CPA", None, <<0, 2>>, Aare(1, [source |-> s, code |-> 13], None), e) :
            s \in {1, 2}, e \in {None, MmsError(10, 8, 1), MmsError(10, 3, 0)}}
    \cup {Meaning(RF, 2, None, None, <<>>, None, None), Meaning(RF, 129, "CPR", None, <<>>, None, None),
          Meaning(RF, 2, "CPR", 7, <<>>, Aare(2, None, None), None),
          Meaning(AB, None, None, None, <<>>, None, None), Meaning(AB, None, "ARP", 5, <<>>, None, None),
          Meaning(AB, None, "ARU", None, <<>>, Abrt(0, None), None), Meaning(AB, None, "ARU", None, <<>>, Abrt(1, 6), None),
          Meaning(1, None, "data", None, <<>>, None, [number |-> 12, initiate |-> None, error |-> None]),
          Meaning(1, None, "data", None, <<>>, None, MmsError(4, 1, 1)), Meaning(1, None, "data", None, <<>>, None, MmsError(4, 5, 2)),
          Meaning(DN, None, "data", None, <<>>, Rlre, None)}

================================================================================
