------------------------------ MODULE ValueStack ------------------------------
(***************************************************************************)
(* What LOG-2 promises of `restore`, abstractly: the values written to a   *)
(* device are put back one by one, the newest first, each once.            *)
(***************************************************************************)
EXTENDS Naturals

CONSTANTS Places, Values

VARIABLES
    value,   \* the device: the value of each place
    stack    \* what is still to be put back: records of a place, what was there before, and at which position in the
             \* order of writing, a pair of numbers

Later(d, e) == e[1] < d[1] \/ (e[1] = d[1] /\ e[2] < d[2])
OnTop(top, S) == \A e \in S : Later(top.at, e.at)

Write(p, v) ==
    /\ \E top \in stack' :
        /\ stack' = stack \cup {top} /\ OnTop(top, stack)
        /\ top.place = p /\ top.before = value[p]
    /\ value' = [value EXCEPT ![p] = v]

PutBack ==
    \E top \in stack :
        /\ OnTop(top, stack \ {top})
        /\ value' = [value EXCEPT ![top.place] = top.before]
        /\ stack' = stack \ {top}

StackInit == value \in [Places -> Values] /\ stack = {}
StackNext == (\E p \in Places, v \in Values : Write(p, v)) \/ PutBack
StackSpec == StackInit /\ [][StackNext]_<<value, stack>>
===============================================================================
