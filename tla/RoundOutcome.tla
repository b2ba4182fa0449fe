---------------------------- MODULE RoundOutcome ----------------------------
(***************************************************************************)
(* What one round of agreement promises to the ledgers of the honest       *)
(* nodes: one value at most is ever certified, that never changes, and a   *)
(* node writes the certified value or nothing.  A node that crashes may    *)
(* lose a block it had not yet made durable.                               *)
(***************************************************************************)
CONSTANTS Honest, Values, bottom

VARIABLES
    certified,  \* the values that have a certificate
    ledger      \* what each node has written for the round

vars == <<certified, ledger>>

Init == certified = {} /\ ledger = [n \in Honest |-> bottom]

Certify(v) ==
    /\ certified = {}
    /\ certified' = {v}
    /\ UNCHANGED ledger

Commit(n) ==
    /\ ledger[n] = bottom
    /\ \E v \in certified : ledger' = [ledger EXCEPT ![n] = v]
    /\ UNCHANGED certified

Lose(n) ==
    /\ ledger' = [ledger EXCEPT ![n] = bottom]
    /\ UNCHANGED certified

Next ==
    \/ \E n \in Honest : Lose(n) \/ Commit(n)
    \/ \E v \in Values : Certify(v)

Spec == Init /\ [][Next]_vars
=============================================================================
