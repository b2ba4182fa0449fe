----------------------------- MODULE MCAgreement -----------------------------
(* Instances of Agreement with two nodes.  Either: any node completes a    *)
(* quorum; Both: no quorum without both; First: no quorum without n1.      *)
(* a is proposed in period 0, b in period 1, unless a run has one value.   *)
EXTENDS AgreementInv, TLC

CONSTANTS n1, n2, a, b

Either == {{n1}, {n2}, {n1, n2}}
Both == {{n1, n2}}
First == {{n1}, {n1, n2}}

MCOriginalPeriod == (a :> 0) @@ (b :> 1)
OneValuePeriod == (a :> 0)
LaterPeriod == (a :> 2)

\* What a node that cannot crash has on disk plays no part.
View == <<node, [n \in Crashing |-> disk[n]], votes, ledger>>
=============================================================================
