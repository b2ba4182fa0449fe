------------------------------ MODULE MCLedger ------------------------------
(* Instances of Ledger: one account that some of the rounds touch, the two *)
(* services that add blocks and one round to wait for.                     *)
EXTENDS Ledger

CONSTANTS acct, agreement, catchup, certvoters

MCAgreed == [r \in 1..MaxRound |-> IF r = 3 THEN {} ELSE {acct}]
MCOffered == [w \in Writers |-> IF w = catchup THEN {2} ELSE 1..MaxRound]
NoVoters == [w \in Writers |-> none]
SomeVoters == [w \in Writers |-> certvoters]
=============================================================================
