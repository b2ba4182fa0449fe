------------------------------ MODULE BlockLog ------------------------------
(***************************************************************************)
(* What the ledger promises to those who write blocks and wait for them:   *)
(* blocks are numbered without gaps, a prefix of them is durable and only  *)
(* grows, a crash keeps that prefix and may lose the rest, and whoever is  *)
(* told that a round is stored is told so of a durable one.                *)
(***************************************************************************)
EXTENDS Naturals, Sequences

CONSTANTS Blocks, Waits   \* what a block may hold; the rounds waited for

VARIABLES
    log,      \* the blocks of rounds 1, 2, ...
    durable,  \* the last round a crash cannot lose
    told      \* the rounds somebody was told are stored

vars == <<log, durable, told>>

Init == log = <<>> /\ durable = 0 /\ told = {}

Add(b) ==
    /\ log' = Append(log, b)
    /\ UNCHANGED <<durable, told>>

Flush ==
    /\ durable' \in durable..Len(log)
    /\ UNCHANGED <<log, told>>

Tell ==
    /\ told \subseteq told'
    /\ told' \subseteq told \cup {r \in Waits : r <= durable}
    /\ UNCHANGED <<log, durable>>

Lose ==
    /\ log' = SubSeq(log, 1, durable)
    /\ UNCHANGED <<durable, told>>

Next == Flush \/ Tell \/ Lose \/ \E b \in Blocks : Add(b)

Spec == Init /\ [][Next]_vars
=============================================================================
