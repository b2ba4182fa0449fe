---------------------------- MODULE AgreementInv ----------------------------
(***************************************************************************)
(* The inductive invariant of Agreement: why two certificates of a round   *)
(* cannot disagree.                                                        *)
(*                                                                         *)
(* A value is choosable in a period while a cert quorum of nodes has voted *)
(* for it there or still might.  From that period on, recovery quorums are *)
(* for that value only: whoever cert-voted it holds its block and repeats  *)
(* it.  So later soft quorums, and then later certificates, are for it too.*)
(***************************************************************************)
EXTENDS Agreement

Voted(n, p, s, v) == <<n, p, s, v>> \in votes
SoftT(p, v) == Threshold(p, soft, v)
CertT(p, v) == Threshold(p, cert, v)
NextT(p, v) == \E s \in NextSteps : Threshold(p, s, v)

\* No vote of n is later than the cert step of period p.
NotPast(n, p) ==
    \A q \in Periods, s \in Steps, x \in ValuesOrBottom :
        Voted(n, q, s, x) => q < p \/ (q = p /\ s \in {soft, cert})

Choosable(p, v) ==
    \E Q \in CertQuorums : \A n \in Q : Voted(n, p, cert, v) \/ NotPast(n, p)

-----------------------------------------------------------------------------
(* What holds of the state of a node, in memory and on disk.               *)

\* It is at or after every vote the node has issued.
VotesBehind(n, st) ==
    \A p \in Periods, s \in Steps, v \in ValuesOrBottom :
        Voted(n, p, s, v) =>
            /\ p <= st.Period
            /\ p = st.Period =>
                 /\ s = soft => st.Step > soft
                 /\ s \in next..MaxStep =>
                      s < st.Step \/ (s = st.Step /\ ~st.Napping)
                 /\ s \in FastSteps => st.Step >= next

\* What it remembers of quorums was really seen.
StagedSound(st) ==
    \A p \in Periods : st.Staging[p] # bottom => SoftT(p, st.Staging[p])

StatusSound(st) ==
    \A p \in Periods :
        /\ st.NextBottom[p] => NextT(p, bottom)
        /\ st.NextProposal[p] # bottom => NextT(p, st.NextProposal[p])

FreshestSound(st) ==
    st.Freshest.T = "cert" => CertT(st.Freshest.Period, st.Freshest.Proposal)

\* It knows of a quorum that let it into its period.
EnteredSound(st) ==
    st.Period > 0 =>
        \/ st.NextBottom[st.Period - 1]
        \/ st.NextProposal[st.Period - 1] # bottom
        \/ st.Staging[st.Period] # bottom

\* It holds the block it cert-voted in its period ...
CertHeld(n, st) ==
    \A v \in Values :
        Voted(n, st.Period, cert, v)
            => st.Staging[st.Period] = v /\ v \in st.Assembled

\* ... and, pinned, the one it cert-voted before, while it may be certified.
PinnedHeld(n, st) ==
    \A p \in Periods, v \in Values :
        p < st.Period /\ Voted(n, p, cert, v) /\ Choosable(p, v)
            => st.Pinned = v /\ v \in st.Assembled

NodeInv(n, st) ==
    /\ st.Loose = FALSE
    /\ VotesBehind(n, st)
    /\ StagedSound(st)
    /\ StatusSound(st)
    /\ FreshestSound(st)
    /\ EnteredSound(st)
    /\ CertHeld(n, st)
    /\ PinnedHeld(n, st)

NodesInv ==
    \A n \in Honest :
        /\ InRound(n) => NodeInv(n, node[n])
        /\ NodeInv(n, disk[n])

-----------------------------------------------------------------------------
(* What holds of the votes.                                                *)

VotesOnce ==
    \A n \in Honest, p \in Periods, s \in {soft} \cup (next..MaxStep),
       v, w \in ValuesOrBottom :
        Voted(n, p, s, v) /\ Voted(n, p, s, w) => v = w

SoftJustified ==
    \A n \in Honest, p \in Periods, v \in ValuesOrBottom :
        Voted(n, p, soft, v) /\ p > 0 =>
            NextT(p - 1, v) \/ NextT(p - 1, bottom) \/ \E w \in Values : SoftT(p, w)

StagedJustified ==
    \A n \in Honest, p \in Periods, s \in {cert, late}, v \in ValuesOrBottom :
        Voted(n, p, s, v) => SoftT(p, v)

DownIsBottom ==
    \A n \in Honest, p \in Periods, v \in ValuesOrBottom :
        Voted(n, p, down, v) => v = bottom

CertBinds ==
    \A n \in Honest, p \in Periods, s \in NextSteps, v, x \in ValuesOrBottom :
        Voted(n, p, cert, v) /\ Voted(n, p, s, x) => x = v

RecoveryBinds ==
    \A n \in Honest, p, q \in Periods, s \in NextSteps, v \in Values,
       x \in ValuesOrBottom :
        p < q /\ Voted(n, p, cert, v) /\ Voted(n, q, s, x) /\ Choosable(p, v)
            => x = v

SoftKeeps ==
    \A p, q \in Periods, v, w \in Values :
        p < q /\ SoftT(q, w) /\ Choosable(p, v) => w = v

VotesInv ==
    /\ VotesOnce
    /\ SoftJustified
    /\ StagedJustified
    /\ DownIsBottom
    /\ CertBinds
    /\ RecoveryBinds
    /\ SoftKeeps

(* The inductive invariant: what nodes remember and hold agrees with what  *)
(* has been voted, and no quorum can turn against a value that a           *)
(* certificate may still be formed for.                                    *)
SafetyInv == TypeOK /\ NodesInv /\ VotesInv /\ LedgerCertified

-----------------------------------------------------------------------------
(* What holds although nodes fast-vote early and lose staged blocks.       *)

\* The value a node has cert-voted in its period is the one it has staged.
CertStaged(n, st) ==
    \A v \in Values : Voted(n, st.Period, cert, v) => st.Staging[st.Period] = v

\* It is in the period of its last vote or later, past its soft vote and, if
\* it has next-voted, past the cert step.
StepsBehind(n, st) ==
    \A p \in Periods, s \in Steps, v \in ValuesOrBottom :
        Voted(n, p, s, v) =>
            /\ p <= st.Period
            /\ p = st.Period /\ s = soft => st.Step > soft
            /\ p = st.Period /\ s \in next..MaxStep => st.Step > cert

Bound(n, st) == CertStaged(n, st) /\ StepsBehind(n, st) /\ StagedSound(st)

SoftOnce ==
    \A n \in Honest, p \in Periods, v, w \in ValuesOrBottom :
        Voted(n, p, soft, v) /\ Voted(n, p, soft, w) => v = w

CertJustified ==
    \A n \in Honest, p \in Periods, v \in ValuesOrBottom :
        Voted(n, p, cert, v) => SoftT(p, v)

BoundNodes ==
    \A n \in Honest :
        /\ InRound(n) => Bound(n, node[n])
        /\ Bound(n, disk[n])

(* A second inductive invariant, for every behaviour of Spec in which no   *)
(* node dies twice between two writes.                                     *)
BindInv == TypeOK /\ SoftOnce /\ CertJustified /\ BoundNodes
=============================================================================
