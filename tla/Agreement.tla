------------------------------ MODULE Agreement ------------------------------
(***************************************************************************)
(* One round of the agreement protocol, run by every honest node: the      *)
(* player (agreement/player.go) with the parts of the proposal and vote    *)
(* machines that decide what it votes for and when it ends the round.      *)
(*                                                                         *)
(* Every honest node attests in every step; whether sortition then selects *)
(* it is left out, so a threshold is a quorum of attestations.  A quorum   *)
(* is given by its honest members: corrupt ones vote for anything, twice.  *)
(* The set of votes only grows, and a node learns of a threshold at any    *)
(* later time or never: votes and bundles are lost, delayed and reordered. *)
(*                                                                         *)
(* A node that crashes comes back in the state it last persisted, which is *)
(* the state right after its last attest action (actions.go, service.go).  *)
(***************************************************************************)
EXTENDS Integers, Freshness

CONSTANTS
    Honest,          \* the nodes that run this code
    Values,          \* proposal-values other than bottom
    OriginalPeriod,  \* the period each proposal-value was first proposed in
    SoftQuorums, CertQuorums, NextQuorums,  \* honest members of the quorums
    MaxPeriod,       \* bound: the last period a node enters
    MaxStep,         \* bound: the last recovery step a node enters
    Crashing,        \* nodes whose process may die, or whose disk may fail
    Forgetting,      \* nodes that see enough proposals to drop blocks
    Recovering,      \* nodes that stay in a period after its first next step
    Timely,          \* nodes that never fall minutes behind their own deadlines
    StagedKept,      \* no node stages a block it holds for another period only
    DiskKept         \* no node restarts again before it has written its state

soft == 1
cert == 2
next == 3
late == 253
redo == 254
down == 255

Periods == 0..MaxPeriod
FastSteps == {late, redo, down}
NextSteps == (next..MaxStep) \cup FastSteps
Steps == {soft, cert} \cup NextSteps
ValuesOrBottom == Values \cup {bottom}

ASSUME BottomAssumption == bottom \notin Values
ASSUME OriginalAssumption == OriginalPeriod \in [Values -> Nat]
ASSUME BoundsAssumption == MaxPeriod \in Nat /\ MaxStep \in next..(late - 1)
ASSUME FaultsAssumption ==
    Crashing \subseteq Honest /\ Forgetting \subseteq Honest /\ Recovering \subseteq Honest
ASSUME TimelyAssumption ==
    Timely \subseteq Honest /\ StagedKept \in BOOLEAN /\ DiskKept \in BOOLEAN
ASSUME QuorumsAssumption ==
    /\ SoftQuorums \subseteq SUBSET Honest
    /\ CertQuorums \subseteq SUBSET Honest
    /\ NextQuorums \subseteq SUBSET Honest
    /\ {} \notin CertQuorums
    /\ \A Q, R \in SoftQuorums : Q \cap R # {}
    /\ \A Q \in CertQuorums, R \in NextQuorums : Q \cap R # {}

VARIABLES
    node,    \* the state each node holds in memory
    disk,    \* the state each node would restore after a crash
    votes,   \* every vote a node has issued: <<node, period, step, value>>
    ledger   \* the value each node has ensured for the round, or bottom

vars == <<node, disk, votes, ledger>>

thresholdEvent == [T : {"none", "soft", "cert", "next"}, Period : Periods,
                   Proposal : ValuesOrBottom]
noEvent == [T |-> "none", Period |-> 0, Proposal |-> bottom]

NodeState ==
    [Period : Periods, Step : 1..MaxStep, Napping : BOOLEAN,
     Staging : [Periods -> ValuesOrBottom],   \* proposalTracker.Staging
     NextBottom : [Periods -> BOOLEAN],       \* voteTrackerPeriod.Cached
     NextProposal : [Periods -> ValuesOrBottom],
     Freshest : thresholdEvent,               \* voteTrackerRound.Freshest
     Pinned : ValuesOrBottom,                 \* proposalStore.Pinned
     Assembled : SUBSET Values,               \* blocks held by proposalStore
     Loose : BOOLEAN]                         \* the staged one is not Relevant[Period]

newPlayer ==
    [Period |-> 0, Step |-> soft, Napping |-> FALSE,
     Staging |-> [p \in Periods |-> bottom],
     NextBottom |-> [p \in Periods |-> FALSE],
     NextProposal |-> [p \in Periods |-> bottom],
     Freshest |-> noEvent, Pinned |-> bottom, Assembled |-> {}, Loose |-> FALSE]

Init ==
    /\ node = [n \in Honest |-> newPlayer]
    /\ disk = [n \in Honest |-> newPlayer]
    /\ votes = {}
    /\ ledger = [n \in Honest |-> bottom]

-----------------------------------------------------------------------------
(* Thresholds.                                                             *)

QuorumsOf(s) ==
    IF s = soft THEN SoftQuorums ELSE IF s = cert THEN CertQuorums
    ELSE NextQuorums

\* Votes from soft and cert steps cannot validate bottom (vote.verify).
Threshold(p, s, v) ==
    /\ s \in {soft, cert} => v # bottom
    /\ \E Q \in QuorumsOf(s) : \A n \in Q : <<n, p, s, v>> \in votes

\* What has been voted for: the only candidates for a threshold.
Cast == {<<vote[2], vote[3], vote[4]>> : vote \in votes}

EventType(s) == IF s = soft THEN "soft" ELSE IF s = cert THEN "cert" ELSE "next"

-----------------------------------------------------------------------------
(* What the player asks of the other machines.                             *)

\* nextThresholdStatus of the previous period; period 0 has none.
NextStatus(st) ==
    IF st.Period = 0 THEN [Bottom |-> FALSE, Proposal |-> bottom]
    ELSE [Bottom   |-> st.NextBottom[st.Period - 1],
          Proposal |-> st.NextProposal[st.Period - 1]]

Committable(st, p) == st.Staging[p] \in st.Assembled

\* proposalStore.trim keeps the pinned block and the relevant ones: which
\* others are relevant depends on the proposal-votes the node has seen.
Trims(n, st, keep) ==
    {kept \in SUBSET st.Assembled :
        st.Assembled \cap (IF n \in Forgetting THEN keep ELSE Values) \subseteq kept}

\* The blocks no proposal-vote displaces.
Kept(st) == IF st.Loose THEN {st.Pinned} ELSE {st.Pinned, st.Staging[st.Period]}

\* A soft threshold for a block the node has already leaves Relevant as it is:
\* what the node holds for the period before or after stays so, unless it is
\* the proposal the node has frozen and soft-voted.
StagesLoose(n, e) ==
    ~StagedKept /\ n \in Forgetting /\ <<n, e.Period, soft, e.Proposal>> \notin votes

-----------------------------------------------------------------------------
(* Effects on the node that acts.                                          *)

InRound(n) == ledger[n] = bottom

Become(n, st) ==
    /\ node' = [node EXCEPT ![n] = st]
    /\ UNCHANGED <<disk, votes, ledger>>

\* Fault: the vote leaves the node before its state is on disk.
VoteUnpersisted(n, st, s, v) ==
    /\ node' = [node EXCEPT ![n] = st]
    /\ votes' = votes \cup {<<n, st.Period, s, v>>}
    /\ UNCHANGED <<disk, ledger>>

\* The new state is on disk before the vote leaves the node.
PersistAndVote(n, st, s, v) ==
    /\ node' = [node EXCEPT ![n] = st]
    /\ disk' = [disk EXCEPT ![n] = st]
    /\ votes' = votes \cup {<<n, st.Period, s, v>>}
    /\ UNCHANGED ledger

\* attest: when the state cannot be written, the player goes on and the vote
\* is dropped.
Attest(n, st, s, v) ==
    \/ PersistAndVote(n, st, s, v)
    \/ n \in Crashing /\ Become(n, st)

\* ensureAction and enterRound: the node leaves the round with its block, and
\* the router collects the state of the old round.
Ensure(n, v) ==
    /\ node' = [node EXCEPT ![n] = newPlayer]
    /\ ledger' = [ledger EXCEPT ![n] = v]
    /\ UNCHANGED <<disk, votes>>

\* The process dies and restores what it persisted.  A block that was only
\* handed to the ledger may be lost with it.  The restored attest action is
\* executed again: its vote is not new, but it writes the variables of the new
\* process, which the main loop has not set, over the state restored.
Restart(n) ==
    /\ node' = [node EXCEPT ![n] = disk[n]]
    /\ ledger' = [ledger EXCEPT ![n] = bottom]
    /\ UNCHANGED votes
    /\ \/ UNCHANGED disk
       \/ ~DiskKept /\ disk' = [disk EXCEPT ![n] = newPlayer]

-----------------------------------------------------------------------------
(* Timeouts.                                                               *)

\* issueSoftVote: what the node soft-votes when its lowest proposal is prop.
SoftVote(st, prop) ==
    LET status == NextStatus(st) IN
    IF ~status.Bottom /\ status.Proposal # bottom THEN status.Proposal
    ELSE IF prop = bottom THEN bottom
    ELSE IF st.Period > OriginalPeriod[prop] /\ status.Proposal # prop
    THEN bottom
    ELSE prop

SoftTimeout(n, prop) ==
    LET st == node[n]
        v  == SoftVote(st, prop)
        to == [st EXCEPT !.Step = cert]
    IN  /\ InRound(n)
        /\ st.Step = soft
        /\ prop # bottom => OriginalPeriod[prop] <= st.Period
        /\ IF v = bottom THEN Become(n, to) ELSE Attest(n, to, soft, v)

\* Fault: the staged value is not looked at.
NextVoteStarting(st) ==
    IF ~NextStatus(st).Bottom THEN NextStatus(st).Proposal ELSE bottom

\* issueNextVote and issueFastVote choose the same value.
NextVote(st) ==
    IF Committable(st, st.Period) THEN st.Staging[st.Period]
    ELSE IF ~NextStatus(st).Bottom THEN NextStatus(st).Proposal ELSE bottom

CertTimeout(n) ==
    LET st == node[n]
        to == [st EXCEPT !.Step = next, !.Napping = FALSE]
    IN  /\ InRound(n)
        /\ st.Step = cert
        /\ Attest(n, to, next, NextVote(st))

NapTimeout(n) ==
    LET st == node[n] IN
    /\ n \in Recovering
    /\ InRound(n)
    /\ st.Step \in next..(MaxStep - 1)
    /\ ~st.Napping
    /\ Become(n, [st EXCEPT !.Step = @ + 1, !.Napping = TRUE])

NextTimeout(n) ==
    LET st == node[n] IN
    /\ InRound(n)
    /\ st.Step >= next
    /\ st.Napping
    /\ Attest(n, [st EXCEPT !.Napping = FALSE], st.Step, NextVote(st))

FastStep(st) ==
    IF NextVote(st) = bottom THEN down
    ELSE IF Committable(st, st.Period) THEN late ELSE redo

\* The second and later fast timeouts of a period (the first only sets the
\* next deadline).  The code does not look at the step: a timely node is past
\* the cert step because the deadlines of the soft and cert steps are seconds
\* away and these are minutes away.
FastTimeout(n) ==
    LET st == node[n] IN
    /\ n \in Recovering
    /\ InRound(n)
    /\ n \in Timely => st.Step >= next
    /\ Attest(n, st, FastStep(st), NextVote(st))

-----------------------------------------------------------------------------
(* Threshold events.                                                       *)

\* voteTrackerPeriod and voteTrackerRound remember the event.
Observe(st, e) ==
    LET cached ==
          IF e.T # "next" THEN st
          ELSE IF e.Proposal = bottom
          THEN [st EXCEPT !.NextBottom[e.Period] = TRUE]
          ELSE [st EXCEPT !.NextProposal[e.Period] = e.Proposal]
    IN  IF fresherThan(e, st.Freshest)
        THEN [cached EXCEPT !.Freshest = e] ELSE cached

\* Fault: nothing is pinned.
PinnedByNobody(st, e) == st.Pinned

\* proposalManager.handleNewPeriod: the block that may have a certificate is
\* pinned before the player moves.
PinnedBy(st, e) ==
    IF e.Proposal # bottom THEN e.Proposal
    ELSE IF st.Staging[st.Period] # bottom THEN st.Staging[st.Period]
    ELSE st.Pinned

\* Fault: the new period starts in step propose.
enterPeriodPropose(st, e, target, kept) ==
    [st EXCEPT !.Pinned = PinnedBy(st, e), !.Assembled = kept,
               !.Period = target, !.Step = 0, !.Napping = FALSE, !.Loose = FALSE]

enterPeriod(st, e, target, kept) ==
    [st EXCEPT !.Pinned = PinnedBy(st, e), !.Assembled = kept,
               !.Period = target, !.Step = soft, !.Napping = FALSE, !.Loose = FALSE]

Stage(st, e) == [st EXCEPT !.Staging[e.Period] = e.Proposal]

\* A threshold no fresher than one seen before is remembered and dropped.
StaleThreshold(n, e) ==
    /\ ~fresherThan(e, node[n].Freshest)
    /\ Become(n, Observe(node[n], e))

certThreshold(n, e) ==
    LET st == Stage(Observe(node[n], e), e) IN
    /\ e.T = "cert"
    /\ fresherThan(e, node[n].Freshest)
    /\ IF Committable(st, e.Period) THEN Ensure(n, e.Proposal)
       ELSE IF st.Period < e.Period
       THEN \E kept \in Trims(n, st, {e.Proposal}) :
               Become(n, enterPeriod(st, e, e.Period, kept))
       ELSE \E kept \in Trims(n, st, Kept(st)) :
               Become(n, [st EXCEPT !.Assembled = kept,
                                    !.Loose = @ /\ e.Period # st.Period])

softThreshold(n, e) ==
    LET st == Observe(node[n], e) IN
    /\ e.T = "soft"
    /\ fresherThan(e, node[n].Freshest)
    /\ \/ /\ st.Period > e.Period
          /\ Become(n, st)
       \/ /\ st.Period < e.Period
          /\ \E kept \in Trims(n, st, {e.Proposal}) :
                LET to == Stage(enterPeriod(st, e, e.Period, kept), e) IN
                IF Committable(to, e.Period)
                THEN Attest(n, to, cert, e.Proposal)
                ELSE Become(n, to)
       \/ /\ st.Period = e.Period
          /\ LET to == Stage(st, e) IN
             IF Committable(to, e.Period)
             THEN \E loose \in BOOLEAN :
                     /\ loose => StagesLoose(n, e)
                     /\ LET held == [to EXCEPT !.Loose = loose] IN
                        IF st.Step <= cert THEN Attest(n, held, cert, e.Proposal)
                        ELSE Become(n, held)
             ELSE \E kept \in Trims(n, st, {st.Pinned}) :
                     Become(n, [to EXCEPT !.Assembled = kept])

nextThreshold(n, e) ==
    LET st == Observe(node[n], e) IN
    /\ e.T = "next"
    /\ fresherThan(e, node[n].Freshest)
    /\ \/ /\ st.Period > e.Period
          /\ Become(n, st)
       \/ /\ st.Period <= e.Period
          /\ e.Period < MaxPeriod
          /\ \E kept \in Trims(n, st, {PinnedBy(st, e)}) :
                Become(n, enterPeriod(st, e, e.Period + 1, kept))

\* Votes and bundles of old periods are filtered, except certificates.
bundleFresh(st, p, s) == s = cert \/ p + 1 >= st.Period

\* roundRouter.update has dropped the trackers of the period.
Collected(st, p) == p > 1 /\ p + 1 < st.Period

\* A threshold is learnt from a bundle or from its votes.  One of a period
\* whose trackers are gone ends the process: roundRouter.dispatch finds nil.
ThresholdEvent(n, p, s, v) ==
    LET e == [T |-> EventType(s), Period |-> p, Proposal |-> v] IN
    /\ InRound(n)
    /\ bundleFresh(node[n], p, s)
    /\ Threshold(p, s, v)
    /\ IF Collected(node[n], p) THEN Restart(n)
       ELSE \/ StaleThreshold(n, e)
            \/ certThreshold(n, e)
            \/ softThreshold(n, e)
            \/ nextThreshold(n, e)

-----------------------------------------------------------------------------
(* Payloads, proposals, crashes.                                           *)

\* Fault: a cert vote may follow a next vote.
PayloadVerifiedLate(n, v) ==
    LET st == node[n]
        to == [st EXCEPT !.Assembled = @ \cup {v}]
    IN  /\ InRound(n)
        /\ v \notin st.Assembled
        /\ IF st.Freshest.T = "cert" /\ st.Freshest.Proposal = v
           THEN Ensure(n, v)
           ELSE IF st.Staging[st.Period] = v
           THEN Attest(n, to, cert, v)
           ELSE Become(n, to)

\* Fault: any threshold for the block's value passes for its certificate.
PayloadVerifiedAny(n, v) ==
    LET st == node[n]
        to == [st EXCEPT !.Assembled = @ \cup {v}]
    IN  /\ InRound(n)
        /\ v \notin st.Assembled
        /\ IF st.Freshest.Proposal = v THEN Ensure(n, v)
           ELSE IF st.Staging[st.Period] = v /\ st.Step <= cert
           THEN Attest(n, to, cert, v)
           ELSE Become(n, to)

\* payloadVerified: the block of v arrives and is valid.
PayloadVerified(n, v) ==
    LET st == node[n]
        to == [st EXCEPT !.Assembled = @ \cup {v}]
    IN  /\ InRound(n)
        /\ v \notin st.Assembled
        /\ IF st.Freshest.T = "cert" /\ st.Freshest.Proposal = v
           THEN Ensure(n, v)
           ELSE IF st.Staging[st.Period] = v /\ st.Step <= cert
           THEN Attest(n, to, cert, v)
           ELSE Become(n, to)

\* A proposal-vote makes another value relevant: the store drops blocks that
\* no longer are.
ProposalVote(n) ==
    LET st == node[n] IN
    /\ InRound(n)
    /\ \E kept \in Trims(n, st, Kept(st)) :
          /\ kept # st.Assembled
          /\ Become(n, [st EXCEPT !.Assembled = kept])

Crash(n) ==
    /\ n \in Crashing
    /\ Restart(n)

Next ==
    \E n \in Honest :
       \/ \E prop \in ValuesOrBottom : SoftTimeout(n, prop)
       \/ CertTimeout(n)
       \/ NapTimeout(n)
       \/ NextTimeout(n)
       \/ FastTimeout(n)
       \/ \E e \in Cast : ThresholdEvent(n, e[1], e[2], e[3])
       \/ \E v \in Values : PayloadVerified(n, v)
       \/ ProposalVote(n)
       \/ Crash(n)

Spec == Init /\ [][Next]_vars
-----------------------------------------------------------------------------
(* Properties.                                                             *)

(* Type invariant: the states a player, its trackers and its store can be  *)
(* in; in particular Step is never propose (playerContract.go).            *)
TypeOK ==
    /\ node \in [Honest -> NodeState]
    /\ disk \in [Honest -> NodeState]
    /\ votes \subseteq Honest \X Periods \X Steps \X ValuesOrBottom
    /\ ledger \in [Honest -> ValuesOrBottom]

(* The safety of agreement: no two certificates of the round are for       *)
(* different values, whatever periods they come from.                      *)
CertificatesAgree ==
    \A p, q \in Periods, v, w \in Values :
        Threshold(p, cert, v) /\ Threshold(q, cert, w) => v = w

(* An honest node never equivocates in the soft, cert, late and recovery   *)
(* steps, although it may crash after any vote and run the handlers again: *)
(* its weight never turns into that of an equivocator.                     *)
OneVotePerStep ==
    \A x, y \in votes :
        x[1] = y[1] /\ x[2] = y[2] /\ x[3] = y[3] /\ x[3] # redo => x[4] = y[4]

(* Cert votes and recovery do not cross.  A node that has cert-voted a     *)
(* value and still has its block recovers with that value only: every      *)
(* next, late, redo or down vote it casts later in the period is for it    *)
(* (issueNextVote and issueFastVote ask for the staged value first).  And  *)
(* after a next vote it no longer cert-votes in the period, whichever way  *)
(* block and soft threshold arrive.  Both hold across restarts.            *)
CertBindsNext ==
    [][\A x \in votes, y \in votes' \ votes :
          x[1] = y[1] /\ x[2] = y[2] =>
             /\ x[3] = cert /\ y[3] \in NextSteps /\ x[4] \in node[x[1]].Assembled
                   => y[4] = x[4]
             /\ x[3] \in next..MaxStep => y[3] # cert]_vars

(* Once a value has its certificate, no later period can be entered with   *)
(* another one: recovery quorums from that period on are for it.           *)
RecoveryKeepsCertified ==
    \A c, e \in Cast :
        /\ c[2] = cert /\ Threshold(c[1], cert, c[3])
        /\ e[2] \in NextSteps /\ Threshold(e[1], e[2], e[3])
        /\ c[1] <= e[1]
        => e[3] = c[3]

(* A node still in the round holds the block of a value that has a         *)
(* certificate if it took part in the certificate: "if a player has voted  *)
(* for a value, they have the block" (player.go, issueNextVote).           *)
CertVoterHasBlock ==
    \A n \in Honest, p \in Periods, v \in Values :
        InRound(n) /\ <<n, p, cert, v>> \in votes /\ Threshold(p, cert, v)
            => v \in node[n].Assembled

(* Only a certified value is written to a ledger.                          *)
LedgerCertified ==
    \A n \in Honest :
        ledger[n] # bottom => \E p \in Periods : Threshold(p, cert, ledger[n])

Certified == {v \in Values : \E p \in Periods : Threshold(p, cert, v)}

Outcome == INSTANCE RoundOutcome WITH certified <- Certified

(* The round has at most one outcome: this protocol implements the         *)
(* specification of a single, stable, written-once result.                 *)
ImplementsOutcome == Outcome!Spec

(* Certificates and blocks that exist reach everyone in the end: they are  *)
(* relayed and requested until they do (partitionPolicy, catchup).         *)
Fairness ==
    \A n \in Honest :
        /\ \A p \in Periods, v \in Values : WF_vars(ThresholdEvent(n, p, cert, v))
        /\ \A v \in Values : WF_vars(PayloadVerified(n, v))

FairSpec == Spec /\ Fairness

(* A certificate is never lost: whatever period a node has moved to when   *)
(* it hears of it, and with or without the block, it ends the round.       *)
CertificateEndsRound ==
    \A n \in Honest : Certified # {} ~> ~InRound(n)
=============================================================================
