---------------------------- MODULE ProposalStore ----------------------------
(***************************************************************************)
(* The proposals of one round on one node: proposalManager, proposalStore  *)
(* and the proposalTracker of each period, with the part of the player     *)
(* that drives them and the contexts under which blocks are validated      *)
(* (agreement/proposal*.go, player.go, cryptoRequestContext.go).           *)
(*                                                                         *)
(* The store is created while the player is still in the round before, to  *)
(* pipeline proposals.  Which thresholds form is decided by the other      *)
(* nodes: any choice that the agreement protocol allows.                   *)
(***************************************************************************)
EXTENDS Integers, FiniteSets, Functions, Freshness

CONSTANTS
    Values,            \* proposal-values other than bottom
    Senders,           \* proposers; the smaller number has the lower credential
    OriginalPeriod,    \* the period each value was first proposed in
    OriginalProposer,  \* its proposer
    Own,               \* values the node proposes itself
    MaxPeriod          \* bound: the last period the node enters

soft == 1
cert == 2
next == 3

Periods == 0..MaxPeriod
ValuesOrBottom == Values \cup {bottom}
pinned == -1   \* the context of the pinned block (cryptoRequestCtxKey)

ASSUME StoreAssumption ==
    /\ bottom \notin Values
    /\ Senders \subseteq Nat
    /\ OriginalPeriod \in [Values -> Nat]
    /\ OriginalProposer \in [Values -> Senders]
    /\ Own \subseteq Values
    /\ MaxPeriod \in Nat

VARIABLES
    st,       \* the state of the node for the round
    quorums   \* the thresholds the other nodes will form; never changes

vars == <<st, quorums>>

thresholdEvent == [T : {"none", "soft", "cert", "next"}, Period : Periods,
                   Proposal : ValuesOrBottom]
noEvent == [T |-> "none", Period |-> 0, Proposal |-> bottom]
noVote == <<>>

newStore ==
    [Phase |-> "before",                            \* player in the round before
     Period |-> 0, Step |-> soft,
     Duplicate |-> [p \in Periods |-> {}],          \* proposalTracker, by period
     Lowest |-> [p \in Periods |-> noVote],
     Frozen |-> [p \in Periods |-> FALSE],
     Staging |-> [p \in Periods |-> bottom],
     Relevant |-> [p \in Periods |-> bottom],       \* proposalStore
     Pinned |-> bottom,
     Assemblers |-> [v \in {} |-> "empty"],
     verifying |-> {},                              \* <<value, context>>
     Freshest |-> noEvent]                          \* voteTrackerRound

\* What quorums the agreement protocol can form around one node.
Quorums ==
    {Q \in [soft : [Periods -> ValuesOrBottom], next : [Periods -> ValuesOrBottom],
            cert : Periods \cup {MaxPeriod + 1}] :
        /\ \A p \in Periods :
              LET repeats(v) == p > 0 /\ Q.next[p - 1] = v IN
              /\ \/ Q.soft[p] = bottom \/ repeats(Q.soft[p])
                 \/ OriginalPeriod[Q.soft[p]] = p
              /\ Q.next[p] \in {bottom, Q.soft[p]} \/ repeats(Q.next[p])
              /\ p >= Q.cert => /\ Q.soft[Q.cert] # bottom
                                /\ Q.soft[p] \in {bottom, Q.soft[Q.cert]}
                                /\ Q.next[p] = Q.soft[Q.cert]}

Init == st = newStore /\ quorums \in Quorums

\* The thresholds that exist in this round.
Formed ==
    {e \in thresholdEvent :
        CASE e.T = "none" -> FALSE
          [] e.T = "soft" -> e.Proposal = quorums.soft[e.Period] /\ e.Proposal # bottom
          [] e.T = "cert" -> e.Period = quorums.cert /\ e.Proposal = quorums.soft[e.Period]
          [] e.T = "next" ->
               IF e.Proposal = bottom THEN e.Period < quorums.cert
               ELSE e.Proposal = quorums.next[e.Period]}

-----------------------------------------------------------------------------
(* The store.                                                              *)

Assembled(s, v) == v \in DOMAIN s.Assemblers /\ s.Assemblers[v] = "assembled"

\* Fault: the assembler of bottom is kept.
trimBottom(s) ==
    LET tracked == {s.Pinned} \cup (Range(s.Relevant) \ {bottom}) IN
    [s EXCEPT !.Assemblers =
        [v \in tracked |-> IF v \in DOMAIN @ THEN @[v] ELSE "empty"]]

\* Fault: only relevant values are kept.
trimPinned(s) ==
    LET tracked == Range(s.Relevant) \ {bottom} IN
    [s EXCEPT !.Assemblers =
        [v \in tracked |-> IF v \in DOMAIN @ THEN @[v] ELSE "empty"]]

trim(s) ==
    LET tracked == ({s.Pinned} \cup Range(s.Relevant)) \ {bottom} IN
    [s EXCEPT !.Assemblers =
        [v \in tracked |-> IF v \in DOMAIN @ THEN @[v] ELSE "empty"]]

\* proposalManager.handleNewPeriod: called before the player moves.
handleNewPeriod(s, v, target) ==
    LET staged == s.Staging[s.Period] IN
    trim([s EXCEPT !.Pinned = IF v # bottom THEN v
                              ELSE IF staged # bottom THEN staged ELSE @,
                   !.Relevant = [p \in Periods |->
                                    IF p + 1 < target THEN bottom ELSE @[p]]])

\* softThreshold and certThreshold at the store: the value is staged, and
\* tracked unless its block is there already.
stage(s, e) ==
    LET staged == [s EXCEPT !.Staging[e.Period] = e.Proposal] IN
    IF Assembled(s, e.Proposal) THEN staged
    ELSE trim([staged EXCEPT !.Relevant[e.Period] = e.Proposal])

\* proposalManager.handle of the same events.
manage(s, e) ==
    stage(IF s.Period < e.Period THEN handleNewPeriod(s, e.Proposal, e.Period) ELSE s, e)

\* (0, true) for the pinned value, else the last period it is relevant in.
lastRelevant(s, v) ==
    LET in == {p \in Periods : s.Relevant[p] = v} IN
    IF s.Pinned = v THEN pinned
    ELSE IF in = {} THEN 0 ELSE CHOOSE p \in in : \A q \in in : q <= p

\* addProposal: a block sent to validation takes the place of the one that is
\* validated in the same context, unless that one is through already.
verify(s, v) ==
    LET key == lastRelevant(s, v)
        old == {r \in s.verifying : r[2] = key /\ r[1] # v}
    IN  {[s EXCEPT !.verifying = (@ \ cancelled) \cup {<<v, key>>}] :
            cancelled \in SUBSET old}

-----------------------------------------------------------------------------
(* The player.                                                             *)

Move(s, target) == [s EXCEPT !.Period = target, !.Step = soft]

\* The round is over and its state is collected.
Leave == [newStore EXCEPT !.Phase = "after"]

certThreshold(s, e) ==
    LET to == manage(s, e) IN
    IF Assembled(to, e.Proposal) THEN Leave
    ELSE IF s.Period < e.Period THEN Move(manage(to, e), e.Period) ELSE to

softThreshold(s, e) ==
    IF s.Period > e.Period THEN s
    ELSE IF s.Period < e.Period THEN Move(manage(s, e), e.Period)
    ELSE manage(s, e)

nextThreshold(s, e) ==
    IF s.Period > e.Period THEN s
    ELSE Move(handleNewPeriod(s, e.Proposal, e.Period + 1), e.Period + 1)

handleThresholdEvent(s, e) ==
    CASE e.T = "cert" -> certThreshold(s, e)
      [] e.T = "soft" -> softThreshold(s, e)
      [] e.T = "next" -> nextThreshold(s, e)
      [] OTHER -> s

-----------------------------------------------------------------------------
(* Events.                                                                 *)

\* Fault: proposals of later periods of the next round are pipelined too.
proposalFreshAny(s, p) == s.Phase = "in" => p \in (s.Period - 1)..(s.Period + 1)

proposalFresh(s, p) ==
    IF s.Phase = "before" THEN p = 0 ELSE p \in (s.Period - 1)..(s.Period + 1)

\* Fault: a tracker that has staged a value goes on accepting others.
acceptsStaged(s, p, sender) ==
    ~s.Frozen[p] /\ (s.Lowest[p] = noVote \/ sender < s.Lowest[p][1])

\* proposalTracker on a proposal-vote of a sender it has not seen.
accepts(s, p, sender) ==
    /\ s.Staging[p] = bottom
    /\ ~s.Frozen[p]
    /\ s.Lowest[p] = noVote \/ sender < s.Lowest[p][1]

\* Fault: the store tracks the value whatever the tracker answers.
ProposalVoteTracked(p, sender, v) ==
    /\ st.Phase \in {"before", "in"}
    /\ OriginalPeriod[v] <= p /\ (OriginalPeriod[v] = p => OriginalProposer[v] = sender)
    /\ proposalFresh(st, p)
    /\ sender \notin st.Duplicate[p]
    /\ LET seen == [st EXCEPT !.Duplicate[p] = @ \cup {sender}] IN
       st' = trim([seen EXCEPT !.Relevant[p] = v,
                    !.Lowest[p] = IF accepts(st, p, sender) THEN <<sender, v>> ELSE @])
    /\ UNCHANGED quorums

\* A proposal-vote has been verified.
ProposalVote(p, sender, v) ==
    /\ st.Phase \in {"before", "in"}
    /\ OriginalPeriod[v] <= p /\ (OriginalPeriod[v] = p => OriginalProposer[v] = sender)
    /\ proposalFresh(st, p)
    /\ sender \notin st.Duplicate[p]
    /\ LET seen == [st EXCEPT !.Duplicate[p] = @ \cup {sender}] IN
       st' = IF accepts(st, p, sender)
             THEN trim([seen EXCEPT !.Lowest[p] = <<sender, v>>, !.Relevant[p] = v])
             ELSE seen
    /\ UNCHANGED quorums

\* A block arrives: it is pipelined and, in its round, validated.
PayloadPresent(v) ==
    LET filled == [st EXCEPT !.Assemblers[v] = "filled"] IN
    /\ v \in DOMAIN st.Assemblers
    /\ st.Assemblers[v] = "empty"
    /\ IF st.Phase = "before" THEN st' = filled ELSE st' \in verify(filled, v)
    /\ UNCHANGED quorums

\* A block has been validated, or was made by this node.
PayloadVerified(v) ==
    LET done == [st EXCEPT !.verifying = {r \in @ : r[1] # v}]
        to   == [done EXCEPT !.Assemblers[v] = "assembled"]
    IN  /\ st.Phase = "in"
        /\ v \in Own \/ \E r \in st.verifying : r[1] = v
        /\ st' = IF v \notin DOMAIN st.Assemblers \/ Assembled(st, v) THEN done
                 ELSE IF st.Freshest.T = "cert" /\ st.Freshest.Proposal = v THEN Leave
                 ELSE to
        /\ UNCHANGED quorums

\* A threshold reaches voteTrackerRound and, if it is the freshest and of this
\* round, the player.
Threshold(e) ==
    LET seen == [st EXCEPT !.Freshest = e] IN
    /\ st.Phase \in {"before", "in"}
    /\ fresherThan(e, st.Freshest)
    /\ e.T = "next" => e.Period < MaxPeriod
    /\ \/ st.Phase = "before" /\ e.Period = 0 /\ st' = seen
       \/ /\ st.Phase = "in" /\ (e.T = "cert" \/ e.Period + 1 >= st.Period)
          /\ st' = handleThresholdEvent(seen, e)
    /\ UNCHANGED quorums

\* issueSoftVote freezes the tracker of the period.
SoftTimeout ==
    /\ st.Phase = "in" /\ st.Step = soft
    /\ st' = [st EXCEPT !.Frozen[st.Period] = TRUE, !.Step = cert]
    /\ UNCHANGED quorums

CertTimeout ==
    /\ st.Phase = "in" /\ st.Step = cert
    /\ st' = [st EXCEPT !.Step = next]
    /\ UNCHANGED quorums

\* The player enters this round: the pipelined block is validated and the
\* freshest pipelined threshold is handled.
EnterRound ==
    LET in     == [st EXCEPT !.Phase = "in"]
        filled == {v \in DOMAIN st.Assemblers : st.Assemblers[v] = "filled"}
    IN  /\ st.Phase = "before"
        /\ \E to \in IF filled = {} THEN {in} ELSE UNION {verify(in, v) : v \in filled} :
              st' = handleThresholdEvent(to, st.Freshest)
        /\ UNCHANGED quorums

\* roundInterruption: the ledger got the block elsewhere.
Interruption ==
    /\ st.Phase = "in"
    /\ st' = Leave
    /\ UNCHANGED quorums

Next ==
    \/ \E p \in Periods, sender \in Senders, v \in Values : ProposalVote(p, sender, v)
    \/ \E v \in Values : PayloadPresent(v)
    \/ \E v \in Values : PayloadVerified(v)
    \/ \E e \in Formed : Threshold(e)
    \/ SoftTimeout
    \/ CertTimeout
    \/ EnterRound
    \/ Interruption

Spec == Init /\ [][Next]_vars

-----------------------------------------------------------------------------
(* Properties.                                                             *)

(* Type invariant: the trackers, the store and the validation contexts.    *)
TypeOK ==
    /\ quorums \in Quorums
    /\ st.Phase \in {"before", "in", "after"}
    /\ st.Period \in Periods /\ st.Step \in {soft, cert, next}
    /\ st.Duplicate \in [Periods -> SUBSET Senders]
    /\ st.Lowest \in [Periods -> (Senders \X Values) \cup {noVote}]
    /\ st.Frozen \in [Periods -> BOOLEAN]
    /\ st.Staging \in [Periods -> ValuesOrBottom]
    /\ st.Relevant \in [Periods -> ValuesOrBottom]
    /\ st.Pinned \in ValuesOrBottom
    /\ DOMAIN st.Assemblers \subseteq Values
    /\ Range(st.Assemblers) \subseteq {"empty", "filled", "assembled"}
    /\ st.verifying \subseteq Values \X (Periods \cup {pinned})
    /\ st.Freshest \in thresholdEvent

(* However proposals of the next round arrive while the player is in the   *)
(* round before, the store pipelines at most one of them: otherwise        *)
(* newRound panics ("too many assemblers").                                *)
OnePipelined == st.Phase = "before" => Cardinality(DOMAIN st.Assemblers) <= 1

(* Relevant holds "the last one reported by the corresponding              *)
(* proposalMachinePeriod": the staged value or the lowest proposal.        *)
RelevantIsReported ==
    \A p \in Periods :
        st.Relevant[p] # bottom =>
            \/ st.Relevant[p] = st.Staging[p]
            \/ st.Lowest[p] # noVote /\ st.Relevant[p] = st.Lowest[p][2]

(* The block for which a certificate may have formed is never dropped: the *)
(* pinned block stays until another value is pinned or the round ends.     *)
PinnedBlockKept ==
    [][st'.Pinned = st.Pinned /\ Assembled(st, st.Pinned)
          => Assembled(st', st.Pinned)]_st

(* proposalStore.handle on a soft threshold: "only val(softThreshold ...)  *)
(* will generate proposalAccepted in the future for this period, therefore *)
(* store.Relevant[te.Period] will not be reset".                           *)
StagedStaysRelevant ==
    [][LET p == st.Period IN
       /\ st.Staging[p] # bottom /\ st.Relevant[p] = st.Staging[p]
       /\ st'.Phase = "in" /\ st'.Period = p
       => st'.Relevant[p] = st.Staging[p]]_st
=============================================================================
