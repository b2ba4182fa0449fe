----------------------------- MODULE VoteTracker -----------------------------
(***************************************************************************)
(* The vote tracker of one (round, period, step): agreement/voteTracker.go.*)
(*                                                                         *)
(* A tracker counts the weight of the verified votes of a step.  A sender  *)
(* seen voting for two different proposal-values is an equivocator: its    *)
(* weight then counts for every value.  The first vote that takes a value  *)
(* to the quorum makes the tracker return a threshold event, which carries *)
(* a bundle of votes.                                                      *)
(*                                                                         *)
(* A log.Panicf of the code ends the process: it is the state panicked.    *)
(***************************************************************************)
EXTENDS Integers, FiniteSets, FiniteSetsExt, Sequences

CONSTANTS
    Senders,   \* addresses that may vote; ordered, as bytes.Compare orders them
    Values,    \* proposal-values
    Weight,    \* Cred.Weight of each sender in this step
    Threshold  \* the step's committee threshold

ASSUME SendersAssumption == Senders \subseteq Nat
ASSUME WeightAssumption == Weight \in [Senders -> Nat \ {0}]
ASSUME ThresholdAssumption == Threshold \in Nat \ {0}

VARIABLES
    Voters,            \* sender -> the one value it voted for
    Counts,            \* value -> [Count, Votes]
    Equivocators,      \* sender -> the two values it voted for
    EquivocatorsCount, \* weight that counts for every value
    panicked,          \* the process died in a log.Panicf
    emitted            \* the threshold events returned so far

vars == <<Voters, Counts, Equivocators, EquivocatorsCount, panicked, emitted>>

Counter == [Count : Nat, Votes : SUBSET Senders]
Event == [Proposal : Values, Votes : SUBSET Senders,
          EquivocationVotes : SUBSET Senders]

-----------------------------------------------------------------------------
(* Maps: set one key, delete one key.                                      *)

With(f, k, x) == [j \in DOMAIN f \cup {k} |-> IF j = k THEN x ELSE f[j]]
Without(f, k) == [j \in DOMAIN f \ {k} |-> f[j]]

reachesQuorum(weight) == weight >= Threshold

\* Looking up a value that is not a key of the Go map gives the zero counter.
Lookup(counts, v) ==
    IF v \in DOMAIN counts THEN counts[v] ELSE [Count |-> 0, Votes |-> {}]

\* Weight that vouches for v: its own votes and every equivocator.
count(counts, eqCount, v) == Lookup(counts, v).Count + eqCount

\* The keys of Counts that are over the threshold.
overThreshold(counts, eqCount) ==
    {v \in DOMAIN counts : reachesQuorum(count(counts, eqCount, v))}

-----------------------------------------------------------------------------
(* genBundle packs the votes of the value from the heaviest sender down    *)
(* (ties: larger address first), stopping at the quorum, and then the      *)
(* equivocators in the same order while the quorum is still missing.       *)

TotalWeight(S) == MapThenSumSet(LAMBDA s : Weight[s], S)

Heavier(S, s) ==
    {t \in S : Weight[t] > Weight[s] \/ (Weight[t] = Weight[s] /\ t > s)}

\* Fault: packing stops one vote short of the quorum.
PackedShort(S, already) ==
    {s \in S : ~reachesQuorum(already + TotalWeight(Heavier(S, s)) + Weight[s])}

\* The senders of S packed on top of a weight already packed.
Packed(S, already) ==
    {s \in S : ~reachesQuorum(already + TotalWeight(Heavier(S, s)))}

genBundle(v, counts, equivocators) ==
    LET votes == Packed(counts[v].Votes, 0)
    IN  [Proposal |-> v, Votes |-> votes,
         EquivocationVotes |-> Packed(equivocators, TotalWeight(votes))]

-----------------------------------------------------------------------------
Init ==
    /\ Voters = << >>
    /\ Counts = << >>
    /\ Equivocators = << >>
    /\ EquivocatorsCount = 0
    /\ panicked = FALSE
    /\ emitted = << >>

Panic ==
    /\ panicked' = TRUE
    /\ UNCHANGED <<Voters, Counts, Equivocators, EquivocatorsCount, emitted>>

\* What follows every change of the counts: at most one value may be over the
\* threshold, and the change that takes one there returns its event.
Conclude(counts, equivocators, eqCount) ==
    LET before == overThreshold(Counts, EquivocatorsCount)
        after  == overThreshold(counts, eqCount)
    IN  IF Cardinality(after) > 1
        THEN panicked' = TRUE /\ UNCHANGED emitted
        ELSE /\ UNCHANGED panicked
             /\ emitted' = IF before # {} \/ after = {} THEN emitted
                           ELSE Append(emitted,
                                  genBundle(CHOOSE v \in after : TRUE, counts,
                                            DOMAIN equivocators))

\* voteAccepted from a sender with no earlier vote.
FirstVote(s, v) ==
    /\ ~panicked
    /\ s \notin DOMAIN Equivocators
    /\ s \notin DOMAIN Voters
    /\ LET old    == Lookup(Counts, v)
           counts == With(Counts, v, [Count |-> old.Count + Weight[s],
                                      Votes |-> old.Votes \cup {s}])
       IN  /\ Voters' = With(Voters, s, v)
           /\ Counts' = counts
           /\ Conclude(counts, Equivocators, EquivocatorsCount)
    /\ UNCHANGED <<Equivocators, EquivocatorsCount>>

\* Fault: the key of a value without votes stays in the map.
WithdrawKeepKey(s) ==
    LET old == Lookup(Counts, Voters[s])
    IN  With(Counts, Voters[s], [Count |-> old.Count - Weight[s],
                                 Votes |-> old.Votes \ {s}])

\* Fault: the operands of the subtraction are swapped.
WithdrawSwapped(s) ==
    LET old == Lookup(Counts, Voters[s])
    IN  IF old.Count <= Weight[s] THEN Without(Counts, Voters[s])
        ELSE With(Counts, Voters[s], [Count |-> Weight[s] - old.Count,
                                      Votes |-> old.Votes \ {s}])

\* The sender's vote leaves the value it was counted for.
Withdraw(s) ==
    LET old == Lookup(Counts, Voters[s])
    IN  IF old.Count <= Weight[s] THEN Without(Counts, Voters[s])
        ELSE With(Counts, Voters[s], [Count |-> old.Count - Weight[s],
                                      Votes |-> old.Votes \ {s}])

\* Fault: an equivocation never concludes a threshold.
EquivocationSilent(s, v) ==
    /\ ~panicked
    /\ s \notin DOMAIN Equivocators
    /\ s \in DOMAIN Voters
    /\ Voters[s] # v
    /\ IF reachesQuorum(EquivocatorsCount + Weight[s]) THEN Panic
       ELSE /\ EquivocatorsCount' = EquivocatorsCount + Weight[s]
            /\ Counts' = Withdraw(s)
            /\ Equivocators' = With(Equivocators, s, <<Voters[s], v>>)
            /\ Voters' = Without(Voters, s)
            /\ UNCHANGED <<panicked, emitted>>

\* Fault: the process survives a quorum of equivocators.
EquivocationUnbounded(s, v) ==
    /\ ~panicked
    /\ s \notin DOMAIN Equivocators
    /\ s \in DOMAIN Voters
    /\ Voters[s] # v
    /\ EquivocatorsCount' = EquivocatorsCount + Weight[s]
    /\ Counts' = Withdraw(s)
    /\ Equivocators' = With(Equivocators, s, <<Voters[s], v>>)
    /\ Voters' = Without(Voters, s)
    /\ IF DOMAIN Voters = {s} THEN UNCHANGED <<panicked, emitted>>
       ELSE Conclude(Counts', Equivocators', EquivocatorsCount')

\* voteAccepted from a sender that voted for another value: an equivocation.
\* With no regular voter left there is no bundle to make, and no event.
Equivocation(s, v) ==
    /\ ~panicked
    /\ s \notin DOMAIN Equivocators
    /\ s \in DOMAIN Voters
    /\ Voters[s] # v
    /\ LET eqCount == EquivocatorsCount + Weight[s]
           eqs     == With(Equivocators, s, <<Voters[s], v>>)
       IN  \/ /\ reachesQuorum(eqCount)
              /\ Panic
           \/ /\ ~reachesQuorum(eqCount)
              /\ EquivocatorsCount' = eqCount
              /\ Counts' = Withdraw(s)
              /\ Equivocators' = eqs
              /\ Voters' = Without(Voters, s)
              /\ IF DOMAIN Voters = {s} THEN UNCHANGED <<panicked, emitted>>
                 ELSE Conclude(Withdraw(s), eqs, eqCount)

\* voteAccepted that changes nothing: a known equivocator, or the same vote.
Dropped(s, v) ==
    \/ s \in DOMAIN Equivocators
    \/ s \in DOMAIN Voters /\ Voters[s] = v

DropVote(s, v) ==
    /\ ~panicked
    /\ Dropped(s, v)
    /\ UNCHANGED vars

VoteAccepted(s, v) == FirstVote(s, v) \/ Equivocation(s, v) \/ DropVote(s, v)

\* voteFilterRequest: would this vote be redundant?
voteFilteredStep(s, v) == Dropped(s, v)

\* dumpVotesRequest: every vote the tracker holds, both of an equivocator.
dumpVotes ==
    {<<s, Voters[s]>> : s \in DOMAIN Voters} \cup
    UNION {{<<s, Equivocators[s][1]>>, <<s, Equivocators[s][2]>>} :
              s \in DOMAIN Equivocators}

Next == \E s \in Senders, v \in Values : VoteAccepted(s, v)

Spec == Init /\ [][Next]_vars
-----------------------------------------------------------------------------
(* Type invariant: the maps of the tracker hold what the struct of         *)
(* voteTracker.go says they hold, and events carry sets of senders.        *)
TypeOK ==
    /\ DOMAIN Voters \subseteq Senders
    /\ Voters \in [DOMAIN Voters -> Values]
    /\ DOMAIN Counts \subseteq Values
    /\ Counts \in [DOMAIN Counts -> Counter]
    /\ DOMAIN Equivocators \subseteq Senders
    /\ Equivocators \in [DOMAIN Equivocators -> Values \X Values]
    /\ EquivocatorsCount \in Nat
    /\ panicked \in BOOLEAN
    /\ emitted \in Seq(Event)

(* voteTrackerContract.post: a tracker emits its threshold event at most   *)
(* once, whatever order votes and equivocations arrive in.                 *)
AtMostOneThreshold == Len(emitted) <= 1

(* The incremental counters never drift from the votes they summarise: a   *)
(* value is a key exactly while it has a regular vote ("Any proposalValue  *)
(* in Counts is guaranteed to contain at least one vote"), and each sender *)
(* is counted once, as a voter or as an equivocator.                       *)
CountsMatchVotes ==
    /\ DOMAIN Counts = {Voters[s] : s \in DOMAIN Voters}
    /\ \A v \in DOMAIN Counts :
          /\ Counts[v].Votes = {s \in DOMAIN Voters : Voters[s] = v}
          /\ Counts[v].Count = TotalWeight(Counts[v].Votes)
    /\ EquivocatorsCount = TotalWeight(DOMAIN Equivocators)
    /\ DOMAIN Voters \cap DOMAIN Equivocators = {}

(* No threshold is lost: while the process lives, a value with a regular   *)
(* vote and a quorum of weight (equivocators included) has been announced, *)
(* and what has been announced still has its quorum.                       *)
ThresholdIffQuorum ==
    ~panicked =>
      overThreshold(Counts, EquivocatorsCount)
        = {emitted[i].Proposal : i \in DOMAIN emitted}

(* Bundle.verifyAsync accepts every bundle the tracker emits: distinct     *)
(* senders, a regular vote to take the value from, a quorum of weight, and *)
(* no more votes than the threshold; makeBundle's own panics are unreached.*)
BundleVerifies ==
    \A i \in DOMAIN emitted :
       LET b == emitted[i] IN
       /\ b.Votes # {}
       /\ b.Votes \cap b.EquivocationVotes = {}
       /\ reachesQuorum(TotalWeight(b.Votes \cup b.EquivocationVotes))
       /\ Cardinality(b.Votes \cup b.EquivocationVotes) <= Threshold

(* A vote the filter once rejected as redundant stays rejected: a peer is  *)
(* never made to verify and relay the same vote twice.                     *)
FilteredForever ==
    [][\A s \in Senders, v \in Values :
          voteFilteredStep(s, v) => voteFilteredStep(s, v)']_vars

\* A step that leaves every value over the threshold there, or ends the process.
KeepsOver ==
    \A v \in overThreshold(Counts, EquivocatorsCount) :
        panicked' \/ v \in overThreshold(Counts, EquivocatorsCount)'

(* A value over the threshold stays over it while the process lives, even  *)
(* when its voters turn out to be equivocators and its key is deleted.     *)
OverThresholdStable == [][KeepsOver]_vars
=============================================================================
