-------------------------- MODULE VoteTrackerProofs --------------------------
(***************************************************************************)
(* Proofs about the vote tracker, for every committee, every assignment of *)
(* positive weights and every threshold.                                   *)
(*                                                                         *)
(* The argument for AtMostOneThreshold: an equivocation moves weight from  *)
(* one value to all of them, so count(v) never decreases.  A value over    *)
(* the threshold can only leave overThreshold by losing its key, which     *)
(* happens when its count is at most the withdrawn weight; that weight     *)
(* then takes EquivocatorsCount itself over the threshold, and the process *)
(* panics instead.  So after the first event some value is always over the *)
(* threshold, and overBefore suppresses every later event.                 *)
(*                                                                         *)
(* The counters are sums over sets of votes.  What a sum over a finite set *)
(* satisfies is proved first, by taking a smallest set that does not: then *)
(* adding and withdrawing a vote change the counters as they change the    *)
(* sums, and the heaviest votes first is a packing that makes the quorum.  *)
(***************************************************************************)
EXTENDS VoteTracker, FiniteSetTheorems, WellFoundedInduction, TLAPS

\* Time enough for every leaf on a loaded machine.
USE SMTT(30), ZenonT(30)

\* Some value is over the threshold once an event was emitted.
EmittedIsOver ==
    (emitted # << >> /\ ~panicked) =>
        overThreshold(Counts, EquivocatorsCount) # {}

IInv == TypeOK /\ AtMostOneThreshold /\ EmittedIsOver

-----------------------------------------------------------------------------
\* A counter that was never written reads as an empty one.
LEMMA LookupType ==
    ASSUME NEW counts, DOMAIN counts \subseteq Values,
           counts \in [DOMAIN counts -> Counter], NEW v \in Values
    PROVE  Lookup(counts, v) \in Counter
BY Zenon DEF Lookup, Counter

(* A bundle is made of senders whose votes were packed.                    *)
LEMMA BundleType ==
    ASSUME NEW counts, DOMAIN counts \subseteq Values,
           counts \in [DOMAIN counts -> Counter],
           NEW eqs, eqs \subseteq Senders, NEW v \in DOMAIN counts
    PROVE  genBundle(v, counts, eqs) \in Event
<1>1. counts[v].Votes \subseteq Senders
  BY Zenon DEF Counter
<1>2. \A S, w : Packed(S, w) \subseteq S
  BY Zenon DEF Packed
<1>3. QED
  BY <1>1, <1>2, Zenon DEF genBundle, Event

(* The conclusion of a vote keeps the types, appends at most one event and *)
(* appends none when a value was already over the threshold.               *)
LEMMA ConcludeFacts ==
    ASSUME TypeOK, ~panicked,
           NEW counts, DOMAIN counts \subseteq Values,
           counts \in [DOMAIN counts -> Counter],
           NEW eqs, DOMAIN eqs \subseteq Senders, NEW n \in Nat,
           Conclude(counts, eqs, n)
    PROVE  /\ panicked' \in BOOLEAN
           /\ emitted' \in Seq(Event)
           /\ overThreshold(Counts, EquivocatorsCount) # {} => emitted' = emitted
           /\ emitted' # emitted =>
                 /\ Len(emitted') = Len(emitted) + 1
                 /\ overThreshold(counts, n) # {}
<1> DEFINE after == overThreshold(counts, n)
           pick == CHOOSE v \in after : TRUE
<1>1. after # {} => pick \in DOMAIN counts
  BY Zenon DEF overThreshold
<1>2. after # {} => genBundle(pick, counts, DOMAIN eqs) \in Event
  BY <1>1, BundleType, Zenon
<1>3. CASE emitted' = emitted
  BY <1>3, Zenon DEF Conclude, TypeOK
<1>4. CASE emitted' # emitted
  <2>1. /\ emitted' = Append(emitted, genBundle(pick, counts, DOMAIN eqs))
        /\ after # {}
        /\ overThreshold(Counts, EquivocatorsCount) = {}
        /\ panicked' = panicked
    BY <1>4, Zenon DEF Conclude
  <2>2. QED
    BY <1>2, <2>1 DEF TypeOK
<1>5. QED
  BY <1>3, <1>4, Zenon

(* Withdrawing a counted vote: count(u) does not drop for any u, and a key *)
(* that is lost had at most the withdrawn weight.                          *)
LEMMA WithdrawFacts ==
    ASSUME TypeOK, NEW s \in DOMAIN Voters
    PROVE  /\ DOMAIN Withdraw(s) \subseteq Values
           /\ Withdraw(s) \in [DOMAIN Withdraw(s) -> Counter]
           /\ \A u \in DOMAIN Counts :
                 \/ /\ u \notin DOMAIN Withdraw(s)
                    /\ Counts[u].Count <= Weight[s]
                 \/ /\ u \in DOMAIN Withdraw(s)
                    /\ Withdraw(s)[u].Count + Weight[s] >= Counts[u].Count
<1> DEFINE v == Voters[s]
           old == Lookup(Counts, v)
<1>1. s \in Senders /\ v \in Values /\ Weight[s] \in Nat /\ Weight[s] > 0
  BY WeightAssumption DEF TypeOK
<1>2. old \in Counter /\ old.Count \in Nat /\ old.Votes \subseteq Senders
  BY <1>1, LookupType, Zenon DEF TypeOK, Counter
<1>3. \A u \in DOMAIN Counts : Counts[u].Count \in Nat
  BY Zenon DEF TypeOK, Counter
<1>4. CASE old.Count <= Weight[s]
  <2>1. Withdraw(s) = [j \in DOMAIN Counts \ {v} |-> Counts[j]]
    BY <1>4, Zenon DEF Withdraw, Without
  <2>2. QED
    BY <1>1, <1>3, <1>4, <2>1 DEF TypeOK, Lookup
<1>5. CASE ~(old.Count <= Weight[s])
  <2> DEFINE new == [Count |-> old.Count - Weight[s], Votes |-> old.Votes \ {s}]
  <2>1. Withdraw(s) = [j \in DOMAIN Counts \cup {v} |->
                          IF j = v THEN new ELSE Counts[j]]
    BY <1>5, Zenon DEF Withdraw, With
  <2>2. new \in Counter
    BY <1>1, <1>2, <1>5 DEF Counter
  <2>3. v \in DOMAIN Counts /\ DOMAIN Counts \cup {v} = DOMAIN Counts
    BY <1>1, <1>5 DEF Lookup
  <2>4. QED
    BY <1>1, <1>3, <2>1, <2>2, <2>3 DEF TypeOK, Lookup
<1>6. QED
  BY <1>4, <1>5, Zenon

-----------------------------------------------------------------------------
(* Every vote leaves each value that was over the threshold over it, or    *)
(* ends the process.                                                       *)
LEMMA OverPreserved ==
    ASSUME TypeOK, NEW s \in Senders, NEW v \in Values,
           FirstVote(s, v) \/ Equivocation(s, v), ~panicked',
           NEW u \in overThreshold(Counts, EquivocatorsCount)
    PROVE  u \in overThreshold(Counts', EquivocatorsCount')
<1>1. /\ u \in DOMAIN Counts
      /\ Counts[u].Count \in Nat
      /\ Counts[u].Count + EquivocatorsCount >= Threshold
      /\ EquivocatorsCount \in Nat /\ Threshold \in Nat
      /\ Weight[s] \in Nat
  BY ThresholdAssumption, WeightAssumption, Zenon
  DEF overThreshold, count, reachesQuorum, Lookup, TypeOK, Counter
<1>2. CASE FirstVote(s, v)
  <2>1. Lookup(Counts, v) \in Counter
    BY LookupType, Zenon DEF TypeOK
  <2>2. /\ EquivocatorsCount' = EquivocatorsCount
        /\ Counts' = [j \in DOMAIN Counts \cup {v} |->
                        IF j = v
                        THEN [Count |-> Lookup(Counts, v).Count + Weight[s],
                              Votes |-> Lookup(Counts, v).Votes \cup {s}]
                        ELSE Counts[j]]
    BY <1>2, Zenon DEF FirstVote, With
  <2>3. u \in DOMAIN Counts' /\ Counts'[u].Count >= Counts[u].Count
                             /\ Counts'[u].Count \in Nat
    BY <1>1, <2>1, <2>2 DEF Counter, Lookup
  <2>4. QED
    BY <1>1, <2>2, <2>3 DEF overThreshold, count, reachesQuorum, Lookup
<1>3. CASE Equivocation(s, v)
  <2>1. /\ s \in DOMAIN Voters
        /\ EquivocatorsCount' = EquivocatorsCount + Weight[s]
        /\ EquivocatorsCount' < Threshold
        /\ Counts' = Withdraw(s)
    BY <1>1, <1>3 DEF Equivocation, Panic, reachesQuorum
  <2>2. u \in DOMAIN Counts' /\ Counts'[u].Count + Weight[s] >= Counts[u].Count
                             /\ Counts'[u].Count \in Nat
    BY <1>1, <2>1, WithdrawFacts DEF Counter
  <2>3. QED
    BY <1>1, <2>1, <2>2 DEF overThreshold, count, reachesQuorum, Lookup
<1>4. QED
  BY <1>2, <1>3, Zenon

(* The tracker's maps keep their types and its invariant is inductive.     *)
LEMMA VoteKeepsInv ==
    ASSUME IInv, NEW s \in Senders, NEW v \in Values,
           FirstVote(s, v) \/ Equivocation(s, v)
    PROVE  IInv'
<1>1. CASE FirstVote(s, v)
  <2> DEFINE old == Lookup(Counts, v)
             new == [Count |-> old.Count + Weight[s], Votes |-> old.Votes \cup {s}]
  <2>1. old \in Counter
    BY LookupType, Zenon DEF IInv, TypeOK
  <2>2. new \in Counter
    BY <2>1, WeightAssumption DEF Counter
  <2>3. /\ ~panicked
        /\ Voters' = [j \in DOMAIN Voters \cup {s} |-> IF j = s THEN v ELSE Voters[j]]
        /\ Counts' = [j \in DOMAIN Counts \cup {v} |-> IF j = v THEN new ELSE Counts[j]]
        /\ Equivocators' = Equivocators /\ EquivocatorsCount' = EquivocatorsCount
        /\ Conclude(Counts', Equivocators, EquivocatorsCount)
    BY <1>1, Zenon DEF FirstVote, With
  <2>4. /\ DOMAIN Voters' \subseteq Senders /\ Voters' \in [DOMAIN Voters' -> Values]
        /\ DOMAIN Counts' \subseteq Values /\ Counts' \in [DOMAIN Counts' -> Counter]
    BY <2>2, <2>3, Zenon DEF IInv, TypeOK
  <2>5. /\ panicked' \in BOOLEAN
        /\ emitted' \in Seq(Event)
        /\ overThreshold(Counts, EquivocatorsCount) # {} => emitted' = emitted
        /\ emitted' # emitted =>
              /\ Len(emitted') = Len(emitted) + 1
              /\ overThreshold(Counts', EquivocatorsCount') # {}
    <3>1. DOMAIN Equivocators \subseteq Senders /\ EquivocatorsCount \in Nat /\ TypeOK
      BY Zenon DEF IInv, TypeOK
    <3>2. QED
      BY <2>3, <2>4, <3>1, ConcludeFacts, Zenon
  <2>6. TypeOK'
    BY <2>3, <2>4, <2>5, Zenon DEF IInv, TypeOK
  <2>7. AtMostOneThreshold'
    BY <2>3, <2>5 DEF IInv, TypeOK, AtMostOneThreshold, EmittedIsOver
  <2>8. EmittedIsOver'
    <3>1. ASSUME ~panicked', NEW u \in overThreshold(Counts, EquivocatorsCount)
          PROVE  u \in overThreshold(Counts', EquivocatorsCount')
      BY <1>1, <3>1, OverPreserved, Zenon DEF IInv
    <3>2. QED
      BY <2>3, <2>5, <3>1, Zenon DEF IInv, EmittedIsOver
  <2>9. QED
    BY <2>6, <2>7, <2>8, Zenon DEF IInv
<1>2. CASE Equivocation(s, v)
  <2>1. CASE Panic
    BY <2>1, Zenon DEF IInv, TypeOK, AtMostOneThreshold, EmittedIsOver, Panic
  <2>2. CASE ~Panic
    <3>1. /\ ~panicked
          /\ s \in DOMAIN Voters
          /\ EquivocatorsCount' = EquivocatorsCount + Weight[s]
          /\ Counts' = Withdraw(s)
          /\ Equivocators' = [j \in DOMAIN Equivocators \cup {s} |->
                                IF j = s THEN <<Voters[s], v>> ELSE Equivocators[j]]
          /\ Voters' = [j \in DOMAIN Voters \ {s} |-> Voters[j]]
          /\ \/ UNCHANGED <<panicked, emitted>>
             \/ Conclude(Counts', Equivocators', EquivocatorsCount')
      BY <1>2, <2>2, Zenon DEF Equivocation, With, Without
    <3>2. /\ DOMAIN Voters' \subseteq Senders /\ Voters' \in [DOMAIN Voters' -> Values]
          /\ DOMAIN Equivocators' \subseteq Senders
          /\ Equivocators' \in [DOMAIN Equivocators' -> Values \X Values]
      BY <3>1, Zenon DEF IInv, TypeOK
    <3>3. DOMAIN Counts' \subseteq Values /\ Counts' \in [DOMAIN Counts' -> Counter]
      BY <3>1, WithdrawFacts, Zenon DEF IInv
    <3>4. EquivocatorsCount' \in Nat
      BY <3>1, WeightAssumption DEF IInv, TypeOK
    <3>5. /\ panicked' \in BOOLEAN
          /\ emitted' \in Seq(Event)
          /\ overThreshold(Counts, EquivocatorsCount) # {} => emitted' = emitted
          /\ emitted' # emitted =>
                /\ Len(emitted') = Len(emitted) + 1
                /\ overThreshold(Counts', EquivocatorsCount') # {}
      <4>1. CASE UNCHANGED <<panicked, emitted>>
        BY <4>1, Zenon DEF IInv, TypeOK
      <4>2. CASE Conclude(Counts', Equivocators', EquivocatorsCount')
        <5>1. TypeOK
          BY Zenon DEF IInv
        <5>2. QED
          BY <3>1, <3>2, <3>3, <3>4, <4>2, <5>1, ConcludeFacts, Zenon
      <4>3. QED
        BY <3>1, <4>1, <4>2, Zenon
    <3>6. TypeOK'
      BY <3>2, <3>3, <3>4, <3>5, Zenon DEF TypeOK
    <3>7. AtMostOneThreshold'
      BY <3>1, <3>5 DEF IInv, TypeOK, AtMostOneThreshold, EmittedIsOver
    <3>8. EmittedIsOver'
      <4>1. ASSUME ~panicked', NEW u \in overThreshold(Counts, EquivocatorsCount)
            PROVE  u \in overThreshold(Counts', EquivocatorsCount')
        BY <1>2, <4>1, OverPreserved, Zenon DEF IInv
      <4>2. QED
        BY <3>1, <3>5, <4>1, Zenon DEF IInv, EmittedIsOver
    <3>9. QED
      BY <3>6, <3>7, <3>8 DEF IInv
  <2>3. QED
    BY <2>1, <2>2, Zenon
<1>3. QED
  BY <1>1, <1>2, Zenon

\* Every vote the tracker handles preserves its invariant.
LEMMA InvInductive == IInv /\ [Next]_vars => IInv'
<1> SUFFICES ASSUME IInv, [Next]_vars PROVE IInv'
  BY Zenon
<1>1. CASE UNCHANGED vars
  BY <1>1, Zenon DEF IInv, TypeOK, AtMostOneThreshold, EmittedIsOver, vars
<1>2. ASSUME NEW s \in Senders, NEW v \in Values, VoteAccepted(s, v)
      PROVE  IInv'
  <2>1. CASE FirstVote(s, v) \/ Equivocation(s, v)
    BY <2>1, VoteKeepsInv, Zenon
  <2>2. CASE DropVote(s, v)
    BY <1>1, <2>2, Zenon DEF DropVote
  <2>3. QED
    BY <1>2, <2>1, <2>2, Zenon DEF VoteAccepted
<1>3. QED
  BY <1>1, <1>2, Zenon DEF Next

\* The empty tracker satisfies the invariant.
LEMMA InitInv == Init => IInv
<1>1. << >> \in Seq(Event) /\ Len(<< >>) = 0
  OBVIOUS
<1>2. DOMAIN << >> = {} /\ \A S : << >> \in [{} -> S]
  OBVIOUS
<1>3. Init => TypeOK
  <2> SUFFICES ASSUME Init PROVE TypeOK
    BY Zenon
  <2>1. DOMAIN Voters \subseteq Senders /\ Voters \in [DOMAIN Voters -> Values]
    BY <1>2, Zenon DEF Init
  <2>2. DOMAIN Counts \subseteq Values /\ Counts \in [DOMAIN Counts -> Counter]
    BY <1>2, Zenon DEF Init
  <2>3. /\ DOMAIN Equivocators \subseteq Senders
        /\ Equivocators \in [DOMAIN Equivocators -> Values \X Values]
    BY <1>2, Zenon DEF Init
  <2>4. QED
    BY <1>1, <2>1, <2>2, <2>3, Zenon DEF Init, TypeOK
<1>4. QED
  BY <1>1, <1>3 DEF Init, IInv, AtMostOneThreshold, EmittedIsOver

(* The state of the tracker stays well typed through any sequence of votes *)
(* and equivocations that voteTracker.handle accepts.                      *)
THEOREM TrackerTypeOK == Spec => []TypeOK
BY InitInv, InvInductive, PTL DEF Spec, IInv

(* voteTrackerContract.post, for every committee, weights and threshold:   *)
(* voteTracker.handle returns at most one threshold event in its life.     *)
THEOREM TrackerEmitsOnce == Spec => []AtMostOneThreshold
BY InitInv, InvInductive, PTL DEF Spec, IInv

(* A value over the threshold stays over it until the process dies: an     *)
(* equivocation discovered later in voteTracker.handle never retracts it.  *)
THEOREM TrackerThresholdStable == Spec => OverThresholdStable
<1>1. IInv /\ [Next]_vars => [KeepsOver]_vars
  <2> SUFFICES ASSUME IInv, NEW s \in Senders, NEW v \in Values, VoteAccepted(s, v),
                      vars' # vars, ~panicked',
                      NEW u \in overThreshold(Counts, EquivocatorsCount)
               PROVE  u \in overThreshold(Counts', EquivocatorsCount')
    BY Zenon DEF Next, KeepsOver
  <2>1. FirstVote(s, v) \/ Equivocation(s, v)
    BY Zenon DEF VoteAccepted, DropVote
  <2>2. QED
    BY <2>1, OverPreserved, Zenon DEF IInv
<1>2. QED
  BY <1>1, InitInv, InvInductive, PTL DEF Spec, OverThresholdStable

(* A vote that voteFilterRequest rejects once is rejected ever after: the  *)
(* tracker forgets a voter only by recording it as an equivocator.         *)
THEOREM TrackerFilterStable == Spec => FilteredForever
<1>1. [Next]_vars =>
        [\A s \in Senders, v \in Values :
            voteFilteredStep(s, v) => voteFilteredStep(s, v)']_vars
  <2> SUFFICES ASSUME NEW t \in Senders, NEW w \in Values, VoteAccepted(t, w),
                      vars' # vars, NEW s \in Senders, NEW v \in Values,
                      Dropped(s, v)
               PROVE  Dropped(s, v)'
    BY Zenon DEF Next, voteFilteredStep
  <2>1. CASE FirstVote(t, w)
    BY <2>1, Zenon DEF FirstVote, Dropped, With
  <2>2. CASE Equivocation(t, w)
    BY <2>2, Zenon DEF Equivocation, Panic, Dropped, With, Without
  <2>3. QED
    BY <2>1, <2>2, Zenon DEF VoteAccepted, DropVote
<1>2. QED
  BY <1>1, PTL DEF Spec, FilteredForever

-----------------------------------------------------------------------------
(* Sums of weights.                                                        *)

\* A set of naturals has a least element.
LEMMA Least ==
    ASSUME NEW T, T \subseteq Nat, T # {}
    PROVE  \E n \in T : \A m \in T : n <= m
<1> DEFINE less == {p \in Nat \X Nat : p[1] < p[2]}
<1>1. IsWellFoundedOn(less, Nat)
  BY NatLessThanWellFounded, Zenon DEF OpToRel
<1>2. PICK n \in T : \A m \in T : ~(<<m, n>> \in less)
  BY <1>1, WFMin, Zenon
<1>3. ASSUME NEW m \in T PROVE n <= m
  <2>1. m \in Nat /\ n \in Nat /\ (m < n => <<m, n>> \in less)
    BY Zenon
  <2>2. ~(m < n)
    BY <1>2, <2>1, Zenon
  <2>3. QED
    BY <2>1, <2>2
<1>4. QED
  BY <1>3, Zenon

\* What holds of a set whenever it holds of its proper subsets holds of every
\* finite set.
LEMMA SmallerFirst ==
    ASSUME NEW U, NEW F,
           \A s \in SUBSET U :
              IsFiniteSet(s) /\ (\A t \in SUBSET s : t # s => t \in F) => s \in F
    PROVE  \A s \in SUBSET U : IsFiniteSet(s) => s \in F
<1> DEFINE Bad == {s \in SUBSET U : IsFiniteSet(s) /\ s \notin F}
           Sizes == {Cardinality(s) : s \in Bad}
<1>1. SUFFICES ASSUME Bad # {} PROVE FALSE
  BY Zenon
<1>2. Sizes \subseteq Nat /\ Sizes # {}
  BY <1>1, FS_CardinalityType, Zenon
<1>3. PICK n \in Sizes : \A m \in Sizes : n <= m
  BY <1>2, Least, Zenon
<1>4. PICK s \in Bad : n = Cardinality(s)
  BY Zenon
<1>5. ASSUME NEW t \in SUBSET s, t # s PROVE t \in F
  <2>1. /\ IsFiniteSet(t)
        /\ Cardinality(t) <= Cardinality(s) /\ Cardinality(t) # Cardinality(s)
    BY <1>5, FS_Subset, Zenon
  <2>2. Cardinality(t) \in Nat /\ Cardinality(s) \in Nat
    BY <2>1, FS_CardinalityType, Zenon
  <2>3. SUFFICES ASSUME t \notin F PROVE FALSE
    BY Zenon
  <2>4. Cardinality(t) \in Sizes
    BY <2>1, <2>3, Zenon
  <2>5. QED
    BY <1>3, <1>4, <2>1, <2>2, <2>4
<1>6. QED
  BY <1>4, <1>5, Zenon

\* How MapThenSumSet adds up: element by element, First(s) first.
First(s) == CHOOSE x \in s : TRUE
SumStep(g, s) == IF s = {} THEN 0 ELSE Weight[First(s)] + g[s \ {First(s)}]
Sums(g, S) == g = [s \in SUBSET S |-> SumStep(g, s)]

\* The weight of a set is what such a function gives for it.
LEMMA SumDef == \A S : TotalWeight(S) = (CHOOSE g : Sums(g, S))[S]
BY Zenon DEF TotalWeight, MapThenSumSet, MapThenFoldSet, Sums, SumStep, First

\* The element added first is one of the set.
LEMMA FirstIn == \A s : s # {} => First(s) \in s
BY Zenon DEF First

\* For a finite set there is one: it is built up by the size of the subsets.
LEMMA SumsExist ==
    ASSUME NEW S, IsFiniteSet(S)
    PROVE  \E g : Sums(g, S)
<1> DEFINE Upto(n) == {s \in SUBSET S : Cardinality(s) <= n}
           Good == {n \in Nat : \E g : g = [s \in Upto(n) |-> SumStep(g, s)]}
           Bad == Nat \ Good
<1>0. \A s \in SUBSET S : IsFiniteSet(s) /\ Cardinality(s) \in Nat
  BY FS_Subset, FS_CardinalityType, Zenon
<1>1. 0 \in Good
  <2> DEFINE g == [s \in Upto(0) |-> 0]
  <2>1. \A s \in Upto(0) : s = {}
    BY <1>0, FS_EmptySet
  <2>2. \A s \in Upto(0) : SumStep(g, s) = 0
    BY <2>1, Zenon DEF SumStep
  <2>3. g = [s \in Upto(0) |-> SumStep(g, s)]
    BY <2>2, Zenon
  <2>4. QED
    BY <2>3, Zenon
<1>2. ASSUME NEW n \in Nat, n \in Good PROVE n + 1 \in Good
  <2>1. PICK g : g = [s \in Upto(n) |-> SumStep(g, s)]
    BY <1>2, Zenon
  <2> DEFINE h == [s \in Upto(n + 1) |-> SumStep(g, s)]
  <2>2. ASSUME NEW s \in Upto(n + 1) PROVE SumStep(g, s) = SumStep(h, s)
    <3>1. CASE s = {}
      BY <3>1, Zenon DEF SumStep
    <3>2. CASE s # {}
      <4> DEFINE t == s \ {First(s)}
      <4>1. t \in Upto(n)
        <5>1. t \in SUBSET S /\ IsFiniteSet(s) /\ First(s) \in s
          BY <1>0, <3>2, FirstIn, Zenon
        <5>2. Cardinality(t) = Cardinality(s) - 1
          BY <5>1, FS_RemoveElement, Zenon
        <5>3. QED
          BY <1>0, <5>1, <5>2
      <4>2. t \in Upto(n + 1)
        BY <1>0, <4>1
      <4>3. h[t] = SumStep(g, t)
        BY <4>2, Zenon
      <4>4. g[t] = SumStep(g, t)
        BY <2>1, <4>1, Zenon
      <4>5. QED
        BY <4>3, <4>4, Zenon DEF SumStep
    <3>3. QED
      BY <3>1, <3>2, Zenon
  <2>3. h = [s \in Upto(n + 1) |-> SumStep(h, s)]
    BY <2>2, Zenon
  <2>4. n + 1 \in Nat
    OBVIOUS
  <2> HIDE DEF h
  <2>5. \E f : f = [s \in Upto(n + 1) |-> SumStep(f, s)]
    BY <2>3, Zenon
  <2>6. QED
    BY <2>4, <2>5, Zenon
<1>3. Cardinality(S) \in Good
  <2>1. SUFFICES ASSUME Bad # {} PROVE FALSE
    BY FS_CardinalityType, Zenon
  <2>2. PICK n \in Bad : \A m \in Bad : n <= m
    BY <2>1, Least, Zenon
  <2> HIDE DEF Good
  <2>3. n \in Nat /\ n \notin Good /\ n # 0
    BY <1>1, Zenon
  <2>4. n - 1 \in Nat /\ n - 1 \in Good
    BY <2>2, <2>3
  <2>5. n - 1 + 1 \in Good
    BY <1>2, <2>4, Zenon
  <2>6. QED
    BY <2>3, <2>5
<1>4. Upto(Cardinality(S)) = SUBSET S
  BY <1>0, FS_Subset, Zenon
<1>5. QED
  BY <1>3, <1>4, Zenon DEF Sums

\* The functions of a set and of a larger one agree on it.
LEMMA SumsAgree ==
    ASSUME NEW S, IsFiniteSet(S), NEW T \in SUBSET S,
           NEW g, Sums(g, S), NEW h, Sums(h, T)
    PROVE  g[T] = h[T]
<1> DEFINE F == {s \in SUBSET T : g[s] = h[s]}
<1>1. ASSUME NEW s \in SUBSET T, \A t \in SUBSET s : t # s => t \in F
      PROVE  s \in F
  <2>1. g[s] = SumStep(g, s) /\ h[s] = SumStep(h, s)
    BY Zenon DEF Sums
  <2>2. CASE s = {}
    BY <2>1, <2>2, Zenon DEF SumStep
  <2>3. CASE s # {}
    <3>1. s \ {First(s)} \in F
      BY <1>1, <2>3, FirstIn, Zenon
    <3>2. QED
      BY <2>1, <3>1, Zenon DEF SumStep
  <2>4. QED
    BY <2>2, <2>3, Zenon
<1>2. \A s \in SUBSET T : IsFiniteSet(s) => s \in F
  <2> HIDE DEF F
  <2>1. QED
    BY <1>1, SmallerFirst, Zenon
<1>3. IsFiniteSet(T)
  BY FS_Subset, Zenon
<1>4. QED
  BY <1>2, <1>3, Zenon

\* The sum over a set, a first element taken out.
LEMMA SumFirst ==
    ASSUME NEW S, IsFiniteSet(S), S # {}
    PROVE  TotalWeight(S) = Weight[First(S)] + TotalWeight(S \ {First(S)})
<1> DEFINE T == S \ {First(S)}
           g == CHOOSE f : Sums(f, S)
           h == CHOOSE f : Sums(f, T)
<1>1. IsFiniteSet(T) /\ T \in SUBSET S
  BY FS_RemoveElement, Zenon
<1>2. Sums(g, S) /\ Sums(h, T)
  BY <1>1, SumsExist, Zenon
<1>3. TotalWeight(S) = g[S] /\ TotalWeight(T) = h[T]
  BY SumDef, Zenon
<1> HIDE DEF T, g, h
<1>4. g[T] = h[T]
  BY <1>1, <1>2, SumsAgree, Zenon
<1>5. g[S] = Weight[First(S)] + g[T]
  BY <1>2, Zenon DEF Sums, SumStep, T
<1>6. QED
  BY <1>3, <1>4, <1>5, Zenon DEF T

\* No votes weigh nothing.
LEMMA SumEmpty == TotalWeight({}) = 0
<1> DEFINE g == CHOOSE f : Sums(f, {})
<1>1. Sums(g, {})
  BY SumsExist, FS_EmptySet, Zenon
<1>2. TotalWeight({}) = g[{}]
  BY SumDef, Zenon
<1> HIDE DEF g
<1>3. g[{}] = 0
  BY <1>1, Zenon DEF Sums, SumStep
<1>4. QED
  BY <1>2, <1>3, Zenon

\* The sets of senders a sum is defined for.
Finite == {S \in SUBSET Senders : IsFiniteSet(S)}

\* The weight of finitely many votes is a natural number.
LEMMA SumNat == \A S \in Finite : TotalWeight(S) \in Nat
<1> DEFINE F == {S \in SUBSET Senders : TotalWeight(S) \in Nat}
<1>1. ASSUME NEW S \in SUBSET Senders, IsFiniteSet(S),
             \A T \in SUBSET S : T # S => T \in F
      PROVE  S \in F
  <2>1. CASE S = {}
    BY <2>1, SumEmpty
  <2>2. CASE S # {}
    <3>1. First(S) \in S /\ S \ {First(S)} \in F
      BY <1>1, <2>2, FirstIn, Zenon
    <3>2. Weight[First(S)] \in Nat /\ TotalWeight(S \ {First(S)}) \in Nat
      BY <3>1, WeightAssumption, Zenon
    <3>3. QED
      BY <1>1, <2>2, <3>2, SumFirst
  <2>3. QED
    BY <2>1, <2>2, Zenon
<1>2. \A S \in SUBSET Senders : IsFiniteSet(S) => S \in F
  <2> HIDE DEF F
  <2>1. QED
    BY <1>1, SmallerFirst, Zenon
<1>3. QED
  BY <1>2, Zenon DEF Finite

\* Any element may be the first one.
LEMMA SumRemove ==
    \A S \in Finite : \A x \in S : TotalWeight(S) = Weight[x] + TotalWeight(S \ {x})
<1> DEFINE F == {S \in SUBSET Senders :
                   \A x \in S : TotalWeight(S) = Weight[x] + TotalWeight(S \ {x})}
<1>1. ASSUME NEW S \in SUBSET Senders, IsFiniteSet(S),
             \A T \in SUBSET S : T # S => T \in F
      PROVE  S \in F
  <2>1. SUFFICES ASSUME NEW x \in S, x # First(S)
                 PROVE  TotalWeight(S) = Weight[x] + TotalWeight(S \ {x})
    BY <1>1, SumFirst, Zenon
  <2> DEFINE p == First(S)
             T == (S \ {p}) \ {x}
  <2>2. p \in S
    BY <2>1, FirstIn, Zenon
  <2> HIDE DEF p
  <2>3. TotalWeight(S \ {p}) = Weight[x] + TotalWeight(T)
    BY <1>1, <2>1, <2>2, Zenon DEF p
  <2>4. TotalWeight(S \ {x}) = Weight[p] + TotalWeight(T)
    <3>1. (S \ {x}) \ {p} = T /\ p \in S \ {x} /\ S \ {x} \in F
      BY <1>1, <2>1, <2>2, Zenon DEF p
    <3>2. QED
      BY <3>1, Zenon
  <2>5. TotalWeight(S) = Weight[p] + TotalWeight(S \ {p})
    BY <1>1, <2>1, SumFirst, Zenon DEF p
  <2>6. Weight[p] \in Nat /\ Weight[x] \in Nat /\ TotalWeight(T) \in Nat
    <3>1. T \in Finite
      BY <1>1, FS_RemoveElement, Zenon DEF Finite
    <3>2. QED
      BY <2>2, <3>1, WeightAssumption, SumNat, Zenon
  <2>7. QED
    BY <2>3, <2>4, <2>5, <2>6
<1>2. \A S \in SUBSET Senders : IsFiniteSet(S) => S \in F
  <2> HIDE DEF F
  <2>1. QED
    BY <1>1, SmallerFirst, Zenon
<1>3. QED
  BY <1>2, Zenon DEF Finite

\* The weight of a set with one more vote.
LEMMA SumAdd ==
    ASSUME NEW S \in Finite, NEW x \in Senders, x \notin S
    PROVE  S \cup {x} \in Finite /\ TotalWeight(S \cup {x}) = TotalWeight(S) + Weight[x]
<1>1. S \cup {x} \in Finite /\ (S \cup {x}) \ {x} = S /\ x \in S \cup {x}
  BY FS_AddElement DEF Finite
<1>2. TotalWeight(S \cup {x}) = Weight[x] + TotalWeight(S)
  BY <1>1, SumRemove, Zenon
<1>3. Weight[x] \in Nat /\ TotalWeight(S) \in Nat
  BY WeightAssumption, SumNat, Zenon
<1>4. QED
  BY <1>1, <1>2, <1>3

\* The weight of two sets of senders that share none.
LEMMA SumUnion ==
    ASSUME NEW A \in Finite
    PROVE  \A B \in Finite : A \cap B = {} =>
              TotalWeight(A \cup B) = TotalWeight(A) + TotalWeight(B)
<1> DEFINE F == {B \in SUBSET Senders : A \cap B = {} =>
                   TotalWeight(A \cup B) = TotalWeight(A) + TotalWeight(B)}
<1>1. ASSUME NEW B \in SUBSET Senders, IsFiniteSet(B),
             \A T \in SUBSET B : T # B => T \in F
      PROVE  B \in F
  <2>1. SUFFICES ASSUME A \cap B = {}
                 PROVE  TotalWeight(A \cup B) = TotalWeight(A) + TotalWeight(B)
    BY Zenon
  <2>2. CASE B = {}
    <3>1. A \cup B = A /\ TotalWeight(A) \in Nat /\ TotalWeight(B) = 0
      BY <2>2, SumEmpty, SumNat, Zenon
    <3>2. QED
      BY <3>1
  <2>3. CASE B # {}
    <3>1. PICK x : x \in B
      BY <2>3, Zenon
    <3> DEFINE T == B \ {x}
    <3>2. T \in Finite /\ B \in Finite /\ A \cup T \in Finite /\ IsFiniteSet(A)
      BY <1>1, FS_RemoveElement, FS_Union, Zenon DEF Finite
    <3>3. A \cap T = {} /\ T \in F
      BY <1>1, <2>1, <3>1, Zenon
    <3>4. TotalWeight(A \cup T) = TotalWeight(A) + TotalWeight(T)
      BY <3>3, Zenon
    <3>5. TotalWeight(B) = Weight[x] + TotalWeight(T)
      BY <3>1, <3>2, SumRemove, Zenon
    <3>6. TotalWeight(A \cup B) = TotalWeight(A \cup T) + Weight[x]
      <4>1. (A \cup T) \cup {x} = A \cup B /\ x \in Senders /\ x \notin A \cup T
        BY <2>1, <3>1, Zenon
      <4>2. QED
        BY <3>2, <4>1, SumAdd, Zenon
    <3>7. Weight[x] \in Nat /\ TotalWeight(A) \in Nat /\ TotalWeight(T) \in Nat
      BY <3>1, <3>2, SumNat, WeightAssumption, Zenon
    <3>8. QED
      BY <3>4, <3>5, <3>6, <3>7
  <2>4. QED
    BY <2>2, <2>3, Zenon
<1>2. \A S \in SUBSET Senders : IsFiniteSet(S) => S \in F
  <2> HIDE DEF F
  <2>1. QED
    BY <1>1, SmallerFirst, Zenon
<1>3. QED
  BY <1>2, Zenon DEF Finite

\* Some of the votes weigh no more than all of them.
LEMMA SumMonotone ==
    ASSUME NEW S \in Finite, NEW T \in SUBSET S
    PROVE  T \in Finite /\ TotalWeight(T) <= TotalWeight(S)
<1>1. T \in Finite /\ S \ T \in Finite
  BY FS_Subset, FS_Difference, Zenon DEF Finite
<1>2. T \cup (S \ T) = S /\ T \cap (S \ T) = {}
  BY Zenon
<1>3. TotalWeight(S) = TotalWeight(T) + TotalWeight(S \ T)
  BY <1>1, <1>2, SumUnion, Zenon
<1>4. QED
  BY <1>1, <1>3, SumNat

\* Every vote weighs at least one.
LEMMA SumCounts == \A S \in Finite : Cardinality(S) <= TotalWeight(S)
<1> DEFINE F == {S \in SUBSET Senders : Cardinality(S) <= TotalWeight(S)}
<1>1. ASSUME NEW S \in SUBSET Senders, IsFiniteSet(S),
             \A T \in SUBSET S : T # S => T \in F
      PROVE  S \in F
  <2>1. CASE S = {}
    BY <2>1, SumEmpty, FS_EmptySet
  <2>2. CASE S # {}
    <3>1. PICK x : x \in S
      BY <2>2, Zenon
    <3>2. S \in Finite /\ S \ {x} \in Finite
      BY <1>1, FS_RemoveElement, Zenon DEF Finite
    <3>3. Cardinality(S \ {x}) <= TotalWeight(S \ {x})
      BY <1>1, <3>1, Zenon
    <3>4. Cardinality(S \ {x}) = Cardinality(S) - 1 /\ Cardinality(S) \in Nat
      BY <1>1, <3>1, FS_RemoveElement, FS_CardinalityType, Zenon
    <3>5. TotalWeight(S) = Weight[x] + TotalWeight(S \ {x})
      BY <3>1, <3>2, SumRemove, Zenon
    <3>6. Weight[x] \in Nat /\ Weight[x] > 0 /\ TotalWeight(S \ {x}) \in Nat
      BY <3>1, <3>2, WeightAssumption, SumNat
    <3>7. QED
      BY <3>3, <3>4, <3>5, <3>6
  <2>3. QED
    BY <2>1, <2>2, Zenon
<1>2. \A S \in SUBSET Senders : IsFiniteSet(S) => S \in F
  <2> HIDE DEF F
  <2>1. QED
    BY <1>1, SmallerFirst, Zenon
<1>3. QED
  BY <1>2, Zenon DEF Finite

-----------------------------------------------------------------------------
(* Counters.                                                               *)

\* The senders whose one vote is for v.
VotesFor(voters, v) == {s \in DOMAIN voters : voters[s] = v}

\* The counters and the weight of the equivocators, as they should be.
Matches(voters, counts, eqs, n) ==
    /\ DOMAIN voters \in Finite /\ DOMAIN eqs \in Finite
    /\ DOMAIN voters \cap DOMAIN eqs = {}
    /\ DOMAIN counts = {voters[s] : s \in DOMAIN voters}
    /\ \A v \in DOMAIN counts : /\ counts[v].Votes = VotesFor(voters, v)
                                /\ counts[v].Count = TotalWeight(VotesFor(voters, v))
    /\ n = TotalWeight(DOMAIN eqs)

\* This is what CountsMatchVotes says.
LEMMA MatchesIsExact ==
    ASSUME Matches(Voters, Counts, Equivocators, EquivocatorsCount)
    PROVE  CountsMatchVotes
BY Zenon DEF Matches, CountsMatchVotes, VotesFor

\* Finitely many voters cast finitely many votes for a value.
LEMMA VotesForFinite ==
    ASSUME NEW voters, DOMAIN voters \in Finite, NEW v
    PROVE  VotesFor(voters, v) \in Finite
<1>1. VotesFor(voters, v) \in SUBSET DOMAIN voters
  BY Zenon DEF VotesFor
<1>2. QED
  BY <1>1, SumMonotone, Zenon

\* A first vote is counted for its value.
LEMMA FirstVoteMatches ==
    ASSUME TypeOK, Matches(Voters, Counts, Equivocators, EquivocatorsCount),
           NEW s \in Senders, NEW v \in Values, FirstVote(s, v)
    PROVE  Matches(Voters', Counts', Equivocators', EquivocatorsCount')
<1> DEFINE old == Lookup(Counts, v)
           new == [Count |-> old.Count + Weight[s], Votes |-> old.Votes \cup {s}]
<1>1. /\ s \notin DOMAIN Voters /\ s \notin DOMAIN Equivocators
      /\ Voters' = [j \in DOMAIN Voters \cup {s} |-> IF j = s THEN v ELSE Voters[j]]
      /\ Counts' = [j \in DOMAIN Counts \cup {v} |-> IF j = v THEN new ELSE Counts[j]]
      /\ Equivocators' = Equivocators /\ EquivocatorsCount' = EquivocatorsCount
  BY Zenon DEF FirstVote, With
<1>2. old.Votes = VotesFor(Voters, v) /\ old.Count = TotalWeight(VotesFor(Voters, v))
  <2>1. CASE v \in DOMAIN Counts
    BY <2>1, Zenon DEF Matches, Lookup
  <2>2. CASE v \notin DOMAIN Counts
    <3>1. VotesFor(Voters, v) = {}
      BY <2>2, Zenon DEF Matches, VotesFor
    <3>2. QED
      BY <2>2, <3>1, SumEmpty, Zenon DEF Lookup
  <2>3. QED
    BY <2>1, <2>2, Zenon
<1>3. VotesFor(Voters, v) \in Finite /\ s \notin VotesFor(Voters, v)
  <2>1. VotesFor(Voters, v) \in Finite
    BY VotesForFinite, Zenon DEF Matches
  <2>2. s \notin VotesFor(Voters, v)
    BY <1>1, Zenon DEF VotesFor
  <2>3. QED
    BY <2>1, <2>2, Zenon
<1>4. /\ VotesFor(Voters', v) = VotesFor(Voters, v) \cup {s}
      /\ \A u : u # v => VotesFor(Voters', u) = VotesFor(Voters, u)
  BY <1>1, Zenon DEF VotesFor
<1>5. TotalWeight(VotesFor(Voters', v)) = old.Count + Weight[s]
  BY <1>2, <1>3, <1>4, SumAdd, Zenon
<1> HIDE DEF old
<1>6. DOMAIN Voters' \in Finite /\ DOMAIN Voters' = DOMAIN Voters \cup {s}
  BY <1>1, FS_AddElement, Zenon DEF Matches, Finite
<1>7. DOMAIN Counts' = {Voters'[t] : t \in DOMAIN Voters'}
  <2>1. DOMAIN Counts' = DOMAIN Counts \cup {v}
    BY <1>1, Zenon
  <2>2. Voters'[s] = v /\ \A t \in DOMAIN Voters : Voters'[t] = Voters[t]
    BY <1>1, Zenon
  <2>3. DOMAIN Counts = {Voters[t] : t \in DOMAIN Voters}
    BY Zenon DEF Matches
  <2>4. ASSUME NEW u \in DOMAIN Counts' PROVE \E t \in DOMAIN Voters' : u = Voters'[t]
    <3>1. CASE u = v
      BY <1>6, <2>2, <3>1, Zenon
    <3>2. CASE u \in DOMAIN Counts
      <4>1. PICK t \in DOMAIN Voters : u = Voters[t]
        BY <2>3, <3>2, Zenon
      <4>2. QED
        BY <1>6, <2>2, <4>1, Zenon
    <3>3. QED
      BY <2>1, <3>1, <3>2, Zenon
  <2>5. ASSUME NEW t \in DOMAIN Voters' PROVE Voters'[t] \in DOMAIN Counts'
    <3>1. CASE t = s
      BY <2>1, <2>2, <3>1, Zenon
    <3>2. CASE t \in DOMAIN Voters
      BY <2>1, <2>2, <2>3, <3>2, Zenon
    <3>3. QED
      BY <1>6, <3>1, <3>2, Zenon
  <2>6. QED
    BY <2>4, <2>5, Zenon
<1>8. ASSUME NEW u \in DOMAIN Counts'
      PROVE  /\ Counts'[u].Votes = VotesFor(Voters', u)
             /\ Counts'[u].Count = TotalWeight(VotesFor(Voters', u))
  <2>1. CASE u = v
    BY <1>1, <1>2, <1>4, <1>5, <2>1, Zenon
  <2>2. CASE u # v
    <3>1. u \in DOMAIN Counts /\ Counts'[u] = Counts[u]
      BY <1>1, <2>2, Zenon
    <3>2. QED
      BY <1>4, <2>2, <3>1, Zenon DEF Matches
  <2>3. QED
    BY <2>1, <2>2, Zenon
<1>9. QED
  BY <1>1, <1>6, <1>7, <1>8, Zenon DEF Matches

\* An equivocator's vote leaves its value, and the key of the value goes with
\* its last vote.
LEMMA EquivocationMatches ==
    ASSUME TypeOK, Matches(Voters, Counts, Equivocators, EquivocatorsCount),
           NEW s \in Senders, NEW v \in Values, Equivocation(s, v), ~Panic
    PROVE  Matches(Voters', Counts', Equivocators', EquivocatorsCount')
<1> DEFINE own == Voters[s]
           rest == VotesFor(Voters, own) \ {s}
<1>1. /\ s \in DOMAIN Voters /\ s \notin DOMAIN Equivocators
      /\ Voters' = [j \in DOMAIN Voters \ {s} |-> Voters[j]]
      /\ DOMAIN Equivocators' = DOMAIN Equivocators \cup {s}
      /\ EquivocatorsCount' = EquivocatorsCount + Weight[s]
      /\ Counts' = Withdraw(s)
  BY Zenon DEF Equivocation, With, Without
<1>2. /\ own \in DOMAIN Counts
      /\ Counts[own].Votes = VotesFor(Voters, own)
      /\ Counts[own].Count = TotalWeight(VotesFor(Voters, own))
  BY <1>1, Zenon DEF Matches
<1>3. /\ VotesFor(Voters, own) \in Finite /\ s \in VotesFor(Voters, own)
      /\ rest \in Finite
  <2>1. VotesFor(Voters, own) \in Finite
    BY VotesForFinite, Zenon DEF Matches
  <2>2. s \in VotesFor(Voters, own)
    BY <1>1, Zenon DEF VotesFor
  <2>3. QED
    BY <2>1, <2>2, SumMonotone, Zenon
<1>4. TotalWeight(VotesFor(Voters, own)) = Weight[s] + TotalWeight(rest)
  BY <1>3, SumRemove, Zenon
<1>5. Weight[s] \in Nat /\ TotalWeight(rest) \in Nat
  BY <1>3, SumNat, WeightAssumption, Zenon
<1>6. Counts[own].Count <= Weight[s] <=> rest = {}
  <2>1. Counts[own].Count <= Weight[s] <=> TotalWeight(rest) = 0
    BY <1>2, <1>4, <1>5
  <2>2. TotalWeight(rest) = 0 => Cardinality(rest) = 0
    BY <1>3, SumCounts, FS_CardinalityType DEF Finite
  <2>3. TotalWeight(rest) = 0 => rest = {}
    BY <1>3, <2>2, FS_EmptySet, Zenon DEF Finite
  <2>4. rest = {} => TotalWeight(rest) = 0
    BY SumEmpty, Zenon
  <2>5. QED
    BY <2>1, <2>3, <2>4, Zenon
<1>7. /\ VotesFor(Voters', own) = rest
      /\ \A u : u # own => VotesFor(Voters', u) = VotesFor(Voters, u)
      /\ DOMAIN Voters' = DOMAIN Voters \ {s}
      /\ \A t \in DOMAIN Voters' : Voters'[t] = Voters[t]
  BY <1>1, Zenon DEF VotesFor
<1>8. DOMAIN Voters' \in Finite /\ DOMAIN Equivocators' \in Finite
      /\ DOMAIN Voters' \cap DOMAIN Equivocators' = {}
      /\ EquivocatorsCount' = TotalWeight(DOMAIN Equivocators')
  <2>1. DOMAIN Voters' \in Finite
    BY <1>7, SumMonotone, Zenon DEF Matches
  <2>2. /\ DOMAIN Equivocators' \in Finite
        /\ TotalWeight(DOMAIN Equivocators') = TotalWeight(DOMAIN Equivocators) + Weight[s]
    BY <1>1, SumAdd DEF Matches
  <2>3. DOMAIN Voters' \cap DOMAIN Equivocators' = {}
    BY <1>1, <1>7, Zenon DEF Matches
  <2>4. QED
    BY <1>1, <2>1, <2>2, <2>3, Zenon DEF Matches
<1>9. \A u \in DOMAIN Counts : u # own => \E t \in DOMAIN Voters' : Voters'[t] = u
  BY <1>7, Zenon DEF Matches
<1>10. Lookup(Counts, own) = Counts[own]
  BY <1>2, Zenon DEF Lookup
<1>11. CASE rest = {}
  <2>1. Counts' = [j \in DOMAIN Counts \ {own} |-> Counts[j]]
    BY <1>1, <1>6, <1>10, <1>11, Zenon DEF Withdraw, Without
  <2>2. \A t \in DOMAIN Voters' : Voters'[t] # own /\ Voters'[t] \in DOMAIN Counts
    BY <1>7, <1>11, Zenon DEF VotesFor, Matches
  <2>3. DOMAIN Counts' = {Voters'[t] : t \in DOMAIN Voters'}
    BY <1>9, <2>1, <2>2, Zenon
  <2>4. \A u \in DOMAIN Counts' : u # own /\ Counts'[u] = Counts[u] /\ u \in DOMAIN Counts
    BY <2>1, Zenon
  <2>5. \A u \in DOMAIN Counts' : /\ Counts'[u].Votes = VotesFor(Voters', u)
                                  /\ Counts'[u].Count = TotalWeight(VotesFor(Voters', u))
    BY <1>7, <2>4, Zenon DEF Matches
  <2>6. QED
    BY <1>8, <2>3, <2>5, Zenon DEF Matches
<1>12. CASE rest # {}
  <2> DEFINE new == [Count |-> Counts[own].Count - Weight[s],
                     Votes |-> Counts[own].Votes \ {s}]
  <2>1. Counts' = [j \in DOMAIN Counts \cup {own} |-> IF j = own THEN new ELSE Counts[j]]
    BY <1>1, <1>6, <1>10, <1>12, Zenon DEF Withdraw, With
  <2>2. new.Count = TotalWeight(rest) /\ new.Votes = rest
    BY <1>2, <1>4, <1>5
  <2> HIDE DEF new
  <2>3. \E t \in DOMAIN Voters' : Voters'[t] = own
    BY <1>7, <1>12, Zenon DEF VotesFor
  <2>4. DOMAIN Counts' = DOMAIN Counts
    BY <1>2, <2>1, Zenon
  <2>5. DOMAIN Counts' = {Voters'[t] : t \in DOMAIN Voters'}
    BY <1>7, <1>9, <2>3, <2>4 DEF Matches
  <2>6. ASSUME NEW u \in DOMAIN Counts'
        PROVE  /\ Counts'[u].Votes = VotesFor(Voters', u)
               /\ Counts'[u].Count = TotalWeight(VotesFor(Voters', u))
    <3>1. CASE u = own
      BY <1>7, <2>1, <2>2, <2>4, <3>1, Zenon
    <3>2. CASE u # own
      BY <1>7, <2>1, <2>4, <3>2, Zenon DEF Matches
    <3>3. QED
      BY <3>1, <3>2, Zenon
  <2>7. QED
    BY <1>8, <2>5, <2>6, Zenon DEF Matches
<1>13. QED
  BY <1>11, <1>12, Zenon

-----------------------------------------------------------------------------
(* Bundles.                                                                *)

\* The order in which genBundle packs votes.
Above(t, s) == Weight[t] > Weight[s] \/ (Weight[t] = Weight[s] /\ t > s)

\* It is a strict linear order of the senders.
LEMMA AboveOrder ==
    ASSUME NEW r \in Senders, NEW s \in Senders, NEW t \in Senders
    PROVE  /\ ~Above(s, s)
           /\ r # s => Above(r, s) \/ Above(s, r)
           /\ Above(r, s) /\ Above(s, t) => Above(r, t)
<1>1. /\ r \in Nat /\ s \in Nat /\ t \in Nat
      /\ Weight[r] \in Nat /\ Weight[s] \in Nat /\ Weight[t] \in Nat
  BY SendersAssumption, WeightAssumption, Zenon
<1>2. QED
  BY <1>1 DEF Above

\* Of some votes, one is the heaviest and one the lightest.
LEMMA Extremes ==
    \A S \in Finite : S # {} =>
       /\ \E m \in S : \A t \in S : ~Above(t, m)
       /\ \E m \in S : \A t \in S : t # m => Above(t, m)
<1> DEFINE Top(S) == \E m \in S : \A t \in S : ~Above(t, m)
           Low(S) == \E m \in S : \A t \in S : t # m => Above(t, m)
           F == {S \in SUBSET Senders : S # {} => Top(S) /\ Low(S)}
<1>1. ASSUME NEW S \in SUBSET Senders, IsFiniteSet(S),
             \A T \in SUBSET S : T # S => T \in F
      PROVE  S \in F
  <2>1. SUFFICES ASSUME S # {} PROVE Top(S) /\ Low(S)
    BY Zenon
  <2>2. PICK x : x \in S
    BY <2>1
  <2> DEFINE T == S \ {x}
  <2>3. CASE T = {}
    <3>1. S = {x} /\ ~Above(x, x)
      BY <2>2, <2>3, AboveOrder, Zenon
    <3>2. QED
      BY <3>1, Zenon
  <2>4. CASE T # {}
    <3>1. Top(T) /\ Low(T)
      <4>1. T \in SUBSET S /\ T # S
        BY <2>2, Zenon
      <4>2. T \in F
        <5> HIDE DEF F, T
        <5>1. QED
          BY <1>1, <4>1, Zenon
      <4>3. QED
        BY <2>4, <4>2, Zenon
    <3>2. PICK hi \in T : \A t \in T : ~Above(t, hi)
      BY <3>1, Zenon
    <3>3. PICK lo \in T : \A t \in T : t # lo => Above(t, lo)
      BY <3>1, Zenon
    <3>4. S = T \cup {x} /\ x \notin T /\ \A t \in S : t \in Senders
      BY <2>2, Zenon
    <3> HIDE DEF T
    <3>5. Top(S)
      <4>1. CASE Above(x, hi)
        <5>1. \A t \in S : ~Above(t, x)
          BY <3>2, <3>4, <4>1, AboveOrder, Zenon
        <5>2. QED
          BY <2>2, <5>1, Zenon
      <4>2. CASE ~Above(x, hi)
        BY <3>2, <3>4, <4>2, Zenon
      <4>3. QED
        BY <4>1, <4>2, Zenon
    <3>6. Low(S)
      <4>1. CASE Above(x, lo)
        BY <3>3, <3>4, <4>1, Zenon
      <4>2. CASE ~Above(x, lo)
        <5>1. \A t \in T : Above(t, x)
          BY <3>3, <3>4, <4>2, AboveOrder, Zenon
        <5>2. QED
          BY <2>2, <3>4, <5>1, Zenon
      <4>3. QED
        BY <4>1, <4>2, Zenon
    <3>7. QED
      BY <3>5, <3>6, Zenon
  <2>5. QED
    BY <2>3, <2>4, Zenon
<1>2. \A S \in SUBSET Senders : IsFiniteSet(S) => S \in F
  <2> HIDE DEF F
  <2>1. QED
    BY <1>1, SmallerFirst, Zenon
<1>3. QED
  BY <1>2, Zenon DEF Finite

\* A vote is packed while those that are heavier do not make the quorum: so the
\* packed ones make it if all do, and none is packed in vain.
LEMMA PackedFacts ==
    ASSUME NEW S \in Finite, NEW w \in Nat
    PROVE  /\ Packed(S, w) \in Finite /\ Packed(S, w) \subseteq S
           /\ S # {} /\ w < Threshold => Packed(S, w) # {}
           /\ w + TotalWeight(S) >= Threshold =>
                 w + TotalWeight(Packed(S, w)) >= Threshold
           /\ w + TotalWeight(S) < Threshold => Packed(S, w) = S
           /\ Packed(S, w) # {} =>
                 w + Cardinality(Packed(S, w)) <= Threshold
<1> DEFINE P == Packed(S, w)
<1>1. \A s \in S : /\ Heavier(S, s) = {t \in S : Above(t, s)}
                   /\ Heavier(S, s) \subseteq S
                   /\ s \in P <=> w + TotalWeight(Heavier(S, s)) < Threshold
  <2>1. ASSUME NEW s \in S
        PROVE  /\ Heavier(S, s) = {t \in S : Above(t, s)}
               /\ Heavier(S, s) \subseteq S
    BY Zenon DEF Heavier, Above
  <2>2. ASSUME NEW s \in S
        PROVE  s \in P <=> w + TotalWeight(Heavier(S, s)) < Threshold
    <3>1. TotalWeight(Heavier(S, s)) \in Nat
      BY <2>1, SumMonotone, SumNat, Zenon
    <3>2. QED
      BY <3>1, ThresholdAssumption DEF Packed, reachesQuorum
  <2>3. QED
    BY <2>1, <2>2, Zenon
<1>2. P \subseteq S
  BY Zenon DEF Packed
<1>3. P \in Finite /\ S \ P \in Finite
  BY <1>2, FS_Subset, FS_Difference, Zenon DEF Finite
<1>4. Threshold \in Nat /\ TotalWeight(S) \in Nat /\ TotalWeight(P) \in Nat
  BY <1>3, ThresholdAssumption, SumNat, Zenon
<1>5. \A s \in S : Heavier(S, s) \in Finite /\ TotalWeight(Heavier(S, s)) \in Nat
  BY <1>1, SumMonotone, SumNat, Zenon
<1> HIDE DEF P
<1>6. ASSUME S # {}, w < Threshold PROVE P # {}
  <2>1. PICK m \in S : \A t \in S : ~Above(t, m)
    BY <1>6, Extremes, Zenon
  <2>2. Heavier(S, m) = {}
    BY <1>1, <2>1, Zenon
  <2>3. w + TotalWeight(Heavier(S, m)) < Threshold
    BY <1>6, <2>2, SumEmpty
  <2>4. QED
    BY <1>1, <2>3, Zenon
<1>7. ASSUME w + TotalWeight(S) >= Threshold
      PROVE  w + TotalWeight(P) >= Threshold
  <2>1. CASE S \ P = {}
    <3>1. S = P
      BY <1>2, <2>1, Zenon
    <3>2. QED
      BY <1>7, <3>1, Zenon
  <2>2. CASE S \ P # {}
    <3>1. PICK m \in S \ P : \A t \in S \ P : ~Above(t, m)
      BY <1>3, <2>2, Extremes, Zenon
    <3>2. Heavier(S, m) \subseteq P
      BY <1>1, <3>1, Zenon
    <3>3. TotalWeight(Heavier(S, m)) <= TotalWeight(P)
      BY <1>3, <3>2, SumMonotone, Zenon
    <3>4. ~(w + TotalWeight(Heavier(S, m)) < Threshold)
      BY <1>1, <3>1, Zenon
    <3>5. TotalWeight(Heavier(S, m)) \in Nat
      BY <1>5, <3>1, Zenon
    <3>6. QED
      BY <1>4, <3>3, <3>4, <3>5
  <2>3. QED
    BY <2>1, <2>2, Zenon
<1>8. ASSUME w + TotalWeight(S) < Threshold PROVE P = S
  <2>1. ASSUME NEW s \in S PROVE s \in P
    <3>1. TotalWeight(Heavier(S, s)) <= TotalWeight(S)
      BY <1>1, SumMonotone, Zenon
    <3>2. w + TotalWeight(Heavier(S, s)) < Threshold
      BY <1>4, <1>5, <1>8, <3>1
    <3>3. QED
      BY <1>1, <3>2, Zenon
  <2>2. QED
    BY <1>2, <2>1, Zenon
<1>9. ASSUME P # {} PROVE w + Cardinality(P) <= Threshold
  <2>1. PICK m \in P : \A t \in P : t # m => Above(t, m)
    BY <1>3, <1>9, Extremes, Zenon
  <2> DEFINE H == Heavier(S, m)
  <2>2. P \ {m} \subseteq H /\ m \in S
    BY <1>1, <1>2, <2>1, Zenon
  <2>3. w + TotalWeight(H) < Threshold
    BY <1>1, <2>2, Zenon
  <2>4. H \in Finite /\ TotalWeight(H) \in Nat
    BY <1>5, <2>2, Zenon
  <2> HIDE DEF H
  <2>5. Cardinality(P \ {m}) <= Cardinality(H) /\ Cardinality(H) <= TotalWeight(H)
    BY <2>2, <2>4, FS_Subset, SumCounts, Zenon DEF Finite
  <2>6. Cardinality(P \ {m}) = Cardinality(P) - 1 /\ Cardinality(P) \in Nat
        /\ Cardinality(H) \in Nat
    BY <1>3, <2>4, FS_RemoveElement, FS_CardinalityType, Zenon DEF Finite
  <2>7. QED
    BY <1>4, <2>3, <2>4, <2>5, <2>6
<1>10. QED
  BY <1>2, <1>3, <1>6, <1>7, <1>8, <1>9, Zenon DEF P

\* What Bundle.verifyAsync asks of a bundle.
Verifies(b) ==
    /\ b.Votes # {}
    /\ b.Votes \cap b.EquivocationVotes = {}
    /\ reachesQuorum(TotalWeight(b.Votes \cup b.EquivocationVotes))
    /\ Cardinality(b.Votes \cup b.EquivocationVotes) <= Threshold

\* The bundle of a value that is over the threshold verifies.
LEMMA GenBundleVerifies ==
    ASSUME NEW voters, NEW counts, NEW eqs, NEW n,
           Matches(voters, counts, eqs, n), NEW v \in overThreshold(counts, n)
    PROVE  /\ genBundle(v, counts, DOMAIN eqs).Proposal = v
           /\ Verifies(genBundle(v, counts, DOMAIN eqs))
<1> DEFINE V == VotesFor(voters, v)
           E == DOMAIN eqs
           votes == Packed(V, 0)
           more == Packed(E, TotalWeight(votes))
           b == genBundle(v, counts, DOMAIN eqs)
<1>1. /\ v \in DOMAIN counts /\ counts[v].Votes = V /\ counts[v].Count = TotalWeight(V)
      /\ n = TotalWeight(E) /\ E \in Finite /\ DOMAIN voters \in Finite
      /\ DOMAIN voters \cap E = {}
  BY Zenon DEF overThreshold, Matches
<1>2. V \in Finite
  BY <1>1, VotesForFinite, Zenon
<1>3. V # {} /\ V \cap E = {}
  BY <1>1, Zenon DEF Matches, VotesFor
<1>4. TotalWeight(V) + TotalWeight(E) >= Threshold
  BY <1>1, Zenon DEF overThreshold, count, Lookup, reachesQuorum
<1>5. b = [Proposal |-> v, Votes |-> votes, EquivocationVotes |-> more]
  BY <1>1, Zenon DEF genBundle
<1>6. /\ Threshold \in Nat /\ Threshold > 0
      /\ TotalWeight(V) \in Nat /\ TotalWeight(E) \in Nat
  BY <1>1, <1>2, ThresholdAssumption, SumNat
<1> HIDE DEF V, E
<1>7. /\ votes \in Finite /\ votes \subseteq V /\ votes # {}
      /\ TotalWeight(V) >= Threshold => TotalWeight(votes) >= Threshold
      /\ TotalWeight(V) < Threshold => votes = V
      /\ Cardinality(votes) <= Threshold
      /\ TotalWeight(votes) \in Nat
  <2>1. /\ votes \in Finite /\ votes \subseteq V
        /\ V # {} /\ 0 < Threshold => votes # {}
        /\ 0 + TotalWeight(V) >= Threshold => 0 + TotalWeight(votes) >= Threshold
        /\ 0 + TotalWeight(V) < Threshold => votes = V
        /\ votes # {} => 0 + Cardinality(votes) <= Threshold
    BY <1>2, PackedFacts, Zenon
  <2>2. TotalWeight(votes) \in Nat /\ Cardinality(votes) \in Nat
    BY <2>1, SumNat, FS_CardinalityType, Zenon DEF Finite
  <2> HIDE DEF votes
  <2>3. QED
    BY <1>3, <1>6, <2>1, <2>2
<1> HIDE DEF votes
<1>8. /\ more \in Finite /\ more \subseteq E
      /\ TotalWeight(votes) + TotalWeight(E) >= Threshold =>
            TotalWeight(votes) + TotalWeight(more) >= Threshold
      /\ more # {} => TotalWeight(votes) + Cardinality(more) <= Threshold
  BY <1>1, <1>7, PackedFacts, Zenon DEF E
<1> HIDE DEF more
<1>9. TotalWeight(more) \in Nat
  BY <1>8, SumNat, Zenon
<1>10. votes \cap more = {}
  BY <1>3, <1>7, <1>8, Zenon
<1>11. TotalWeight(votes \cup more) = TotalWeight(votes) + TotalWeight(more)
  BY <1>7, <1>8, <1>10, SumUnion, Zenon
<1>12. TotalWeight(votes \cup more) >= Threshold
  BY <1>4, <1>6, <1>7, <1>8, <1>9, <1>11
<1>13. Cardinality(votes \cup more) <= Threshold
  <2>1. CASE more = {}
    BY <1>7, <2>1, Zenon
  <2>2. CASE more # {}
    <3>1. Cardinality(votes) <= TotalWeight(votes)
      BY <1>7, SumCounts, Zenon
    <3>2. /\ Cardinality(votes) \in Nat /\ Cardinality(more) \in Nat
          /\ Cardinality(votes \cap more) = 0
          /\ Cardinality(votes \cup more)
                = Cardinality(votes) + Cardinality(more) - Cardinality(votes \cap more)
      BY <1>7, <1>8, <1>10, FS_CardinalityType, FS_EmptySet, FS_Union, Zenon DEF Finite
    <3>3. QED
      BY <1>6, <1>7, <1>8, <2>2, <3>1, <3>2
  <2>3. QED
    BY <2>1, <2>2, Zenon
<1>14. QED
  BY <1>5, <1>7, <1>10, <1>12, <1>13 DEF Verifies, reachesQuorum

\* The values that have been announced.
Announced(events) == {events[i].Proposal : i \in DOMAIN events}

\* The inductive invariant of a tracker that counts exactly.
Exact ==
    /\ IInv
    /\ Matches(Voters, Counts, Equivocators, EquivocatorsCount)
    /\ ThresholdIffQuorum
    /\ BundleVerifies

\* The keys of the counters are finitely many.
LEMMA OverFinite ==
    ASSUME NEW voters, NEW counts, NEW eqs, NEW n, Matches(voters, counts, eqs, n)
    PROVE  /\ IsFiniteSet(overThreshold(counts, n))
           /\ overThreshold(counts, n) \subseteq DOMAIN counts
<1> DEFINE f == [s \in DOMAIN voters |-> voters[s]]
<1>1. f \in Surjection(DOMAIN voters, DOMAIN counts)
  BY Zenon DEF Matches, Surjection
<1>2. IsFiniteSet(DOMAIN voters)
  BY Zenon DEF Matches, Finite
<1>3. IsFiniteSet(DOMAIN counts)
  BY <1>1, <1>2, FS_Surjection, Zenon
<1>4. overThreshold(counts, n) \subseteq DOMAIN counts
  BY Zenon DEF overThreshold
<1>5. QED
  BY <1>3, <1>4, FS_Subset, Zenon

\* A vote that leaves the process alive concludes at most one value, and
\* announces it when it is the first.
LEMMA ConcludeExact ==
    ASSUME Exact, ~panicked, ~panicked',
           NEW counts, NEW eqs, NEW n, NEW voters, Matches(voters, counts, eqs, n),
           overThreshold(Counts, EquivocatorsCount) \subseteq overThreshold(counts, n),
           Conclude(counts, eqs, n)
    PROVE  /\ overThreshold(counts, n) = Announced(emitted')
           /\ \A i \in DOMAIN emitted' : Verifies(emitted'[i])
<1> DEFINE before == overThreshold(Counts, EquivocatorsCount)
           after == overThreshold(counts, n)
<1>1. before = Announced(emitted) /\ emitted \in Seq(Event)
  BY Zenon DEF Exact, IInv, TypeOK, ThresholdIffQuorum, Announced
<1>2. \A i \in DOMAIN emitted : Verifies(emitted[i])
  BY Zenon DEF Exact, BundleVerifies, Verifies
<1>3. IsFiniteSet(after) /\ Cardinality(after) \in Nat
  BY OverFinite, FS_CardinalityType, Zenon
<1>4. ~(Cardinality(after) > 1)
  BY Zenon DEF Conclude
<1>5. Cardinality(after) = 0 \/ Cardinality(after) = 1
  BY <1>3, <1>4
<1>6. after = {} \/ \E v : after = {v}
  BY <1>3, <1>5, FS_EmptySet, FS_Singleton, Zenon
<1>7. emitted' = IF before # {} \/ after = {} THEN emitted
                 ELSE Append(emitted, genBundle(CHOOSE v \in after : TRUE, counts, DOMAIN eqs))
  BY <1>4, Zenon DEF Conclude
<1> HIDE DEF before, after
<1>8. before \subseteq after
  BY Zenon DEF before, after
<1>9. CASE before # {} \/ after = {}
  <2>1. emitted' = emitted /\ after = before
    BY <1>6, <1>7, <1>8, <1>9, Zenon
  <2>2. QED
    BY <1>1, <1>2, <2>1, Zenon DEF after
<1>10. CASE before = {} /\ after # {}
  <2>1. PICK v : after = {v}
    BY <1>6, <1>10, Zenon
  <2>2. (CHOOSE u \in after : TRUE) = v
    BY <2>1, Zenon
  <2> DEFINE b == genBundle(v, counts, DOMAIN eqs)
  <2>3. b.Proposal = v /\ Verifies(b)
    BY <2>1, GenBundleVerifies, Zenon DEF after
  <2>4. emitted' = Append(emitted, b)
    BY <1>7, <1>10, <2>2, Zenon
  <2>5. Len(emitted) = 0
    <3>1. DOMAIN emitted = {}
      BY <1>1, <1>10, Zenon DEF Announced
    <3>2. QED
      BY <1>1, <3>1
  <2> HIDE DEF b
  <2>6. DOMAIN emitted' = {1} /\ emitted'[1] = b
    BY <1>1, <2>4, <2>5
  <2>7. Announced(emitted') = {v}
    BY <2>3, <2>6, Zenon DEF Announced
  <2>8. QED
    BY <2>1, <2>3, <2>6, <2>7, Zenon DEF after
<1>11. QED
  BY <1>9, <1>10, Zenon

\* The counters stay exact and so do the announcements.
LEMMA VoteKeepsExact ==
    ASSUME Exact, NEW s \in Senders, NEW v \in Values,
           FirstVote(s, v) \/ Equivocation(s, v)
    PROVE  Exact'
<1>0. IInv /\ TypeOK /\ IInv'
  BY VoteKeepsInv, Zenon DEF Exact, IInv
<1>1. Matches(Voters, Counts, Equivocators, EquivocatorsCount)
  BY Zenon DEF Exact
<1>2. ASSUME NEW u \in overThreshold(Counts, EquivocatorsCount), ~panicked'
      PROVE  u \in overThreshold(Counts', EquivocatorsCount')
  BY <1>0, <1>2, OverPreserved, Zenon
<1>3. CASE Panic
  <2>1. /\ UNCHANGED <<Voters, Counts, Equivocators, EquivocatorsCount, emitted>>
        /\ panicked'
    BY <1>3, Zenon DEF Panic
  <2>2. QED
    BY <1>0, <1>1, <2>1, Zenon DEF Exact, ThresholdIffQuorum, BundleVerifies
<1>4. CASE ~Panic
  <2>1. Matches(Voters', Counts', Equivocators', EquivocatorsCount')
    BY <1>0, <1>1, <1>4, FirstVoteMatches, EquivocationMatches, Zenon
  <2>2. ~panicked
    BY Zenon DEF FirstVote, Equivocation
  <2>3. \/ Conclude(Counts', Equivocators', EquivocatorsCount')
        \/ /\ UNCHANGED <<panicked, emitted>>
           /\ DOMAIN Voters' = {}
    BY <1>4, Zenon DEF FirstVote, Equivocation, Without
  <2>4. CASE Conclude(Counts', Equivocators', EquivocatorsCount')
    <3>1. CASE panicked'
      <4>1. emitted' = emitted \/ ~panicked'
        BY <2>2, <2>4, Zenon DEF Conclude
      <4>2. QED
        BY <1>0, <2>1, <3>1, <4>1, Zenon DEF Exact, ThresholdIffQuorum, BundleVerifies
    <3>2. CASE ~panicked'
      <4>1. overThreshold(Counts, EquivocatorsCount)
               \subseteq overThreshold(Counts', EquivocatorsCount')
        BY <1>2, <3>2, Zenon
      <4>2. /\ overThreshold(Counts', EquivocatorsCount') = Announced(emitted')
            /\ \A i \in DOMAIN emitted' : Verifies(emitted'[i])
        BY <2>1, <2>2, <2>4, <3>2, <4>1, ConcludeExact, Zenon
      <4>3. ThresholdIffQuorum' /\ BundleVerifies'
        BY <4>2, Zenon
        DEF ThresholdIffQuorum, BundleVerifies, Announced, Verifies, overThreshold
      <4>4. QED
        BY <1>0, <2>1, <4>3, Zenon DEF Exact
    <3>3. QED
      BY <3>1, <3>2, Zenon
  <2>5. CASE UNCHANGED <<panicked, emitted>> /\ DOMAIN Voters' = {}
    <3>1. overThreshold(Counts', EquivocatorsCount') = {}
      BY <2>1, <2>5, Zenon DEF Matches, overThreshold
    <3>2. overThreshold(Counts, EquivocatorsCount) = {}
      BY <1>2, <2>2, <2>5, <3>1, Zenon
    <3>3. ThresholdIffQuorum'
      BY <2>2, <2>5, <3>1, <3>2, Zenon DEF Exact, ThresholdIffQuorum
    <3>4. BundleVerifies'
      BY <2>5, Zenon DEF Exact, BundleVerifies
    <3>5. QED
      BY <1>0, <2>1, <3>3, <3>4, Zenon DEF Exact
  <2>6. QED
    BY <2>3, <2>4, <2>5, Zenon
<1>5. QED
  BY <1>3, <1>4

\* The empty tracker counts exactly.
LEMMA InitExact == Init => Exact
<1> SUFFICES ASSUME Init PROVE Exact
  OBVIOUS
<1>1. DOMAIN << >> = {} /\ {} \in Finite
  BY FS_EmptySet DEF Finite
<1>2. Matches(Voters, Counts, Equivocators, EquivocatorsCount)
  BY <1>1, SumEmpty, Zenon DEF Init, Matches
<1>3. ThresholdIffQuorum /\ BundleVerifies
  BY <1>1, Zenon DEF Init, ThresholdIffQuorum, BundleVerifies, overThreshold
<1>4. QED
  BY <1>2, <1>3, InitInv, Zenon DEF Exact

\* Every vote the tracker handles leaves it exact.
LEMMA ExactInductive == Exact /\ [Next]_vars => Exact'
<1> SUFFICES ASSUME Exact, [Next]_vars PROVE Exact'
  OBVIOUS
<1>1. CASE UNCHANGED vars
  <2>1. IInv'
    BY InvInductive, Zenon DEF Exact
  <2>2. QED
    BY <1>1, <2>1, Zenon DEF Exact, ThresholdIffQuorum, BundleVerifies, vars
<1>2. ASSUME NEW s \in Senders, NEW v \in Values, VoteAccepted(s, v)
      PROVE  Exact'
  <2>1. CASE FirstVote(s, v) \/ Equivocation(s, v)
    BY <2>1, VoteKeepsExact
  <2>2. CASE DropVote(s, v)
    BY <1>1, <2>2 DEF DropVote
  <2>3. QED
    BY <1>2, <2>1, <2>2 DEF VoteAccepted
<1>3. QED
  BY <1>1, <1>2 DEF Next

(* The counters of voteTracker.handle, kept up incrementally and with keys *)
(* deleted when a weight runs out, are always the sums over the votes they *)
(* summarise, for every committee and every assignment of weights.         *)
THEOREM TrackerCountsExact == Spec => []CountsMatchVotes
<1>1. Exact => CountsMatchVotes
  BY MatchesIsExact, Zenon DEF Exact
<1>2. QED
  BY <1>1, InitExact, ExactInductive, PTL DEF Spec

(* voteTracker.handle announces every value that reaches the quorum, and   *)
(* only those, in whatever order votes and equivocations arrive.           *)
THEOREM TrackerThresholdExact == Spec => []ThresholdIffQuorum
BY InitExact, ExactInductive, PTL DEF Spec, Exact

(* genBundle packs a quorum of distinct votes and no more of them than the *)
(* threshold: every bundle of the tracker passes unauthenticatedBundle's   *)
(* verification.                                                           *)
THEOREM TrackerBundlesVerify == Spec => []BundleVerifies
BY InitExact, ExactInductive, PTL DEF Spec, Exact
=============================================================================
