------------------------- MODULE ProposalStoreProofs -------------------------
(***************************************************************************)
(* For every set of values, proposers and periods, and every choice of     *)
(* thresholds: the store pipelines at most one block, what is relevant in  *)
(* a period is what its tracker reported, and the blocks that matter are   *)
(* kept.                                                                   *)
(*                                                                         *)
(* All of it rests on what a threshold may do to the store: it stages      *)
(* nothing but the value of its period, so that two thresholds of one      *)
(* period agree, and whatever it drops, the pinned block stays.            *)
(***************************************************************************)
EXTENDS ProposalStore, FiniteSetTheorems, WellFoundedInduction, TLAPS

\* Time enough for every leaf on a loaded machine.
USE SMTT(30), ZenonT(30)

Stages == {"empty", "filled", "assembled"}

\* Some values, each with what is there of its block.
AssemblerMaps == UNION {[D -> Stages] : D \in SUBSET Values}

Store ==
    [Phase : {"before", "in", "after"}, Period : Periods, Step : {soft, cert, next},
     Duplicate : [Periods -> SUBSET Senders],
     Lowest : [Periods -> (Senders \X Values) \cup {noVote}],
     Frozen : [Periods -> BOOLEAN],
     Staging : [Periods -> ValuesOrBottom], Relevant : [Periods -> ValuesOrBottom],
     Pinned : ValuesOrBottom, Assemblers : AssemblerMaps,
     verifying : SUBSET (Values \X (Periods \cup {pinned})), Freshest : thresholdEvent]

\* A value is staged in a period only by a threshold of that period, and it is
\* relevant there because it is staged or the lowest proposal.
Sound(s, Q) ==
    /\ s \in Store
    /\ \A p \in Periods : s.Staging[p] \in {bottom, Q.soft[p]}
    /\ \A p \in Periods : s.Relevant[p] # bottom =>
         \/ s.Relevant[p] = s.Staging[p]
         \/ s.Lowest[p] # noVote /\ s.Relevant[p] = s.Lowest[p][2]

\* A threshold the player can be told of.
EventOK(e, Q) ==
    /\ e \in thresholdEvent
    /\ e.T \in {"soft", "cert"} => e.Proposal = Q.soft[e.Period] /\ e.Proposal # bottom
    /\ e.T = "next" => e.Period < MaxPeriod

\* Before its round, the store has nothing but the proposal of period 0.
PipelineOK(s) ==
    s.Phase = "before" =>
        /\ s.Pinned = bottom
        /\ \A p \in Periods : s.Staging[p] = bottom
        /\ \A p \in Periods \ {0} : s.Relevant[p] = bottom
        /\ DOMAIN s.Assemblers \subseteq {s.Relevant[0]}

PInv ==
    /\ quorums \in Quorums
    /\ Sound(st, quorums) /\ EventOK(st.Freshest, quorums) /\ PipelineOK(st)

-----------------------------------------------------------------------------
(* The parts of a store.                                                   *)

\* A map of assemblers is one of values.
LEMMA MapFacts ==
    /\ \A D \in SUBSET Values : \A f \in [D -> Stages] : f \in AssemblerMaps
    /\ \A f \in AssemblerMaps :
         DOMAIN f \in SUBSET Values /\ f \in [DOMAIN f -> Stages]
<1>1. ASSUME NEW D \in SUBSET Values, NEW f \in [D -> Stages] PROVE f \in AssemblerMaps
  BY Zenon DEF AssemblerMaps
<1>2. ASSUME NEW f \in AssemblerMaps
      PROVE  DOMAIN f \in SUBSET Values /\ f \in [DOMAIN f -> Stages]
  <2>1. PICK D \in SUBSET Values : f \in [D -> Stages]
    BY Zenon DEF AssemblerMaps
  <2>2. DOMAIN f = D
    BY <2>1, Zenon
  <2>3. QED
    BY <2>1, <2>2, Zenon
<1>3. QED
  BY <1>1, <1>2, Zenon

\* The fields of a store.
LEMMA Fields ==
    ASSUME NEW s \in Store
    PROVE  /\ s.Phase \in {"before", "in", "after"} /\ s.Period \in Periods
           /\ s.Step \in {soft, cert, next}
           /\ s.Duplicate \in [Periods -> SUBSET Senders]
           /\ s.Lowest \in [Periods -> (Senders \X Values) \cup {noVote}]
           /\ s.Frozen \in [Periods -> BOOLEAN]
           /\ s.Staging \in [Periods -> ValuesOrBottom]
           /\ s.Relevant \in [Periods -> ValuesOrBottom]
           /\ s.Pinned \in ValuesOrBottom /\ s.Assemblers \in AssemblerMaps
           /\ s.verifying \in SUBSET (Values \X (Periods \cup {pinned}))
           /\ s.Freshest \in thresholdEvent
BY Zenon DEF Store

\* What trim leaves.
LEMMA TrimFacts ==
    ASSUME NEW s \in Store
    PROVE  \E f \in AssemblerMaps :
             /\ trim(s) = [s EXCEPT !.Assemblers = f]
             /\ DOMAIN f = ({s.Pinned} \cup Range(s.Relevant)) \ {bottom}
             /\ \A v \in DOMAIN f :
                  f[v] = IF v \in DOMAIN s.Assemblers THEN s.Assemblers[v] ELSE "empty"
<1> DEFINE tracked == ({s.Pinned} \cup Range(s.Relevant)) \ {bottom}
           a == s.Assemblers
           f == [v \in tracked |-> IF v \in DOMAIN a THEN a[v] ELSE "empty"]
<1>1. /\ s.Relevant \in [Periods -> ValuesOrBottom] /\ s.Pinned \in ValuesOrBottom
      /\ a \in AssemblerMaps
  BY Fields, Zenon
<1>2. tracked \in SUBSET Values
  <2>1. Range(s.Relevant) \subseteq ValuesOrBottom
    BY <1>1, Zenon DEF Range
  <2>2. QED
    BY <1>1, <2>1, Zenon DEF ValuesOrBottom
<1>3. a \in [DOMAIN a -> Stages]
  BY <1>1, MapFacts, Zenon
<1> HIDE DEF tracked, a
<1>4. f \in [tracked -> Stages]
  BY <1>3, Zenon DEF Stages
<1>5. f \in AssemblerMaps
  <2> HIDE DEF f
  <2> QED
    BY <1>2, <1>4, MapFacts, Zenon
<1>6. trim(s) = [s EXCEPT !.Assemblers = f]
  BY Zenon DEF trim, tracked, a
<1>7. DOMAIN f = tracked
  BY Zenon
<1>8. \A v \in DOMAIN f : f[v] = IF v \in DOMAIN a THEN a[v] ELSE "empty"
  BY Zenon
<1> HIDE DEF f
<1>9. QED
  BY <1>5, <1>6, <1>7, <1>8, Zenon DEF tracked, a

-----------------------------------------------------------------------------
(* What thresholds do to the store.                                        *)

\* The fields a threshold does not touch before the player moves.
Same(s, t) ==
    /\ t.Phase = s.Phase /\ t.Period = s.Period /\ t.Step = s.Step
    /\ t.Duplicate = s.Duplicate /\ t.Lowest = s.Lowest /\ t.Frozen = s.Frozen
    /\ t.verifying = s.verifying /\ t.Freshest = s.Freshest

\* The block of a value that stays pinned is not lost.
KeepsPinned(s, t) ==
    t.Pinned = s.Pinned /\ Assembled(s, s.Pinned) => Assembled(t, s.Pinned)

\* trim drops no block that is pinned or relevant.
LEMMA TrimKeeps ==
    ASSUME NEW s \in Store
    PROVE  /\ trim(s) \in Store /\ Same(s, trim(s))
           /\ trim(s).Staging = s.Staging /\ trim(s).Relevant = s.Relevant
           /\ trim(s).Pinned = s.Pinned
           /\ DOMAIN trim(s).Assemblers = ({s.Pinned} \cup Range(s.Relevant)) \ {bottom}
           /\ Assembled(s, s.Pinned) => Assembled(trim(s), s.Pinned)
<1>1. PICK f \in AssemblerMaps :
        /\ trim(s) = [s EXCEPT !.Assemblers = f]
        /\ DOMAIN f = ({s.Pinned} \cup Range(s.Relevant)) \ {bottom}
        /\ \A v \in DOMAIN f :
             f[v] = IF v \in DOMAIN s.Assemblers THEN s.Assemblers[v] ELSE "empty"
  BY TrimFacts, Zenon
<1> DEFINE t == trim(s)
<1>2. /\ t \in Store /\ t.Assemblers = f
      /\ t.Staging = s.Staging /\ t.Relevant = s.Relevant /\ t.Pinned = s.Pinned
  BY <1>1, ZenonT(30) DEF Store
<1>3. Same(s, t)
  BY <1>1, Zenon DEF Store, Same
<1> HIDE DEF t
<1>4. ASSUME Assembled(s, s.Pinned) PROVE Assembled(t, s.Pinned)
  <2>1. s.Pinned \in DOMAIN s.Assemblers /\ s.Assemblers[s.Pinned] = "assembled"
    BY <1>4, Zenon DEF Assembled
  <2>2. DOMAIN s.Assemblers \in SUBSET Values
    BY Fields, MapFacts, Zenon
  <2>3. s.Pinned # bottom
    BY <2>1, <2>2, StoreAssumption, Zenon
  <2>4. s.Pinned \in DOMAIN f
    BY <1>1, <2>3, Zenon
  <2>5. QED
    BY <1>1, <1>2, <2>1, <2>4, Zenon DEF Assembled
<1>5. QED
  BY <1>1, <1>2, <1>3, <1>4, Zenon DEF t

\* A new period pins the value that may be decided, and drops what is relevant
\* in the periods before the last.
LEMMA NewPeriodKeeps ==
    ASSUME NEW Q, NEW s, Sound(s, Q), NEW v \in ValuesOrBottom, NEW target
    PROVE  LET t == handleNewPeriod(s, v, target) IN
           /\ Sound(t, Q) /\ Same(s, t) /\ KeepsPinned(s, t)
           /\ t.Staging = s.Staging
           /\ v # bottom => t.Pinned = v
<1> DEFINE staged == s.Staging[s.Period]
           pin == IF v # bottom THEN v ELSE IF staged # bottom THEN staged ELSE s.Pinned
           rel == [p \in Periods |-> IF p + 1 < target THEN bottom ELSE s.Relevant[p]]
           u == [s EXCEPT !.Pinned = pin, !.Relevant = rel]
           t == trim(u)
<1>1. /\ s \in Store /\ s.Staging \in [Periods -> ValuesOrBottom]
      /\ s.Relevant \in [Periods -> ValuesOrBottom]
      /\ s.Pinned \in ValuesOrBottom /\ s.Period \in Periods
  BY Fields, Zenon DEF Sound
<1>2. handleNewPeriod(s, v, target) = t
  BY Zenon DEF handleNewPeriod
<1>3. pin \in ValuesOrBottom /\ (v # bottom => pin = v)
  BY <1>1, Zenon
<1>4. rel \in [Periods -> ValuesOrBottom] /\ \A p \in Periods : rel[p] \in {bottom, s.Relevant[p]}
  BY <1>1, Zenon DEF ValuesOrBottom
<1> HIDE DEF pin, rel
<1>5. /\ u \in Store /\ u.Pinned = pin /\ u.Relevant = rel /\ u.Staging = s.Staging
      /\ u.Assemblers = s.Assemblers
  BY <1>1, <1>3, <1>4, Zenon DEF Store
<1>6. Same(s, u)
  BY <1>1, Zenon DEF Store, Same
<1> HIDE DEF u
<1>7. /\ t \in Store /\ Same(u, t) /\ t.Staging = u.Staging /\ t.Relevant = u.Relevant
      /\ t.Pinned = u.Pinned /\ (Assembled(u, u.Pinned) => Assembled(t, u.Pinned))
  BY <1>5, TrimKeeps, Zenon
<1> HIDE DEF t
<1>8. Same(s, t)
  BY <1>6, <1>7, Zenon DEF Same
<1>9. Sound(t, Q)
  <2>1. /\ t.Staging = s.Staging /\ t.Relevant = rel /\ t.Lowest = s.Lowest
    BY <1>5, <1>7, <1>8, Zenon DEF Same
  <2>2. QED
    BY <1>4, <1>7, <2>1, Zenon DEF Sound
<1>10. KeepsPinned(s, t)
  <2>1. ASSUME t.Pinned = s.Pinned, Assembled(s, s.Pinned) PROVE Assembled(t, s.Pinned)
    <3>1. u.Pinned = s.Pinned /\ Assembled(u, u.Pinned)
      BY <1>5, <1>7, <2>1, Zenon DEF Assembled
    <3>2. QED
      BY <1>7, <3>1, Zenon
  <2>2. QED
    BY <2>1, Zenon DEF KeepsPinned
<1>11. QED
  BY <1>2, <1>3, <1>5, <1>7, <1>8, <1>9, <1>10, Zenon

\* A threshold stages the value of its period, and makes it relevant there.
LEMMA StageKeeps ==
    ASSUME NEW Q, NEW s, Sound(s, Q), NEW e,
           e.Period \in Periods, e.Proposal = Q.soft[e.Period], e.Proposal \in Values
    PROVE  LET t == stage(s, e) IN
           /\ Sound(t, Q) /\ Same(s, t) /\ t.Pinned = s.Pinned /\ KeepsPinned(s, t)
           /\ \A p \in Periods : \/ t.Relevant[p] = s.Relevant[p]
                                 \/ p = e.Period /\ t.Relevant[p] = e.Proposal
<1> DEFINE k == e.Period
           v == e.Proposal
           stg == [s.Staging EXCEPT ![k] = v]
           rel == [s.Relevant EXCEPT ![k] = v]
           a == [s EXCEPT !.Staging = stg]
           u == [a EXCEPT !.Relevant = rel]
           t == stage(s, e)
<1>1. /\ s \in Store /\ s.Staging \in [Periods -> ValuesOrBottom]
      /\ s.Relevant \in [Periods -> ValuesOrBottom]
  BY Fields, Zenon DEF Sound
<1>2. /\ stg \in [Periods -> ValuesOrBottom] /\ rel \in [Periods -> ValuesOrBottom]
      /\ stg[k] = v /\ \A p \in Periods \ {k} : stg[p] = s.Staging[p]
      /\ rel[k] = v /\ \A p \in Periods \ {k} : rel[p] = s.Relevant[p]
  BY <1>1, Zenon DEF ValuesOrBottom
<1>3. t = IF Assembled(s, v) THEN a ELSE trim(u)
  BY <1>1, Zenon DEF stage, Store
<1> HIDE DEF stg, rel
<1>4. /\ a \in Store /\ a.Staging = stg /\ a.Relevant = s.Relevant /\ a.Pinned = s.Pinned
      /\ a.Assemblers = s.Assemblers
  BY <1>1, <1>2, Zenon DEF Store
<1>5. Same(s, a)
  BY <1>1, Zenon DEF Same, Store
<1> HIDE DEF a
<1>6. /\ u \in Store /\ u.Staging = stg /\ u.Relevant = rel /\ u.Pinned = s.Pinned
      /\ u.Assemblers = s.Assemblers
  BY <1>2, <1>4, Zenon DEF Store
<1>7. Same(s, u)
  BY <1>4, <1>5, Zenon DEF Same, Store
<1> HIDE DEF u, t
<1>8. /\ t \in Store /\ Same(s, t) /\ t.Staging = stg /\ t.Pinned = s.Pinned
      /\ t.Relevant \in {s.Relevant, rel}
      /\ Assembled(s, s.Pinned) => Assembled(t, s.Pinned)
  <2>1. CASE Assembled(s, v)
    BY <1>3, <1>4, <1>5, <2>1, Zenon DEF Assembled
  <2>2. CASE ~Assembled(s, v)
    <3>1. t = trim(u)
      BY <1>3, <2>2, Zenon
    <3>2. /\ t \in Store /\ Same(u, t) /\ t.Staging = u.Staging /\ t.Relevant = u.Relevant
          /\ t.Pinned = u.Pinned /\ (Assembled(u, u.Pinned) => Assembled(t, u.Pinned))
      BY <1>6, <3>1, TrimKeeps, Zenon
    <3>3. Same(s, t)
      BY <1>7, <3>2, Zenon DEF Same
    <3>4. Assembled(s, s.Pinned) => Assembled(u, u.Pinned)
      BY <1>6, Zenon DEF Assembled
    <3>5. QED
      BY <1>6, <3>2, <3>3, <3>4, Zenon
  <2>3. QED
    BY <2>1, <2>2, Zenon
<1>9. Sound(t, Q)
  <2>1. \A p \in Periods : t.Staging[p] \in {bottom, Q.soft[p]}
    BY <1>2, <1>8, Zenon DEF Sound
  <2>2. ASSUME NEW p \in Periods, t.Relevant[p] # bottom
        PROVE  \/ t.Relevant[p] = t.Staging[p]
               \/ t.Lowest[p] # noVote /\ t.Relevant[p] = t.Lowest[p][2]
    <3>1. t.Lowest = s.Lowest
      BY <1>8, Zenon DEF Same
    <3>2. CASE p # k
      <4>1. t.Relevant[p] = s.Relevant[p] /\ t.Staging[p] = s.Staging[p]
        BY <1>2, <1>8, <3>2, Zenon
      <4>2. QED
        BY <2>2, <3>1, <4>1, Zenon DEF Sound
    <3>3. CASE p = k /\ t.Relevant = rel
      BY <1>2, <1>8, <3>3, Zenon
    <3>4. CASE p = k /\ t.Relevant = s.Relevant
      <4>1. CASE s.Relevant[p] = s.Staging[p]
        <5>1. s.Staging[p] # bottom
          BY <2>2, <3>4, <4>1, Zenon
        <5>2. s.Staging[p] = v
          BY <3>4, <5>1, Zenon DEF Sound
        <5>3. QED
          BY <1>2, <1>8, <3>4, <4>1, <5>2, Zenon
      <4>2. CASE s.Relevant[p] # s.Staging[p]
        BY <2>2, <3>1, <3>4, <4>2, Zenon DEF Sound
      <4>3. QED
        BY <4>1, <4>2, Zenon
    <3>5. QED
      BY <1>8, <3>2, <3>3, <3>4, Zenon
  <2>3. QED
    BY <1>8, <2>1, <2>2, Zenon DEF Sound
<1>10. KeepsPinned(s, t)
  BY <1>8, Zenon DEF KeepsPinned
<1>11. \A p \in Periods : t.Relevant[p] = s.Relevant[p] \/ (p = k /\ t.Relevant[p] = v)
  BY <1>2, <1>8, Zenon
<1>12. QED
  BY <1>8, <1>9, <1>10, <1>11, Zenon DEF t

\* The manager does both, if the threshold is of a later period.
LEMMA ManageKeeps ==
    ASSUME NEW Q, NEW s, Sound(s, Q), NEW e,
           e.Period \in Periods, e.Proposal = Q.soft[e.Period], e.Proposal \in Values
    PROVE  LET t == manage(s, e) IN
           /\ Sound(t, Q) /\ Same(s, t) /\ KeepsPinned(s, t)
           /\ s.Period < e.Period => t.Pinned = e.Proposal
           /\ ~(s.Period < e.Period) =>
                \A p \in Periods : \/ t.Relevant[p] = s.Relevant[p]
                                   \/ p = e.Period /\ t.Relevant[p] = e.Proposal
<1> DEFINE t == manage(s, e)
<1>1. CASE s.Period < e.Period
  <2> DEFINE u == handleNewPeriod(s, e.Proposal, e.Period)
  <2>1. t = stage(u, e)
    BY <1>1, Zenon DEF manage
  <2>2. e.Proposal \in ValuesOrBottom /\ e.Proposal # bottom
    BY StoreAssumption, Zenon DEF ValuesOrBottom
  <2>3. Sound(u, Q) /\ Same(s, u) /\ KeepsPinned(s, u) /\ u.Pinned = e.Proposal
    BY <2>2, NewPeriodKeeps
  <2> HIDE DEF u, t
  <2>4. Sound(t, Q) /\ Same(u, t) /\ t.Pinned = u.Pinned /\ KeepsPinned(u, t)
    BY <2>1, <2>3, StageKeeps
  <2>5. Same(s, t)
    BY <2>3, <2>4, Zenon DEF Same
  <2>6. KeepsPinned(s, t)
    BY <2>3, <2>4, Zenon DEF KeepsPinned
  <2>7. QED
    BY <1>1, <2>3, <2>4, <2>5, <2>6, Zenon DEF t
<1>2. CASE ~(s.Period < e.Period)
  <2>1. t = stage(s, e)
    BY <1>2, Zenon DEF manage
  <2>2. QED
    BY <1>2, <2>1, StageKeeps
<1>3. QED
  BY <1>1, <1>2, Zenon

\* The player moves to another period.
LEMMA MoveKeeps ==
    ASSUME NEW Q, NEW s, Sound(s, Q), NEW target \in Periods
    PROVE  LET t == Move(s, target) IN
           /\ Sound(t, Q) /\ KeepsPinned(s, t)
           /\ t.Period = target /\ t.Phase = s.Phase /\ t.Freshest = s.Freshest
           /\ t.Pinned = s.Pinned
<1> DEFINE t == Move(s, target)
<1>1. s \in Store
  BY Zenon DEF Sound
<1>2. t = [s EXCEPT !.Period = target, !.Step = soft]
  BY Zenon DEF Move
<1> HIDE DEF t
<1>3. /\ t \in Store /\ t.Period = target /\ t.Phase = s.Phase /\ t.Freshest = s.Freshest
      /\ t.Pinned = s.Pinned /\ t.Assemblers = s.Assemblers /\ t.Staging = s.Staging
      /\ t.Relevant = s.Relevant /\ t.Lowest = s.Lowest
  BY <1>1, <1>2, Zenon DEF Store
<1>4. Sound(t, Q)
  BY <1>3, ZenonT(30) DEF Sound
<1>5. KeepsPinned(s, t)
  BY <1>3, Zenon DEF KeepsPinned, Assembled
<1>6. QED
  BY <1>3, <1>4, <1>5, Zenon DEF t

\* What is staged in the period of the player stays relevant there.
StagedKept(s, t) ==
    LET p == s.Period IN
    /\ s.Staging[p] # bottom /\ s.Relevant[p] = s.Staging[p]
    /\ t.Phase = "in" /\ t.Period = p
    => t.Relevant[p] = s.Staging[p]

\* A store after a threshold, unless the round is over.
Handled(s, t, Q) ==
    /\ Sound(t, Q) /\ t.Phase = s.Phase /\ t.Freshest = s.Freshest
    /\ KeepsPinned(s, t) /\ StagedKept(s, t)

\* A threshold of the period of the player, or of one before, is only staged.
LEMMA StagedHandled ==
    ASSUME NEW Q, NEW s, Sound(s, Q), NEW e,
           e.Period \in Periods, e.Proposal = Q.soft[e.Period], e.Proposal \in Values,
           ~(s.Period < e.Period)
    PROVE  Handled(s, manage(s, e), Q)
<1> DEFINE t == manage(s, e)
<1>1. /\ Sound(t, Q) /\ Same(s, t) /\ KeepsPinned(s, t)
      /\ \A p \in Periods : \/ t.Relevant[p] = s.Relevant[p]
                            \/ p = e.Period /\ t.Relevant[p] = e.Proposal
  BY ManageKeeps
<1> HIDE DEF t
<1>2. s.Period \in Periods
  BY Fields, Zenon DEF Sound
<1>3. StagedKept(s, t)
  <2>1. ASSUME s.Staging[s.Period] # bottom, s.Relevant[s.Period] = s.Staging[s.Period]
        PROVE  t.Relevant[s.Period] = s.Staging[s.Period]
    <3>1. s.Staging[s.Period] = Q.soft[s.Period]
      BY <1>2, <2>1, Zenon DEF Sound
    <3>2. QED
      BY <1>1, <1>2, <2>1, <3>1, Zenon
  <2>2. QED
    BY <2>1, Zenon DEF StagedKept
<1>4. QED
  BY <1>1, <1>3, Zenon DEF Handled, Same, t

\* A store that moves on.
LEMMA MovedHandled ==
    ASSUME NEW Q, NEW s, NEW u, Sound(u, Q), Same(s, u), KeepsPinned(s, u),
           NEW target \in Periods, target # s.Period
    PROVE  Handled(s, Move(u, target), Q)
<1> DEFINE t == Move(u, target)
<1>1. /\ Sound(t, Q) /\ KeepsPinned(u, t) /\ t.Period = target /\ t.Phase = u.Phase
      /\ t.Freshest = u.Freshest /\ t.Pinned = u.Pinned
  BY MoveKeeps
<1> HIDE DEF t
<1>2. KeepsPinned(s, t)
  BY <1>1, Zenon DEF KeepsPinned
<1>3. StagedKept(s, t)
  BY <1>1, Zenon DEF StagedKept
<1>4. QED
  BY <1>1, <1>2, <1>3, Zenon DEF Handled, Same, t

\* The period comparisons of the player.
LEMMA PeriodOrder ==
    \A a, b \in Periods : /\ a < b => a # b /\ ~(a > b)
                          /\ ~(a > b) /\ ~(a < b) => a = b
                          /\ b < MaxPeriod => b + 1 \in Periods /\ (~(a > b) => b + 1 # a)
BY StoreAssumption DEF Periods

\* What the player does with a threshold.
LEMMA EventHandled ==
    ASSUME NEW Q, NEW s, Sound(s, Q), NEW e, EventOK(e, Q)
    PROVE  handleThresholdEvent(s, e) = Leave \/ Handled(s, handleThresholdEvent(s, e), Q)
<1>1. /\ e.Period \in Periods /\ e.Proposal \in ValuesOrBottom
      /\ e.T \in {"none", "soft", "cert", "next"} /\ s.Period \in Periods
  BY Fields, Zenon DEF EventOK, thresholdEvent, Sound
<1>2. e.T \in {"soft", "cert"} => e.Proposal = Q.soft[e.Period] /\ e.Proposal \in Values
  BY <1>1, Zenon DEF EventOK, ValuesOrBottom
<1>3. Handled(s, s, Q)
  BY Zenon DEF Handled, KeepsPinned, StagedKept
<1>4. CASE e.T = "cert"
  <2> DEFINE to == manage(s, e)
  <2>1. handleThresholdEvent(s, e) = certThreshold(s, e)
    BY <1>4, Zenon DEF handleThresholdEvent
  <2>2. CASE Assembled(to, e.Proposal)
    BY <2>1, <2>2, Zenon DEF certThreshold
  <2>3. CASE ~Assembled(to, e.Proposal) /\ ~(s.Period < e.Period)
    <3>1. certThreshold(s, e) = to
      BY <2>3, Zenon DEF certThreshold
    <3>2. Handled(s, to, Q)
      BY <1>1, <1>2, <1>4, <2>3, StagedHandled, Zenon
    <3>3. QED
      BY <2>1, <3>1, <3>2, Zenon
  <2>4. CASE ~Assembled(to, e.Proposal) /\ s.Period < e.Period
    <3> DEFINE u == manage(to, e)
    <3>1. certThreshold(s, e) = Move(u, e.Period)
      BY <2>4, Zenon DEF certThreshold
    <3>2. Sound(to, Q) /\ Same(s, to) /\ KeepsPinned(s, to) /\ to.Pinned = e.Proposal
      BY <1>1, <1>2, <1>4, <2>4, ManageKeeps
    <3> HIDE DEF to
    <3>3. to.Period < e.Period
      BY <2>4, <3>2, Zenon DEF Same
    <3>4. Sound(u, Q) /\ Same(to, u) /\ KeepsPinned(to, u) /\ u.Pinned = e.Proposal
      BY <1>1, <1>2, <1>4, <3>2, <3>3, ManageKeeps
    <3> HIDE DEF u
    <3>5. Same(s, u)
      BY <3>2, <3>4, Zenon DEF Same
    <3>6. KeepsPinned(s, u)
      BY <3>2, <3>4, Zenon DEF KeepsPinned
    <3>7. e.Period # s.Period
      BY <1>1, <2>4, PeriodOrder, Zenon
    <3>8. QED
      BY <1>1, <2>1, <3>1, <3>4, <3>5, <3>6, <3>7, MovedHandled, Zenon
  <2>5. QED
    BY <2>2, <2>3, <2>4, Zenon
<1>5. CASE e.T = "soft"
  <2>1. handleThresholdEvent(s, e) = softThreshold(s, e)
    BY <1>5, Zenon DEF handleThresholdEvent
  <2>2. CASE s.Period > e.Period
    BY <1>3, <2>1, <2>2, Zenon DEF softThreshold
  <2>3. CASE s.Period < e.Period
    <3> DEFINE u == manage(s, e)
    <3>1. softThreshold(s, e) = Move(u, e.Period)
      BY <1>1, <2>3, PeriodOrder, Zenon DEF softThreshold
    <3>2. Sound(u, Q) /\ Same(s, u) /\ KeepsPinned(s, u)
      BY <1>1, <1>2, <1>5, ManageKeeps, Zenon
    <3> HIDE DEF u
    <3>3. e.Period # s.Period
      BY <1>1, <2>3, PeriodOrder, Zenon
    <3>4. QED
      BY <1>1, <2>1, <3>1, <3>2, <3>3, MovedHandled, Zenon
  <2>4. CASE ~(s.Period > e.Period) /\ ~(s.Period < e.Period)
    <3>1. softThreshold(s, e) = manage(s, e)
      BY <2>4, Zenon DEF softThreshold
    <3>2. QED
      BY <1>1, <1>2, <1>5, <2>1, <2>4, <3>1, StagedHandled, Zenon
  <2>5. QED
    BY <2>2, <2>3, <2>4, Zenon
<1>6. CASE e.T = "next"
  <2>1. handleThresholdEvent(s, e) = nextThreshold(s, e)
    BY <1>6, Zenon DEF handleThresholdEvent
  <2>2. CASE s.Period > e.Period
    BY <1>3, <2>1, <2>2, Zenon DEF nextThreshold
  <2>3. CASE ~(s.Period > e.Period)
    <3> DEFINE u == handleNewPeriod(s, e.Proposal, e.Period + 1)
    <3>1. nextThreshold(s, e) = Move(u, e.Period + 1)
      BY <2>3, Zenon DEF nextThreshold
    <3>2. Sound(u, Q) /\ Same(s, u) /\ KeepsPinned(s, u)
      BY <1>1, NewPeriodKeeps, Zenon
    <3> HIDE DEF u
    <3>3. e.Period < MaxPeriod
      BY <1>6, Zenon DEF EventOK
    <3>4. e.Period + 1 \in Periods /\ e.Period + 1 # s.Period
      BY <1>1, <2>3, <3>3, PeriodOrder, Zenon
    <3>5. QED
      BY <2>1, <3>1, <3>2, <3>4, MovedHandled, Zenon
  <2>4. QED
    BY <2>2, <2>3, Zenon
<1>7. CASE e.T = "none"
  <2>1. handleThresholdEvent(s, e) = s
    BY <1>7, Zenon DEF handleThresholdEvent
  <2>2. QED
    BY <1>3, <2>1, Zenon
<1>8. QED
  BY <1>1, <1>4, <1>5, <1>6, <1>7, Zenon

-----------------------------------------------------------------------------
(* The thresholds there are, and the context of a validation.              *)

\* A threshold that has formed carries the value of its period.
LEMMA FormedOK ==
    ASSUME quorums \in Quorums, NEW e \in Formed, e.T = "next" => e.Period < MaxPeriod
    PROVE  EventOK(e, quorums)
<1>1. e \in thresholdEvent /\ e.Period \in Periods /\ e.T \in {"none", "soft", "cert", "next"}
  BY Zenon DEF Formed, thresholdEvent
<1>2. CASE e.T = "soft"
  BY <1>1, <1>2, Zenon DEF Formed, EventOK
<1>3. CASE e.T = "cert"
  <2>1. e.Period = quorums.cert /\ e.Proposal = quorums.soft[e.Period]
    BY <1>3, Zenon DEF Formed
  <2>2. e.Period >= e.Period
    BY <1>1, StoreAssumption DEF Periods
  <2>3. quorums.soft[quorums.cert] # bottom
    BY <1>1, <2>1, <2>2, Zenon DEF Quorums
  <2>4. QED
    BY <1>1, <1>3, <2>1, <2>3, Zenon DEF EventOK
<1>4. CASE e.T \in {"none", "next"}
  BY <1>1, <1>4, Zenon DEF EventOK
<1>5. QED
  BY <1>1, <1>2, <1>3, <1>4, Zenon

\* A set of periods has a last one.
LEMMA LastPeriod ==
    ASSUME NEW S, S \subseteq Periods, S # {}
    PROVE  \E p \in S : \A q \in S : q <= p
<1> DEFINE T == {MaxPeriod - p : p \in S}
           less == {r \in Nat \X Nat : r[1] < r[2]}
<1>1. MaxPeriod \in Nat /\ S \subseteq 0..MaxPeriod
  BY StoreAssumption, Zenon DEF Periods
<1>2. T \subseteq Nat /\ T # {}
  <2>1. ASSUME NEW p \in S PROVE MaxPeriod - p \in Nat
    BY <1>1
  <2>2. PICK p : p \in S
    BY Zenon
  <2>3. MaxPeriod - p \in T
    BY <2>2, Zenon
  <2>4. QED
    BY <2>1, <2>3, Zenon
<1>3. IsWellFoundedOn(less, Nat)
  BY NatLessThanWellFounded, Zenon DEF OpToRel
<1>4. PICK m \in T : \A n \in T : ~(<<n, m>> \in less)
  <2> HIDE DEF T
  <2> QED
    BY <1>2, <1>3, WFMin, Zenon
<1>5. PICK p \in S : m = MaxPeriod - p
  BY Zenon
<1>6. ASSUME NEW q \in S PROVE q <= p
  <2>1. MaxPeriod - q \in T
    BY Zenon
  <2>2. ~(MaxPeriod - q < m)
    BY <1>2, <1>4, <2>1, Zenon
  <2>3. QED
    BY <1>1, <1>5, <2>2
<1>7. QED
  BY <1>6, Zenon

\* A block is validated for a period, or as the pinned one.
LEMMA ContextType ==
    ASSUME NEW s, NEW v
    PROVE  lastRelevant(s, v) \in Periods \cup {pinned}
<1> DEFINE in == {p \in Periods : s.Relevant[p] = v}
<1>1. 0 \in Periods
  BY StoreAssumption DEF Periods
<1>2. CASE in # {}
  <2>1. \E p \in in : \A q \in in : q <= p
    BY <1>2, LastPeriod, Zenon
  <2>2. (CHOOSE p \in in : \A q \in in : q <= p) \in Periods
    BY <2>1, Zenon
  <2>3. QED
    BY <1>2, <2>2, Zenon DEF lastRelevant
<1>3. QED
  BY <1>1, <1>2, Zenon DEF lastRelevant

\* A step that only tells the store more of a block, of the voters or of the
\* validation.
LEMMA QuietKeeps ==
    ASSUME NEW Q, NEW s, Sound(s, Q), NEW t \in Store,
           t.Staging = s.Staging, t.Relevant = s.Relevant, t.Lowest = s.Lowest,
           t.Pinned = s.Pinned, \A v : Assembled(s, v) => Assembled(t, v)
    PROVE  Sound(t, Q) /\ KeepsPinned(s, t) /\ StagedKept(s, t)
<1>1. Sound(t, Q)
  BY Zenon DEF Sound
<1>2. KeepsPinned(s, t)
  BY Zenon DEF KeepsPinned
<1>3. StagedKept(s, t)
  BY Zenon DEF StagedKept
<1>4. QED
  BY <1>1, <1>2, <1>3, Zenon

\* A block goes to validation.
LEMMA VerifyKeeps ==
    ASSUME NEW Q, NEW s, Sound(s, Q), NEW v \in Values, NEW t \in verify(s, v)
    PROVE  /\ Sound(t, Q) /\ KeepsPinned(s, t) /\ StagedKept(s, t)
           /\ t.Phase = s.Phase /\ t.Freshest = s.Freshest /\ t.Pinned = s.Pinned
           /\ t.Staging = s.Staging /\ t.Period = s.Period /\ t.Relevant = s.Relevant
           /\ t.Lowest = s.Lowest /\ t.Assemblers = s.Assemblers
<1> DEFINE key == lastRelevant(s, v)
           old == {r \in s.verifying : r[2] = key /\ r[1] # v}
<1>1. PICK c \in SUBSET old : t = [s EXCEPT !.verifying = (@ \ c) \cup {<<v, key>>}]
  BY Zenon DEF verify
<1>2. key \in Periods \cup {pinned}
  BY ContextType, Zenon
<1> HIDE DEF key, old
<1>3. s \in Store
  BY Zenon DEF Sound
<1>4. s.verifying \in SUBSET (Values \X (Periods \cup {pinned}))
  BY <1>3, Fields, Zenon
<1>5. (s.verifying \ c) \cup {<<v, key>>} \in SUBSET (Values \X (Periods \cup {pinned}))
  BY <1>2, <1>4
<1>6. /\ t \in Store /\ t.Phase = s.Phase /\ t.Freshest = s.Freshest /\ t.Pinned = s.Pinned
      /\ t.Staging = s.Staging /\ t.Period = s.Period /\ t.Relevant = s.Relevant
      /\ t.Lowest = s.Lowest /\ t.Assemblers = s.Assemblers
  BY <1>1, <1>3, <1>5, Zenon DEF Store
<1>7. \A w : Assembled(s, w) => Assembled(t, w)
  BY <1>6, Zenon DEF Assembled
<1>8. QED
  BY <1>6, <1>7, QuietKeeps, Zenon

-----------------------------------------------------------------------------
(* The steps.                                                              *)

\* What a step keeps, and what it may not do.
Kept == PInv' /\ KeepsPinned(st, st') /\ StagedKept(st, st')

\* The store of a round that is over, and of one that has not begun.
LEMMA EmptyStores ==
    ASSUME NEW Q
    PROVE  /\ Sound(newStore, Q) /\ PipelineOK(newStore) /\ EventOK(newStore.Freshest, Q)
           /\ Sound(Leave, Q) /\ PipelineOK(Leave) /\ EventOK(Leave.Freshest, Q)
           /\ Leave.Pinned = bottom /\ Leave.Phase = "after"
<1> DEFINE none == [v \in {} |-> "empty"]
<1>1. 0 \in Periods /\ bottom \in ValuesOrBottom
  BY StoreAssumption DEF Periods, ValuesOrBottom
<1>2. none \in AssemblerMaps
  <2>1. none \in [{} -> Stages]
    BY Zenon
  <2>2. QED
    BY <2>1, MapFacts, Zenon
<1>3. noEvent \in thresholdEvent
  BY <1>1, Zenon DEF noEvent, thresholdEvent
<1>4. newStore \in Store
  <2> HIDE DEF none
  <2> QED
    BY <1>1, <1>2, <1>3, Zenon DEF newStore, Store, none
<1>5. Leave \in Store
  BY <1>4, Zenon DEF Leave, Store
<1>6. /\ newStore.Staging = [p \in Periods |-> bottom]
      /\ newStore.Relevant = [p \in Periods |-> bottom]
      /\ newStore.Pinned = bottom /\ newStore.Freshest = noEvent
      /\ newStore.Assemblers = none
  BY Zenon DEF newStore
<1>7. /\ Leave.Staging = newStore.Staging /\ Leave.Relevant = newStore.Relevant
      /\ Leave.Pinned = bottom /\ Leave.Freshest = noEvent /\ Leave.Phase = "after"
  BY Zenon DEF newStore, Leave
<1>8. EventOK(noEvent, Q)
  BY <1>3, Zenon DEF EventOK, noEvent
<1>9. Sound(newStore, Q)
  BY <1>4, <1>6, Zenon DEF Sound
<1>10. PipelineOK(newStore)
  BY <1>6, Zenon DEF PipelineOK
<1>11. Sound(Leave, Q)
  BY <1>5, <1>6, <1>7 DEF Sound
<1>12. PipelineOK(Leave)
  BY <1>7, Zenon DEF PipelineOK
<1>13. QED
  BY <1>6, <1>7, <1>8, <1>9, <1>10, <1>11, <1>12, Zenon

\* Before the round nothing is pinned or staged, and bottom has no block.
LEMMA Beforehand ==
    ASSUME PInv, NEW t
    PROVE  /\ st.Pinned = bottom => KeepsPinned(st, t)
           /\ st.Phase = "before" => KeepsPinned(st, t) /\ StagedKept(st, t)
<1>1. st \in Store
  BY Zenon DEF PInv, Sound
<1>2. ~Assembled(st, bottom)
  <2>1. DOMAIN st.Assemblers \in SUBSET Values
    BY <1>1, Fields, MapFacts, Zenon
  <2>2. QED
    BY <2>1, StoreAssumption, Zenon DEF Assembled
<1>3. st.Pinned = bottom => KeepsPinned(st, t)
  BY <1>2, Zenon DEF KeepsPinned
<1>4. ASSUME st.Phase = "before" PROVE StagedKept(st, t) /\ st.Pinned = bottom
  <2>1. st.Period \in Periods
    BY <1>1, Fields, Zenon
  <2>2. st.Staging[st.Period] = bottom /\ st.Pinned = bottom
    BY <1>4, <2>1, Zenon DEF PInv, PipelineOK
  <2>3. QED
    BY <2>2, Zenon DEF StagedKept
<1>5. QED
  BY <1>3, <1>4, Zenon

\* The round ends.
LEMMA LeaveStep ==
    ASSUME PInv, st' = Leave, quorums' = quorums
    PROVE  Kept
<1>1. /\ Sound(st', quorums') /\ PipelineOK(st') /\ EventOK(st'.Freshest, quorums')
      /\ st'.Pinned = bottom /\ st'.Phase = "after"
  BY EmptyStores, Zenon
<1>2. PInv'
  BY <1>1, Zenon DEF PInv
<1>3. KeepsPinned(st, st')
  <2>1. CASE st.Pinned = bottom
    BY <2>1, Beforehand, Zenon
  <2>2. CASE st.Pinned # bottom
    BY <1>1, <2>2, Zenon DEF KeepsPinned
  <2>3. QED
    BY <2>1, <2>2, Zenon
<1>4. StagedKept(st, st')
  BY <1>1, Zenon DEF StagedKept
<1>5. QED
  BY <1>2, <1>3, <1>4, Zenon DEF Kept

\* A step that leaves the pipeline alone.
LEMMA QuietStep ==
    ASSUME PInv, quorums' = quorums, st' \in Store, EventOK(st'.Freshest, quorums),
           st'.Staging = st.Staging, st'.Relevant = st.Relevant, st'.Lowest = st.Lowest,
           st'.Pinned = st.Pinned, st'.Phase = st.Phase,
           DOMAIN st'.Assemblers = DOMAIN st.Assemblers,
           \A v : Assembled(st, v) => Assembled(st', v)
    PROVE  Kept
<1>1. Sound(st, quorums)
  BY Zenon DEF PInv
<1>2. Sound(st', quorums) /\ KeepsPinned(st, st') /\ StagedKept(st, st')
  BY <1>1, QuietKeeps, Zenon
<1>3. PipelineOK(st')
  BY Zenon DEF PInv, PipelineOK
<1>4. PInv'
  BY <1>2, <1>3, Zenon DEF PInv
<1>5. QED
  BY <1>2, <1>4, Zenon DEF Kept

\* A proposal-vote: the tracker takes it only while nothing is staged.
LEMMA ProposalVoteKeeps ==
    ASSUME PInv, NEW p \in Periods, NEW sender \in Senders, NEW v \in Values,
           ProposalVote(p, sender, v)
    PROVE  Kept
<1> DEFINE seen == [st EXCEPT !.Duplicate[p] = @ \cup {sender}]
           u == [seen EXCEPT !.Lowest[p] = <<sender, v>>, !.Relevant[p] = v]
<1>1. st \in Store /\ Sound(st, quorums) /\ quorums' = quorums /\ PipelineOK(st)
  BY Zenon DEF PInv, Sound, ProposalVote
<1>2. /\ st.Duplicate \in [Periods -> SUBSET Senders]
      /\ st.Lowest \in [Periods -> (Senders \X Values) \cup {noVote}]
      /\ st.Staging \in [Periods -> ValuesOrBottom]
      /\ st.Relevant \in [Periods -> ValuesOrBottom]
      /\ st.Pinned \in ValuesOrBottom /\ st.Assemblers \in AssemblerMaps
      /\ st.Period \in Periods
  BY <1>1, Fields, Zenon
<1>3. /\ seen \in Store /\ seen.Staging = st.Staging /\ seen.Relevant = st.Relevant
      /\ seen.Lowest = st.Lowest /\ seen.Pinned = st.Pinned /\ seen.Phase = st.Phase
      /\ seen.Assemblers = st.Assemblers /\ seen.Freshest = st.Freshest
      /\ seen.Period = st.Period
  <2>1. [st.Duplicate EXCEPT ![p] = @ \cup {sender}] \in [Periods -> SUBSET Senders]
    BY <1>2, Zenon
  <2>2. QED
    BY <1>1, <2>1, Zenon DEF Store
<1>4. CASE ~accepts(st, p, sender)
  <2>1. st' = seen
    BY <1>4, Zenon DEF ProposalVote
  <2> HIDE DEF seen
  <2>2. \A w : Assembled(st, w) => Assembled(st', w)
    BY <1>3, <2>1, Zenon DEF Assembled
  <2>3. EventOK(st'.Freshest, quorums)
    BY <1>3, <2>1, Zenon DEF PInv
  <2>4. QED
    BY <1>1, <1>3, <2>1, <2>2, <2>3, QuietStep, Zenon
<1>5. CASE accepts(st, p, sender)
  <2>1. st' = trim(u)
    BY <1>5, Zenon DEF ProposalVote
  <2>2. st.Staging[p] = bottom
    BY <1>5, Zenon DEF accepts
  <2>3. v \in ValuesOrBottom /\ <<sender, v>> \in (Senders \X Values) \cup {noVote}
    BY Zenon DEF ValuesOrBottom
  <2>4. /\ u \in Store /\ u.Staging = st.Staging /\ u.Pinned = st.Pinned
        /\ u.Phase = st.Phase /\ u.Assemblers = st.Assemblers
        /\ u.Freshest = st.Freshest /\ u.Period = st.Period
        /\ u.Relevant = [st.Relevant EXCEPT ![p] = v]
        /\ u.Lowest = [st.Lowest EXCEPT ![p] = <<sender, v>>]
    <3> HIDE DEF seen
    <3>1. [seen.Relevant EXCEPT ![p] = v] \in [Periods -> ValuesOrBottom]
      BY <1>2, <1>3, <2>3, Zenon
    <3>2. [seen.Lowest EXCEPT ![p] = <<sender, v>>]
             \in [Periods -> (Senders \X Values) \cup {noVote}]
      BY <1>2, <1>3, <2>3, Zenon
    <3>3. QED
      BY <1>3, <3>1, <3>2, Zenon DEF Store
  <2> HIDE DEF u, seen
  <2>5. Sound(u, quorums)
    <3>1. ASSUME NEW q \in Periods, u.Relevant[q] # bottom
          PROVE  \/ u.Relevant[q] = u.Staging[q]
                 \/ u.Lowest[q] # noVote /\ u.Relevant[q] = u.Lowest[q][2]
      <4>1. CASE q = p
        BY <1>2, <2>4, <4>1 DEF noVote
      <4>2. CASE q # p
        BY <1>1, <1>2, <2>4, <3>1, <4>2 DEF Sound
      <4>3. QED
        BY <4>1, <4>2, Zenon
    <3>2. \A q \in Periods : u.Staging[q] \in {bottom, quorums.soft[q]}
      BY <1>1, <2>4, Zenon DEF Sound
    <3>3. QED
      BY <2>4, <3>1, <3>2, Zenon DEF Sound
  <2>6. PICK f \in AssemblerMaps :
           /\ st' = [u EXCEPT !.Assemblers = f]
           /\ DOMAIN f = ({u.Pinned} \cup Range(u.Relevant)) \ {bottom}
           /\ \A w \in DOMAIN f :
                f[w] = IF w \in DOMAIN u.Assemblers THEN u.Assemblers[w] ELSE "empty"
    <3>1. \E f \in AssemblerMaps :
             /\ trim(u) = [u EXCEPT !.Assemblers = f]
             /\ DOMAIN f = ({u.Pinned} \cup Range(u.Relevant)) \ {bottom}
             /\ \A w \in DOMAIN f :
                  f[w] = IF w \in DOMAIN u.Assemblers THEN u.Assemblers[w] ELSE "empty"
      BY <2>4, TrimFacts, Zenon
    <3>2. QED
      BY <2>1, <3>1, Zenon
  <2>7. /\ st' \in Store /\ st'.Staging = u.Staging /\ st'.Pinned = u.Pinned
        /\ st'.Phase = u.Phase /\ st'.Freshest = u.Freshest /\ st'.Relevant = u.Relevant
        /\ st'.Lowest = u.Lowest /\ st'.Assemblers = f /\ st'.Period = u.Period
    BY <2>4, <2>6, Zenon DEF Store
  <2>8. Sound(st', quorums)
    BY <2>5, <2>7, Zenon DEF Sound
  <2>9. PipelineOK(st')
    <3>1. SUFFICES ASSUME st.Phase = "before" PROVE PipelineOK(st')
      BY <2>4, <2>7, Zenon DEF PipelineOK
    <3>2. p = 0
      BY <3>1, Zenon DEF ProposalVote, proposalFresh
    <3>3. /\ st.Pinned = bottom /\ \A q \in Periods : st.Staging[q] = bottom
          /\ \A q \in Periods \ {0} : st.Relevant[q] = bottom
      BY <1>1, <3>1, Zenon DEF PipelineOK
    <3>4. \A q \in Periods \ {0} : u.Relevant[q] = bottom
      BY <1>2, <2>4, <3>2, <3>3, Zenon
    <3>5. DOMAIN u.Relevant = Periods
      BY <1>2, <2>4, Zenon
    <3>6. DOMAIN f \subseteq {u.Relevant[0]}
      BY <2>4, <2>6, <3>3, <3>4, <3>5 DEF Range
    <3>7. QED
      BY <2>4, <2>7, <3>3, <3>4, <3>6 DEF PipelineOK
  <2>10. EventOK(st'.Freshest, quorums)
    BY <2>4, <2>7, Zenon DEF PInv
  <2>11. PInv'
    BY <1>1, <2>8, <2>9, <2>10, Zenon DEF PInv
  <2>12. KeepsPinned(st, st')
    <3>1. CASE st.Pinned = bottom
      BY <3>1, Beforehand, Zenon
    <3>2. CASE st.Pinned # bottom
      BY <2>4, <2>6, <2>7, <3>2, Zenon DEF KeepsPinned, Assembled
    <3>3. QED
      BY <3>1, <3>2, Zenon
  <2>13. StagedKept(st, st')
    <3>1. CASE st.Period = p
      BY <2>2, <3>1, Zenon DEF StagedKept
    <3>2. CASE st.Period # p
      BY <1>2, <2>4, <2>7, <3>2 DEF StagedKept
    <3>3. QED
      BY <3>1, <3>2, Zenon
  <2>14. QED
    BY <2>11, <2>12, <2>13, Zenon DEF Kept
<1>6. QED
  BY <1>4, <1>5, Zenon

\* A block arrives.
LEMMA PayloadPresentKeeps ==
    ASSUME PInv, NEW v \in Values, PayloadPresent(v)
    PROVE  Kept
<1> DEFINE filled == [st EXCEPT !.Assemblers[v] = "filled"]
<1>1. /\ st \in Store /\ Sound(st, quorums) /\ quorums' = quorums
      /\ v \in DOMAIN st.Assemblers /\ st.Assemblers[v] = "empty"
  BY Zenon DEF PInv, Sound, PayloadPresent
<1>2. DOMAIN st.Assemblers \in SUBSET Values /\ st.Assemblers \in [DOMAIN st.Assemblers -> Stages]
  BY <1>1, Fields, MapFacts, Zenon
<1>3. [st.Assemblers EXCEPT ![v] = "filled"] \in AssemblerMaps
  <2>1. [st.Assemblers EXCEPT ![v] = "filled"] \in [DOMAIN st.Assemblers -> Stages]
    BY <1>2, Zenon DEF Stages
  <2>2. QED
    BY <1>2, <2>1, MapFacts, Zenon
<1>4. /\ filled \in Store /\ filled.Staging = st.Staging /\ filled.Relevant = st.Relevant
      /\ filled.Lowest = st.Lowest /\ filled.Pinned = st.Pinned /\ filled.Phase = st.Phase
      /\ filled.Freshest = st.Freshest /\ filled.Period = st.Period
      /\ filled.Assemblers = [st.Assemblers EXCEPT ![v] = "filled"]
  BY <1>1, <1>3, Zenon DEF Store
<1>5. (st.Phase = "before" /\ st' = filled) \/ (st.Phase # "before" /\ st' \in verify(filled, v))
  BY Zenon DEF PayloadPresent
<1> HIDE DEF filled
<1>6. DOMAIN filled.Assemblers = DOMAIN st.Assemblers
  BY <1>4, Zenon
<1>7. \A w : Assembled(st, w) => Assembled(filled, w)
  BY <1>1, <1>2, <1>4, Zenon DEF Assembled
<1>8. Sound(filled, quorums)
  BY <1>1, <1>4, <1>7, QuietKeeps, Zenon
<1>9. /\ st' \in Store /\ st'.Staging = filled.Staging /\ st'.Relevant = filled.Relevant
      /\ st'.Pinned = filled.Pinned /\ st'.Phase = filled.Phase /\ st'.Lowest = filled.Lowest
      /\ st'.Freshest = filled.Freshest /\ st'.Assemblers = filled.Assemblers
  <2>1. CASE st' = filled
    BY <1>4, <2>1, Zenon
  <2>2. CASE st' \in verify(filled, v)
    <3>1. Sound(st', quorums)
      BY <1>8, <2>2, VerifyKeeps, Zenon
    <3>2. st' \in Store
      BY <3>1, Zenon DEF Sound
    <3>3. QED
      BY <1>8, <2>2, <3>2, VerifyKeeps
  <2>3. QED
    BY <1>5, <2>1, <2>2, Zenon
<1>10. \A w : Assembled(st, w) => Assembled(st', w)
  BY <1>7, <1>9, Zenon DEF Assembled
<1>11. EventOK(st'.Freshest, quorums)
  BY <1>4, <1>9, Zenon DEF PInv
<1>12. QED
  BY <1>1, <1>4, <1>6, <1>9, <1>10, <1>11, QuietStep, Zenon

\* A block is through validation.
LEMMA PayloadVerifiedKeeps ==
    ASSUME PInv, NEW v \in Values, PayloadVerified(v)
    PROVE  Kept
<1> DEFINE done == [st EXCEPT !.verifying = {r \in @ : r[1] # v}]
           to == [done EXCEPT !.Assemblers[v] = "assembled"]
<1>1. st \in Store /\ quorums' = quorums /\ EventOK(st.Freshest, quorums)
  BY Zenon DEF PInv, Sound, PayloadVerified
<1>2. DOMAIN st.Assemblers \in SUBSET Values /\ st.Assemblers \in [DOMAIN st.Assemblers -> Stages]
  BY <1>1, Fields, MapFacts, Zenon
<1>3. /\ done \in Store /\ done.Staging = st.Staging /\ done.Relevant = st.Relevant
      /\ done.Lowest = st.Lowest /\ done.Pinned = st.Pinned /\ done.Phase = st.Phase
      /\ done.Freshest = st.Freshest /\ done.Assemblers = st.Assemblers
  <2>1. {r \in st.verifying : r[1] # v} \in SUBSET (Values \X (Periods \cup {pinned}))
    BY <1>1, Fields, Zenon
  <2>2. QED
    BY <1>1, <2>1, Zenon DEF Store
<1>4. CASE st' = done
  <2> HIDE DEF done
  <2>1. \A w : Assembled(st, w) => Assembled(st', w)
    BY <1>3, <1>4, Zenon DEF Assembled
  <2>2. QED
    BY <1>1, <1>3, <1>4, <2>1, QuietStep, Zenon
<1>5. CASE st' = Leave
  BY <1>1, <1>5, LeaveStep, Zenon
<1>6. CASE st' = to /\ v \in DOMAIN st.Assemblers
  <2>1. [st.Assemblers EXCEPT ![v] = "assembled"] \in AssemblerMaps
    <3>1. [st.Assemblers EXCEPT ![v] = "assembled"] \in [DOMAIN st.Assemblers -> Stages]
      BY <1>2, Zenon DEF Stages
    <3>2. QED
      BY <1>2, <3>1, MapFacts, Zenon
  <2>2. /\ to \in Store /\ to.Staging = st.Staging /\ to.Relevant = st.Relevant
        /\ to.Lowest = st.Lowest /\ to.Pinned = st.Pinned /\ to.Phase = st.Phase
        /\ to.Freshest = st.Freshest
        /\ to.Assemblers = [st.Assemblers EXCEPT ![v] = "assembled"]
    <3> HIDE DEF done
    <3> QED
      BY <1>3, <2>1, Zenon DEF Store
  <2> HIDE DEF to, done
  <2>3. DOMAIN to.Assemblers = DOMAIN st.Assemblers
    BY <2>2, Zenon
  <2>4. \A w : Assembled(st, w) => Assembled(st', w)
    BY <1>2, <1>6, <2>2, Zenon DEF Assembled
  <2>5. QED
    BY <1>1, <1>6, <2>2, <2>3, <2>4, QuietStep, Zenon
<1>7. st' = done \/ st' = Leave \/ (st' = to /\ v \in DOMAIN st.Assemblers)
  BY Zenon DEF PayloadVerified
<1>8. QED
  BY <1>4, <1>5, <1>6, <1>7, Zenon

\* The player has handled a threshold.
LEMMA HandledStep ==
    ASSUME PInv, quorums' = quorums, NEW s, NEW e,
           s.Phase = "in", s.Freshest = e, Sound(s, quorums), EventOK(e, quorums),
           KeepsPinned(st, s), st.Phase = "before" \/ s = [st EXCEPT !.Freshest = e],
           s.Pinned = st.Pinned,
           st' = handleThresholdEvent(s, e)
    PROVE  Kept
<1>1. CASE st' = Leave
  BY <1>1, LeaveStep, Zenon
<1>2. CASE Handled(s, st', quorums)
  <2>1. Sound(st', quorums) /\ st'.Phase = "in" /\ st'.Freshest = e
    BY <1>2, Zenon DEF Handled
  <2>2. PipelineOK(st')
    BY <2>1, Zenon DEF PipelineOK
  <2>3. PInv'
    BY <2>1, <2>2, Zenon DEF PInv
  <2>4. KeepsPinned(st, st')
    BY <1>2, Zenon DEF Handled, KeepsPinned
  <2>5. StagedKept(st, st')
    <3>1. CASE st.Phase = "before"
      BY <3>1, Beforehand, Zenon
    <3>2. CASE s = [st EXCEPT !.Freshest = e]
      <4>1. st \in Store
        BY Zenon DEF PInv, Sound
      <4>2. s.Period = st.Period /\ s.Staging = st.Staging /\ s.Relevant = st.Relevant
        BY <3>2, <4>1, Zenon DEF Store
      <4>3. QED
        BY <1>2, <4>2, Zenon DEF Handled, StagedKept
    <3>3. QED
      BY <3>1, <3>2, Zenon
  <2>6. QED
    BY <2>3, <2>4, <2>5, Zenon DEF Kept
<1>3. QED
  BY <1>1, <1>2, EventHandled, Zenon

\* A threshold reaches the player, or is kept for the round to come.
LEMMA ThresholdKeeps ==
    ASSUME PInv, NEW e \in Formed, Threshold(e)
    PROVE  Kept
<1> DEFINE seen == [st EXCEPT !.Freshest = e]
<1>1. /\ st \in Store /\ Sound(st, quorums) /\ quorums' = quorums /\ quorums \in Quorums
      /\ e.T = "next" => e.Period < MaxPeriod
  BY Zenon DEF PInv, Sound, Threshold
<1>2. EventOK(e, quorums)
  BY <1>1, FormedOK, Zenon
<1>3. /\ seen \in Store /\ seen.Staging = st.Staging /\ seen.Relevant = st.Relevant
      /\ seen.Lowest = st.Lowest /\ seen.Pinned = st.Pinned /\ seen.Phase = st.Phase
      /\ seen.Freshest = e /\ seen.Assemblers = st.Assemblers
  <2>1. e \in thresholdEvent
    BY <1>2, Zenon DEF EventOK
  <2>2. QED
    BY <1>1, <2>1, Zenon DEF Store
<1>4. \/ st.Phase = "before" /\ st' = seen
      \/ st.Phase = "in" /\ st' = handleThresholdEvent(seen, e)
  BY Zenon DEF Threshold
<1>5. seen = [st EXCEPT !.Freshest = e]
  BY Zenon
<1> HIDE DEF seen
<1>6. \A w : Assembled(st, w) => Assembled(seen, w)
  BY <1>3, Zenon DEF Assembled
<1>7. CASE st' = seen
  BY <1>1, <1>2, <1>3, <1>6, <1>7, QuietStep, Zenon
<1>8. CASE st.Phase = "in" /\ st' = handleThresholdEvent(seen, e)
  <2>1. Sound(seen, quorums) /\ KeepsPinned(st, seen)
    BY <1>1, <1>3, <1>6, QuietKeeps, Zenon
  <2>2. QED
    BY <1>1, <1>2, <1>3, <1>5, <1>8, <2>1, HandledStep, Zenon
<1>9. QED
  BY <1>4, <1>7, <1>8, Zenon

\* The player enters the round.
LEMMA EnterRoundKeeps ==
    ASSUME PInv, EnterRound
    PROVE  Kept
<1> DEFINE in == [st EXCEPT !.Phase = "in"]
           filled == {v \in DOMAIN st.Assemblers : st.Assemblers[v] = "filled"}
<1>1. /\ st \in Store /\ Sound(st, quorums) /\ quorums' = quorums /\ st.Phase = "before"
      /\ EventOK(st.Freshest, quorums) /\ PipelineOK(st)
  BY Zenon DEF PInv, Sound, EnterRound
<1>2. /\ in \in Store /\ in.Staging = st.Staging /\ in.Relevant = st.Relevant
      /\ in.Lowest = st.Lowest /\ in.Pinned = st.Pinned /\ in.Phase = "in"
      /\ in.Freshest = st.Freshest /\ in.Assemblers = st.Assemblers
  BY <1>1, Zenon DEF Store
<1>3. PICK to \in IF filled = {} THEN {in} ELSE UNION {verify(in, v) : v \in filled} :
         st' = handleThresholdEvent(to, st.Freshest)
  BY Zenon DEF EnterRound
<1>4. to = in \/ \E v \in filled : to \in verify(in, v)
  BY <1>3, Zenon
<1>5. filled \in SUBSET Values
  BY <1>1, Fields, MapFacts, Zenon
<1> HIDE DEF in, filled
<1>6. Sound(in, quorums)
  BY <1>1, <1>2, Zenon DEF Sound
<1>7. /\ Sound(to, quorums) /\ to.Phase = "in" /\ to.Freshest = st.Freshest
      /\ to.Pinned = st.Pinned
  <2>1. CASE to = in
    BY <1>2, <1>6, <2>1, Zenon
  <2>2. ASSUME NEW v \in filled, to \in verify(in, v)
        PROVE  /\ Sound(to, quorums) /\ to.Phase = "in" /\ to.Freshest = st.Freshest
               /\ to.Pinned = st.Pinned
    <3>1. v \in Values
      BY <1>5, Zenon
    <3>2. QED
      BY <1>2, <1>6, <2>2, <3>1, VerifyKeeps
  <2>3. QED
    BY <1>4, <2>1, <2>2, Zenon
<1>8. KeepsPinned(st, to)
  BY <1>1, Beforehand, Zenon
<1>9. QED
  BY <1>1, <1>3, <1>7, <1>8, HandledStep, Zenon

\* The timeouts.
LEMMA TimeoutKeeps ==
    ASSUME PInv, SoftTimeout \/ CertTimeout
    PROVE  Kept
<1>1. st \in Store /\ quorums' = quorums /\ EventOK(st.Freshest, quorums)
  BY Zenon DEF PInv, Sound, SoftTimeout, CertTimeout
<1>2. /\ st' \in Store /\ st'.Staging = st.Staging /\ st'.Relevant = st.Relevant
      /\ st'.Lowest = st.Lowest /\ st'.Pinned = st.Pinned /\ st'.Phase = st.Phase
      /\ st'.Freshest = st.Freshest /\ st'.Assemblers = st.Assemblers
  <2>1. CASE SoftTimeout
    <3>1. [st.Frozen EXCEPT ![st.Period] = TRUE] \in [Periods -> BOOLEAN]
      BY <1>1, Fields, Zenon
    <3>2. st' = [st EXCEPT !.Frozen = [st.Frozen EXCEPT ![st.Period] = TRUE], !.Step = cert]
      BY <1>1, <2>1, Zenon DEF SoftTimeout, Store
    <3>3. QED
      BY <1>1, <3>1, <3>2, Zenon DEF Store
  <2>2. CASE CertTimeout
    BY <1>1, <2>2, Zenon DEF CertTimeout, Store
  <2>3. QED
    BY <2>1, <2>2, Zenon
<1>3. \A w : Assembled(st, w) => Assembled(st', w)
  BY <1>2, Zenon DEF Assembled
<1>4. QED
  BY <1>1, <1>2, <1>3, QuietStep, Zenon

LEMMA InitPipeline == Init => PInv
BY EmptyStores, Zenon DEF Init, PInv

LEMMA NextKept == ASSUME PInv, Next PROVE Kept
<1>1. ASSUME NEW p \in Periods, NEW sender \in Senders, NEW v \in Values,
             ProposalVote(p, sender, v)
      PROVE  Kept
  BY <1>1, ProposalVoteKeeps, Zenon
<1>2. ASSUME NEW v \in Values, PayloadPresent(v) \/ PayloadVerified(v) PROVE Kept
  BY <1>2, PayloadPresentKeeps, PayloadVerifiedKeeps, Zenon
<1>3. ASSUME NEW e \in Formed, Threshold(e) PROVE Kept
  BY <1>3, ThresholdKeeps, Zenon
<1>4. CASE SoftTimeout \/ CertTimeout
  BY <1>4, TimeoutKeeps, Zenon
<1>5. CASE EnterRound
  BY <1>5, EnterRoundKeeps, Zenon
<1>6. CASE Interruption
  BY <1>6, LeaveStep, Zenon DEF Interruption
<1>7. QED
  BY <1>1, <1>2, <1>3, <1>4, <1>5, <1>6, Zenon DEF Next

LEMMA PipelineInvariance == Spec => []PInv
<1>1. PInv /\ [Next]_vars => PInv'
  <2>1. ASSUME PInv, Next PROVE PInv'
    BY <2>1, NextKept, Zenon DEF Kept
  <2>2. ASSUME PInv, UNCHANGED vars PROVE PInv'
    BY <2>2, Zenon DEF PInv, vars
  <2>3. QED
    BY <2>1, <2>2, Zenon
<1>2. QED
  BY <1>1, InitPipeline, PTL DEF Spec

-----------------------------------------------------------------------------
(* The theorems.                                                           *)

\* The trackers, the store and the validation contexts of a round keep their
\* types (newProposalStore, proposalTracker, cryptoRequestContext).
THEOREM StoreTypes == Spec => []TypeOK
<1>1. PInv => TypeOK
  <2>1. SUFFICES ASSUME PInv PROVE TypeOK
    BY Zenon
  <2>2. st \in Store /\ quorums \in Quorums
    BY <2>1, Zenon DEF PInv, Sound
  <2>3. /\ st.Assemblers \in [DOMAIN st.Assemblers -> Stages]
        /\ DOMAIN st.Assemblers \in SUBSET Values
    BY <2>2, Fields, MapFacts, Zenon
  <2>4. DOMAIN st.Assemblers \subseteq Values
        /\ Range(st.Assemblers) \subseteq {"empty", "filled", "assembled"}
    BY <2>3, Zenon DEF Range, Stages
  <2>5. QED
    BY <2>2, <2>4, Fields, Zenon DEF TypeOK
<1>2. QED
  BY <1>1, PipelineInvariance, PTL

\* newRound never meets a second pipelined block ("too many assemblers"),
\* whatever proposals of the next round arrive, in whatever order.
THEOREM OneBlockPipelined == Spec => []OnePipelined
<1>1. PInv => OnePipelined
  <2>1. SUFFICES ASSUME PInv, st.Phase = "before"
                 PROVE  Cardinality(DOMAIN st.Assemblers) <= 1
    BY Zenon DEF OnePipelined
  <2>2. DOMAIN st.Assemblers \subseteq {st.Relevant[0]}
    BY <2>1, Zenon DEF PInv, PipelineOK
  <2>3. IsFiniteSet({st.Relevant[0]}) /\ Cardinality({st.Relevant[0]}) = 1
    BY FS_Singleton, Zenon
  <2>4. Cardinality(DOMAIN st.Assemblers) <= Cardinality({st.Relevant[0]})
    BY <2>2, <2>3, FS_Subset, Zenon
  <2>5. QED
    BY <2>3, <2>4, Zenon
<1>2. QED
  BY <1>1, PipelineInvariance, PTL

\* What proposalStore holds relevant in a period is what the tracker of the
\* period reported last, staged value or lowest proposal.
THEOREM RelevantReported == Spec => []RelevantIsReported
<1>1. PInv => RelevantIsReported
  BY Zenon DEF PInv, Sound, RelevantIsReported
<1>2. QED
  BY <1>1, PipelineInvariance, PTL

\* trim never drops the block of the pinned value: it stays assembled until
\* another value is pinned or the round ends.
THEOREM PinnedStays == Spec => PinnedBlockKept
<1>1. PInv /\ [Next]_vars =>
        [st'.Pinned = st.Pinned /\ Assembled(st, st.Pinned)
            => Assembled(st', st.Pinned)]_st
  <2>1. ASSUME PInv, Next, st'.Pinned = st.Pinned, Assembled(st, st.Pinned)
        PROVE  Assembled(st', st.Pinned)
    BY <2>1, NextKept, Zenon DEF Kept, KeepsPinned
  <2>2. QED
    BY <2>1, Zenon DEF vars
<1>2. QED
  BY <1>1, PipelineInvariance, PTL DEF Spec, PinnedBlockKept

\* No later proposal or threshold takes the place of the value that is staged
\* in the period of the player, as proposalStore.handle relies on.
THEOREM StagedStays == Spec => StagedStaysRelevant
<1> DEFINE A == LET p == st.Period IN
                /\ st.Staging[p] # bottom /\ st.Relevant[p] = st.Staging[p]
                /\ st'.Phase = "in" /\ st'.Period = p
                => st'.Relevant[p] = st.Staging[p]
<1>1. PInv /\ [Next]_vars => [A]_st
  <2>1. ASSUME PInv, Next PROVE A
    BY <2>1, NextKept, Zenon DEF Kept, StagedKept
  <2> HIDE DEF A
  <2>2. QED
    BY <2>1, Zenon DEF vars
<1>2. QED
  BY <1>1, PipelineInvariance, PTL DEF Spec, StagedStaysRelevant
=============================================================================
