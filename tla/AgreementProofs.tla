--------------------------- MODULE AgreementProofs ---------------------------
(*****************************************************************************)
(* The theorems about Agreement, for every set of nodes, quorum system and   *)
(* bound: what a vote, a commit or a node update does to SafetyInv, that     *)
(* every action preserves it, and what follows from it.                      *)
(*****************************************************************************)
EXTENDS AgreementInv, TLAPS

\* Time enough for every leaf on a loaded machine.
USE SMTT(30), ZenonT(30)

USE DEF soft, cert, next, late, redo, down

-----------------------------------------------------------------------------
(* What a vote, a commit or a node update that leaves the votes alone does *)
(* to SafetyInv: the quorum arguments.                                     *)

\* The steps, expanded once for the arithmetic of the other proofs.
LEMMA StepFacts ==
    /\ soft \in Steps /\ cert \in Steps /\ NextSteps \subseteq Steps
    /\ soft \notin NextSteps /\ cert \notin NextSteps
    /\ \A s \in Steps : s \in Nat
    /\ 1..MaxStep \subseteq Steps
    /\ FastSteps \cap (1..MaxStep) = {}
BY BoundsAssumption DEF Steps, NextSteps, FastSteps

\* bottom is none of the values.
LEMMA BottomFacts ==
    bottom \in ValuesOrBottom /\ Values \subseteq ValuesOrBottom /\ bottom \notin Values
BY BottomAssumption, Zenon DEF ValuesOrBottom

\* A threshold, once reached, stays reached.
LEMMA ThresholdMono ==
    ASSUME votes \subseteq votes', NEW p, NEW s, NEW v, Threshold(p, s, v)
    PROVE  Threshold(p, s, v)'
BY Zenon DEF Threshold, QuorumsOf

\* So does a quorum of any recovery step.
LEMMA NextMono ==
    ASSUME votes \subseteq votes', NEW p, NEW v, NextT(p, v)
    PROVE  NextT(p, v)'
BY ThresholdMono, Zenon DEF NextT

\* Two soft quorums of a period share a node, which soft-votes once.
LEMMA SoftOnceUnique ==
    ASSUME SoftOnce, NEW p \in Periods, NEW v \in ValuesOrBottom,
           NEW w \in ValuesOrBottom, SoftT(p, v), SoftT(p, w)
    PROVE  v = w
<1>1. PICK Q \in SoftQuorums : \A n \in Q : Voted(n, p, soft, v)
  BY Zenon DEF SoftT, Threshold, QuorumsOf, Voted
<1>2. PICK R \in SoftQuorums : \A n \in R : Voted(n, p, soft, w)
  BY Zenon DEF SoftT, Threshold, QuorumsOf, Voted
<1>3. PICK n \in Honest : n \in Q /\ n \in R
  BY QuorumsAssumption, Zenon
<1>4. QED
  BY <1>1, <1>2, <1>3, Zenon DEF SoftOnce

LEMMA SoftUnique ==
    ASSUME TypeOK, VotesOnce, NEW p \in Periods, NEW v \in ValuesOrBottom,
           NEW w \in ValuesOrBottom, SoftT(p, v), SoftT(p, w)
    PROVE  v = w
<1>1. SoftOnce
  BY Zenon DEF VotesOnce, SoftOnce
<1>2. QED
  BY <1>1, SoftOnceUnique, Zenon

\* A cert threshold has a cert vote behind it, and so a soft threshold.
LEMMA CertIsSoft ==
    ASSUME TypeOK, StagedJustified \/ CertJustified, NEW p \in Periods, NEW v \in ValuesOrBottom,
           CertT(p, v)
    PROVE  SoftT(p, v)
<1>1. PICK Q \in CertQuorums : \A n \in Q : Voted(n, p, cert, v)
  BY DEF CertT, Threshold, QuorumsOf, Voted
<1>2. PICK n \in Honest : n \in Q
  BY QuorumsAssumption, Zenon
<1>3. QED
  BY <1>1, <1>2 DEF StagedJustified, CertJustified

\* A certificate makes its value choosable.
LEMMA CertChoosable ==
    ASSUME NEW p \in Periods, NEW v \in Values, CertT(p, v)
    PROVE  Choosable(p, v)
BY DEF CertT, Threshold, QuorumsOf, Choosable, Voted

\* From the period a value is choosable in, recovery quorums are for it.
LEMMA NextKeeps ==
    ASSUME TypeOK, CertBinds, RecoveryBinds,
           NEW p \in Periods, NEW q \in Periods, p <= q, NEW v \in Values,
           NEW x \in ValuesOrBottom, Choosable(p, v), NextT(q, x)
    PROVE  x = v
<1>1. PICK Q \in CertQuorums :
          \A n \in Q : Voted(n, p, cert, v) \/ NotPast(n, p)
  BY Zenon DEF Choosable
<1>2. PICK s \in NextSteps, R \in NextQuorums :
          \A n \in R : <<n, q, s, x>> \in votes
  BY StepFacts, Zenon DEF NextT, Threshold, QuorumsOf
<1>3. PICK n \in Honest : n \in Q /\ n \in R
  BY QuorumsAssumption, Zenon
<1>4. Voted(n, q, s, x)
  BY <1>2, <1>3, Zenon DEF Voted
<1>5. ~NotPast(n, p)
  BY <1>4, StepFacts DEF NotPast, Periods
<1>6. Voted(n, p, cert, v)
  BY <1>1, <1>3, <1>5, Zenon
<1>7. CASE p = q
  BY <1>4, <1>6, <1>7, BottomFacts, Zenon DEF CertBinds
<1>8. CASE p < q
  BY <1>4, <1>6, <1>8, Zenon DEF RecoveryBinds
<1>9. QED
  BY <1>7, <1>8, BoundsAssumption DEF Periods

-----------------------------------------------------------------------------
(* Steps that issue no vote.                                               *)

\* What holds of votes and of a node state depends on the votes alone.
LEMMA UnchangedVotes ==
    ASSUME votes' = votes
    PROVE  /\ VotesInv => VotesInv'
           /\ \A n, st : NodeInv(n, st) => NodeInv(n, st)'
<1>1. \A n, p, s, v : Voted(n, p, s, v)' <=> Voted(n, p, s, v)
  BY Zenon DEF Voted
<1>2. \A p, s, v : Threshold(p, s, v)' <=> Threshold(p, s, v)
  BY ZenonT(30) DEF Threshold, QuorumsOf
<1>3. \A p, v : /\ SoftT(p, v)' <=> SoftT(p, v)
                /\ CertT(p, v)' <=> CertT(p, v)
                /\ NextT(p, v)' <=> NextT(p, v)
  BY <1>2, Zenon DEF SoftT, CertT, NextT
<1>4. \A p, v : Choosable(p, v)' <=> Choosable(p, v)
  BY <1>1 DEF Choosable, NotPast
<1>5. VotesInv => VotesInv'
  BY <1>1, <1>3, <1>4
  DEF VotesInv, VotesOnce, SoftJustified, StagedJustified, DownIsBottom,
      CertBinds, RecoveryBinds, SoftKeeps
<1>6. \A n, st : NodeInv(n, st) => NodeInv(n, st)'
  BY <1>1, <1>3, <1>4
  DEF NodeInv, VotesBehind, StagedSound, StatusSound, FreshestSound,
      EnteredSound, CertHeld, PinnedHeld
<1>7. QED
  BY <1>5, <1>6, Zenon

\* To show NodesInv', look at the values the nodes have after the step.
LEMMA NodesInvNext ==
    ASSUME \A m \in Honest : \A x :
              /\ x = node'[m] /\ InRound(m)' => NodeInv(m, x)'
              /\ x = disk'[m] => NodeInv(m, x)'
    PROVE  NodesInv'
<1> SUFFICES ASSUME NEW m \in Honest
             PROVE  /\ InRound(m)' => NodeInv(m, node[m])'
                    /\ NodeInv(m, disk[m])'
  BY Zenon DEF NodesInv
<1>1. ASSUME NEW x, x = node'[m], NodeInv(m, x)' PROVE NodeInv(m, node[m])'
  <2>1. VotesBehind(m, node[m])'
    BY <1>1, Zenon DEF NodeInv, VotesBehind
  <2>2. StagedSound(node[m])' /\ StatusSound(node[m])'
    BY <1>1, Zenon DEF NodeInv, StagedSound, StatusSound
  <2>3. FreshestSound(node[m])' /\ EnteredSound(node[m])'
    BY <1>1, Zenon DEF NodeInv, FreshestSound, EnteredSound
  <2>4. CertHeld(m, node[m])' /\ PinnedHeld(m, node[m])'
    BY <1>1, Zenon DEF NodeInv, CertHeld, PinnedHeld
  <2>5. QED
    BY <1>1, <2>1, <2>2, <2>3, <2>4, Zenon DEF NodeInv
<1>2. ASSUME NEW x, x = disk'[m], NodeInv(m, x)' PROVE NodeInv(m, disk[m])'
  <2>1. VotesBehind(m, disk[m])'
    BY <1>2, Zenon DEF NodeInv, VotesBehind
  <2>2. StagedSound(disk[m])' /\ StatusSound(disk[m])'
    BY <1>2, Zenon DEF NodeInv, StagedSound, StatusSound
  <2>3. FreshestSound(disk[m])' /\ EnteredSound(disk[m])'
    BY <1>2, Zenon DEF NodeInv, FreshestSound, EnteredSound
  <2>4. CertHeld(m, disk[m])' /\ PinnedHeld(m, disk[m])'
    BY <1>2, Zenon DEF NodeInv, CertHeld, PinnedHeld
  <2>5. QED
    BY <1>2, <2>1, <2>2, <2>3, <2>4, Zenon DEF NodeInv
<1>3. PICK x, y : x = node'[m] /\ y = disk'[m]
  BY Zenon
<1>4. NodeInv(m, y)' /\ (InRound(m)' => NodeInv(m, x)')
  BY <1>3, Zenon
<1>5. QED
  BY <1>1, <1>2, <1>3, <1>4, Zenon

\* A step that sends no vote keeps every fact about votes.
LEMMA SameVotesKeep ==
    ASSUME votes' = votes,
           \A m \in Honest : \A x :
              /\ x = node'[m] /\ InRound(m)' => NodeInv(m, x)
              /\ x = disk'[m] => NodeInv(m, x)
    PROVE  NodesInv'
<1>1. \A m, x : NodeInv(m, x) => NodeInv(m, x)'
  BY UnchangedVotes, Zenon
<1>2. QED
  BY <1>1, NodesInvNext, Zenon

\* A committed value stays certified as votes are added.
LEMMA LedgerMono ==
    ASSUME votes \subseteq votes', ledger' = ledger, LedgerCertified
    PROVE  LedgerCertified'
BY ThresholdMono, Zenon DEF LedgerCertified

\* A change of memory alone keeps the invariant if the new state is sound.
LEMMA BecomeKeeps ==
    ASSUME SafetyInv, NEW n \in Honest, NEW st \in NodeState,
           Become(n, st), NodeInv(n, st)
    PROVE  SafetyInv'
<1>1. TypeOK'
  BY Zenon DEF SafetyInv, TypeOK, Become
<1>2. VotesInv'
  BY UnchangedVotes, Zenon DEF SafetyInv, Become
<1>3. NodesInv'
  <2> SUFFICES ASSUME NEW m \in Honest, NEW x
               PROVE  /\ x = node'[m] /\ InRound(m)' => NodeInv(m, x)
                      /\ x = disk'[m] => NodeInv(m, x)
    BY SameVotesKeep, Zenon DEF Become
  <2>1. /\ node'[m] = IF m = n THEN st ELSE node[m]
        /\ InRound(m)' = InRound(m) /\ disk' = disk
    BY Zenon DEF SafetyInv, TypeOK, InRound, Become
  <2>2. QED
    BY <2>1, Zenon DEF SafetyInv, NodesInv
<1>4. LedgerCertified'
  BY LedgerMono, Zenon DEF SafetyInv, Become
<1>5. QED
  BY <1>1, <1>2, <1>3, <1>4, Zenon DEF SafetyInv

-----------------------------------------------------------------------------
(* Steps that issue a vote.                                                *)

\* What allows a node, now in state st, to issue the vote.
CanVote(n, st, s, v) ==
    /\ s = soft =>
         /\ st.Step > soft
         /\ \A w \in ValuesOrBottom : ~Voted(n, st.Period, soft, w)
         /\ st.Period > 0 =>
              \/ NextT(st.Period - 1, v)
              \/ NextT(st.Period - 1, bottom)
              \/ \E w \in Values : SoftT(st.Period, w)
    /\ s = cert =>
         st.Step <= cert /\ v = st.Staging[st.Period] /\ v \in st.Assembled
    /\ s \in NextSteps => v = NextVote(st)
    /\ s \in next..MaxStep =>
         /\ s = st.Step /\ ~st.Napping
         /\ \A w \in ValuesOrBottom : ~Voted(n, st.Period, s, w)
    /\ s \in FastSteps => st.Step >= next
    /\ s = late => SoftT(st.Period, v)
    /\ s = down => v = bottom

\* A node that cert-voted a value that may be certified recovers with it.
LEMMA CertVoterNextVotes ==
    ASSUME TypeOK, VotesInv, NEW n \in Honest, NEW st \in NodeState,
           NodeInv(n, st), NEW p \in Periods, NEW v \in Values,
           Voted(n, p, cert, v), p <= st.Period,
           p < st.Period => Choosable(p, v)
    PROVE  NextVote(st) = v
<1>1. st.Period \in Periods /\ st.Staging \in [Periods -> ValuesOrBottom]
      /\ st.NextProposal \in [Periods -> ValuesOrBottom]
      /\ st.Assembled \subseteq Values
  BY Zenon DEF NodeState
<1>2. CASE p = st.Period
  <2>1. st.Staging[st.Period] = v /\ v \in st.Assembled
    BY <1>2, Zenon DEF NodeInv, CertHeld
  <2>2. QED
    BY <2>1, Zenon DEF NextVote, Committable
<1>3. CASE p < st.Period
  <2>1. st.Pinned = v /\ v \in st.Assembled
    BY <1>3, Zenon DEF NodeInv, PinnedHeld
  <2>2. st.Staging[st.Period] # bottom => st.Staging[st.Period] = v
    BY <1>1, <1>3, BottomFacts, Zenon
       DEF NodeInv, StagedSound, VotesInv, SoftKeeps, ValuesOrBottom
  <2>3. st.Period - 1 \in Periods /\ p <= st.Period - 1 /\ st.Period > 0
    BY <1>1, <1>3, BoundsAssumption DEF Periods
  <2>4. \A x \in ValuesOrBottom : NextT(st.Period - 1, x) => x = v
    BY <1>3, <2>3, NextKeeps, Zenon DEF VotesInv
  <2>5. ~st.NextBottom[st.Period - 1]
    BY <2>3, <2>4, BottomFacts, Zenon DEF NodeInv, StatusSound
  <2>6. st.NextProposal[st.Period - 1] # bottom
           => st.NextProposal[st.Period - 1] = v
    BY <1>1, <2>3, <2>4, Zenon DEF NodeInv, StatusSound
  <2>7. st.NextProposal[st.Period - 1] # bottom \/ st.Staging[st.Period] # bottom
    BY <2>3, <2>5, Zenon DEF NodeInv, EnteredSound
  <2>8. CASE st.Staging[st.Period] = v
    BY <2>1, <2>8, Zenon DEF NextVote, Committable
  <2>9. CASE st.Staging[st.Period] = bottom
    <3>1. ~Committable(st, st.Period)
      BY <1>1, <2>9, BottomFacts, Zenon DEF Committable
    <3>2. NextStatus(st) = [Bottom   |-> st.NextBottom[st.Period - 1],
                            Proposal |-> st.NextProposal[st.Period - 1]]
      BY <2>3 DEF NextStatus
    <3>3. NextStatus(st).Proposal = v
      BY <3>2, <2>6, <2>7, <2>9
    <3>4. st.NextBottom[st.Period - 1] = FALSE
      BY <2>3, <2>5, Zenon DEF NodeState
    <3>5. NextStatus(st).Bottom = FALSE
      BY <3>2, <3>4
    <3>6. QED
      BY <3>1, <3>3, <3>5, Zenon DEF NextVote
  <2>10. QED
    BY <2>2, <2>8, <2>9, Zenon
<1>4. QED
  BY <1>1, <1>2, <1>3, BoundsAssumption DEF Periods

\* A node whose own votes do not change keeps its invariant when votes grow.
LEMMA OthersKeep ==
    ASSUME votes \subseteq votes', NEW m, NEW st, NodeInv(m, st),
           \A p, s, x : Voted(m, p, s, x)' => Voted(m, p, s, x),
           \A p \in Periods, w \in Values : Choosable(p, w)' => Choosable(p, w)
    PROVE  NodeInv(m, st)'
<1>1. \A p, v : SoftT(p, v) => SoftT(p, v)'
  BY ThresholdMono, Zenon DEF SoftT
<1>2. \A p, v : CertT(p, v) => CertT(p, v)'
  BY ThresholdMono, Zenon DEF CertT
<1>3. \A p, v : NextT(p, v) => NextT(p, v)'
  BY NextMono, Zenon
<1>4. VotesBehind(m, st)' /\ CertHeld(m, st)' /\ PinnedHeld(m, st)'
  BY Zenon DEF NodeInv, VotesBehind, CertHeld, PinnedHeld
<1>5. StagedSound(st)' /\ StatusSound(st)'
  BY <1>1, <1>3, Zenon DEF NodeInv, StagedSound, StatusSound
<1>6. FreshestSound(st)' /\ EnteredSound(st)'
  BY <1>2, Zenon DEF NodeInv, FreshestSound, EnteredSound
<1>7. QED
  BY <1>4, <1>5, <1>6, Zenon DEF NodeInv

\* The node that votes has issued nothing later than its state.
LEMMA CertVoteInTime ==
    ASSUME NEW n \in Honest, NEW st \in NodeState, VotesBehind(n, st),
           st.Step <= cert
    PROVE  NotPast(n, st.Period)
<1> SUFFICES ASSUME NEW q \in Periods, NEW s \in Steps, NEW x \in ValuesOrBottom,
                    Voted(n, q, s, x)
             PROVE  q < st.Period \/ (q = st.Period /\ s \in {soft, cert})
  BY Zenon DEF NotPast
<1>1. st.Period \in Periods /\ st.Step \in 1..MaxStep
  BY Zenon DEF NodeState
<1>2. q <= st.Period
  BY Zenon DEF VotesBehind
<1>3. CASE q = st.Period
  <2>1. s \in next..MaxStep => s < st.Step \/ s = st.Step
    BY <1>3, Zenon DEF VotesBehind
  <2>2. s \in FastSteps => st.Step >= next
    BY <1>3, Zenon DEF VotesBehind
  <2>3. s \in {soft, cert}
    BY <1>1, <2>1, <2>2, BoundsAssumption DEF Steps, NextSteps
  <2>4. QED
    BY <1>3, <2>3, Zenon
<1>4. QED
  BY <1>1, <1>2, <1>3, BoundsAssumption DEF Periods

\* Issuing a vote makes no value choosable that was not.
LEMMA ChoosableShrinks ==
    ASSUME NEW n \in Honest, NEW st \in NodeState, NEW s \in Steps, NEW v,
           VotesBehind(n, st), s = cert => st.Step <= cert,
           votes' = votes \cup {<<n, st.Period, s, v>>},
           NEW p \in Periods, NEW w \in Values, Choosable(p, w)'
    PROVE  Choosable(p, w)
<1>1. PICK Q \in CertQuorums :
          \A m \in Q : Voted(m, p, cert, w)' \/ NotPast(m, p)'
  BY Zenon DEF Choosable
<1>2. SUFFICES ASSUME NEW m \in Q PROVE Voted(m, p, cert, w) \/ NotPast(m, p)
  BY Zenon DEF Choosable
<1>3. CASE NotPast(m, p)'
  BY <1>3, Zenon DEF NotPast, Voted
<1>4. CASE Voted(m, p, cert, w)'
  <2>1. CASE Voted(m, p, cert, w)
    BY <2>1, Zenon
  <2>2. CASE m = n /\ p = st.Period /\ cert = s
    BY <2>2, CertVoteInTime, Zenon
  <2>3. QED
    BY <1>4, <2>1, <2>2, Zenon DEF Voted
<1>5. QED
  BY <1>1, <1>3, <1>4, Zenon

\* The votes after a node has issued one it may issue.
LEMMA VoteKeepsVotes ==
    ASSUME TypeOK, VotesInv, NEW n \in Honest, NEW st \in NodeState,
           NEW s \in Steps, NEW v \in ValuesOrBottom,
           NodeInv(n, st), CanVote(n, st, s, v),
           votes' = votes \cup {<<n, st.Period, s, v>>}
    PROVE  VotesInv'
<1> DEFINE P == st.Period
<1>1. P \in Periods /\ st.Step \in 1..MaxStep /\ st.Assembled \subseteq Values
      /\ st.Staging \in [Periods -> ValuesOrBottom]
  BY Zenon DEF NodeState
<1>2. \A m, p, t, x : Voted(m, p, t, x)' <=>
          Voted(m, p, t, x) \/ (m = n /\ p = P /\ t = s /\ x = v)
  BY Zenon DEF Voted
<1>3. \A p, x : SoftT(p, x) => SoftT(p, x)'
  BY ThresholdMono, Zenon DEF SoftT
<1>4. \A p, x : NextT(p, x) => NextT(p, x)'
  BY NextMono, Zenon
<1>5. \A p \in Periods, w \in Values : Choosable(p, w)' => Choosable(p, w)
  <2>1. VotesBehind(n, st) /\ (s = cert => st.Step <= cert)
    BY Zenon DEF NodeInv, CanVote
  <2>2. QED
    BY <2>1, ChoosableShrinks, Zenon
<1>6. s = cert => NotPast(n, P)
  BY CertVoteInTime, Zenon DEF NodeInv, CanVote
<1>7. s \in NextSteps => s # soft /\ s # cert
  BY StepFacts, Zenon
<1>8. VotesOnce'
  <2>1. s \in {soft} \cup (next..MaxStep) =>
           \A w \in ValuesOrBottom : ~Voted(n, P, s, w)
    BY Zenon DEF CanVote
  <2>2. QED
    BY <1>2, <2>1 DEF VotesInv, VotesOnce
<1>9. SoftJustified'
  <2> SUFFICES ASSUME NEW m \in Honest, NEW p \in Periods, NEW x \in ValuesOrBottom,
                      Voted(m, p, soft, x)', p > 0
               PROVE  \/ NextT(p - 1, x)' \/ NextT(p - 1, bottom)'
                      \/ \E w \in Values : SoftT(p, w)'
    BY Zenon DEF SoftJustified
  <2>1. \/ NextT(p - 1, x) \/ NextT(p - 1, bottom)
        \/ \E w \in Values : SoftT(p, w)
    <3>1. CASE Voted(m, p, soft, x)
      BY <3>1, Zenon DEF VotesInv, SoftJustified
    <3>2. CASE m = n /\ p = P /\ soft = s /\ x = v
      BY <3>2, Zenon DEF CanVote
    <3>3. QED
      BY <1>2, <3>1, <3>2, Zenon
  <2>2. QED
    BY <1>3, <1>4, <2>1, Zenon
<1>10. StagedJustified'
  <2>1. s \in {cert, late} => SoftT(P, v)
    BY <1>1, BottomFacts DEF CanVote, NodeInv, StagedSound
  <2>2. QED
    BY <1>2, <1>3, <2>1 DEF VotesInv, StagedJustified
<1>11. DownIsBottom'
  BY <1>2 DEF VotesInv, DownIsBottom, CanVote
<1>12. CertBinds'
  <2> SUFFICES ASSUME NEW m \in Honest, NEW p \in Periods, NEW t \in NextSteps,
                      NEW w \in ValuesOrBottom, NEW x \in ValuesOrBottom,
                      Voted(m, p, cert, w)', Voted(m, p, t, x)'
               PROVE  x = w
    BY Zenon DEF CertBinds
  <2>1. CASE Voted(m, p, cert, w) /\ Voted(m, p, t, x)
    BY <2>1, Zenon DEF VotesInv, CertBinds
  <2>2. CASE m = n /\ p = P /\ cert = s /\ Voted(m, p, t, x)
    BY <1>1, <1>6, <2>2, StepFacts DEF NotPast, Periods
  <2>3. CASE m = n /\ p = P /\ t = s /\ x = v /\ Voted(m, p, cert, w)
    <3>1. SoftT(p, w)
      BY <2>3 DEF VotesInv, StagedJustified
    <3>2. w \in Values
      BY <3>1, Zenon DEF SoftT, Threshold, ValuesOrBottom
    <3>3. NextVote(st) = w
      BY <1>1, <2>3, <3>2, CertVoterNextVotes, BoundsAssumption DEF Periods
    <3>4. QED
      BY <2>3, <3>3, Zenon DEF CanVote
  <2>4. QED
    BY <1>2, <2>1, <2>2, <2>3, StepFacts, Zenon
<1>13. RecoveryBinds'
  <2> SUFFICES ASSUME NEW m \in Honest, NEW p \in Periods, NEW q \in Periods,
                      NEW t \in NextSteps, NEW w \in Values, NEW x \in ValuesOrBottom,
                      Choosable(p, w)', Voted(m, p, cert, w)', p < q, Voted(m, q, t, x)'
               PROVE  x = w
    BY DEF RecoveryBinds
  <2>1. Choosable(p, w)
    BY <1>5, Zenon
  <2>2. CASE Voted(m, p, cert, w) /\ Voted(m, q, t, x)
    BY <2>1, <2>2, Zenon DEF VotesInv, RecoveryBinds
  <2>3. CASE m = n /\ p = P /\ cert = s /\ Voted(m, q, t, x)
    BY <1>1, <1>6, <2>3, StepFacts DEF NotPast, Periods
  <2>4. CASE m = n /\ q = P /\ t = s /\ x = v /\ Voted(m, p, cert, w)
    <3>1. NextVote(st) = w
      BY <1>1, <2>1, <2>4, CertVoterNextVotes, BoundsAssumption DEF Periods
    <3>2. QED
      BY <2>4, <3>1, Zenon DEF CanVote
  <2>5. QED
    BY <1>2, <2>2, <2>3, <2>4, StepFacts, Zenon
<1>14. SoftKeeps'
  <2> SUFFICES ASSUME NEW p \in Periods, NEW q \in Periods, NEW x \in Values,
                      NEW w \in Values, Choosable(p, x)', p < q, SoftT(q, w)'
               PROVE  w = x
    BY Zenon DEF SoftKeeps
  <2>1. Choosable(p, x)
    BY <1>5, Zenon
  <2>2. \A y \in Values : SoftT(q, y) => y = x
    BY <2>1, Zenon DEF VotesInv, SoftKeeps
  <2>3. PICK Q \in SoftQuorums : \A m \in Q : Voted(m, q, soft, w)'
    BY Zenon DEF SoftT, Threshold, QuorumsOf, Voted
  <2>4. CASE \E y \in Values : SoftT(q, y)
    <3>1. PICK y \in Values : SoftT(q, y)
      BY <2>4, Zenon
    <3>2. PICK R \in SoftQuorums : \A m \in R : Voted(m, q, soft, y)
      BY <3>1, Zenon DEF SoftT, Threshold, QuorumsOf, Voted
    <3>3. PICK m \in Honest : m \in Q /\ m \in R
      BY QuorumsAssumption, Zenon
    <3>4. Voted(m, q, soft, y)' /\ Voted(m, q, soft, w)'
      BY <1>2, <2>3, <3>2, <3>3, Zenon
    <3>5. y = w
      BY <1>8, <3>4, BottomFacts, Zenon DEF VotesOnce
    <3>6. QED
      BY <2>2, <3>1, <3>5, Zenon
  <2>5. CASE ~\E y \in Values : SoftT(q, y)
    <3>1. PICK m \in Honest : m \in Q
      BY QuorumsAssumption, Zenon
    <3>2. Voted(m, q, soft, w)'
      BY <2>3, <3>1, Zenon
    <3>3. q > 0 /\ q - 1 \in Periods /\ p <= q - 1
      BY BoundsAssumption DEF Periods
    <3>4. NextT(q - 1, w) \/ NextT(q - 1, bottom)
      <4>1. CASE Voted(m, q, soft, w)
        BY <2>5, <3>3, <4>1, BottomFacts, Zenon DEF VotesInv, SoftJustified
      <4>2. CASE m = n /\ q = P /\ soft = s /\ w = v
        BY <2>5, <3>3, <4>2, Zenon DEF CanVote
      <4>3. QED
        BY <1>2, <3>2, <4>1, <4>2, Zenon
    <3>5. \A y \in ValuesOrBottom : NextT(q - 1, y) => y = x
      BY <2>1, <3>3, NextKeeps, Zenon DEF VotesInv
    <3>6. QED
      BY <3>4, <3>5, BottomFacts, Zenon
  <2>6. QED
    BY <2>4, <2>5, Zenon
<1>15. QED
  BY <1>8, <1>9, <1>10, <1>11, <1>12, <1>13, <1>14, Zenon DEF VotesInv

\* The state a vote is cast from stays consistent with the vote.
LEMMA VoterKeeps ==
    ASSUME NEW n \in Honest, NEW st \in NodeState,
           NEW s \in Steps, NEW v \in ValuesOrBottom,
           NodeInv(n, st), CanVote(n, st, s, v),
           votes' = votes \cup {<<n, st.Period, s, v>>}
    PROVE  NodeInv(n, st)'
<1>1. \A m, p, t, x : Voted(m, p, t, x)' <=>
          Voted(m, p, t, x) \/ (m = n /\ p = st.Period /\ t = s /\ x = v)
  BY Zenon DEF Voted
<1>2. \A p, x : SoftT(p, x) => SoftT(p, x)'
  BY ThresholdMono, Zenon DEF SoftT
<1>3. \A p, x : CertT(p, x) => CertT(p, x)'
  BY ThresholdMono, Zenon DEF CertT
<1>4. \A p, x : NextT(p, x) => NextT(p, x)'
  BY NextMono, Zenon
<1>5. \A p \in Periods, w \in Values : Choosable(p, w)' => Choosable(p, w)
  <2>1. VotesBehind(n, st) /\ (s = cert => st.Step <= cert)
    BY Zenon DEF NodeInv, CanVote
  <2>2. QED
    BY <2>1, ChoosableShrinks, Zenon
<1>6. st.Period \in Periods
  BY Zenon DEF NodeState
<1>7. VotesBehind(n, st)'
  <2>1. VotesBehind(n, st)
    BY Zenon DEF NodeInv
  <2>2. /\ s = soft => st.Step > soft
        /\ s \in next..MaxStep => s = st.Step /\ ~st.Napping
        /\ s \in FastSteps => st.Step >= next
        /\ st.Period <= st.Period
    BY <1>6, BoundsAssumption DEF CanVote, Periods
  <2>3. QED
    BY <1>1, <2>1, <2>2, Zenon DEF VotesBehind
<1>8. StagedSound(st)' /\ StatusSound(st)'
  BY <1>2, <1>4, Zenon DEF NodeInv, StagedSound, StatusSound
<1>9. FreshestSound(st)' /\ EnteredSound(st)'
  BY <1>3, Zenon DEF NodeInv, FreshestSound, EnteredSound
<1>10. CertHeld(n, st)'
  BY <1>1, Zenon DEF NodeInv, CertHeld, CanVote
<1>11. PinnedHeld(n, st)'
  <2>1. PinnedHeld(n, st) /\ ~(st.Period < st.Period)
    BY <1>6, BoundsAssumption DEF NodeInv, Periods
  <2>2. QED
    BY <1>1, <1>5, <2>1, Zenon DEF PinnedHeld
<1>12. QED
  BY <1>7, <1>8, <1>9, <1>10, <1>11, Zenon DEF NodeInv

\* A vote that is persisted first and is sound keeps the invariant.
LEMMA VoteSentKeeps ==
    ASSUME SafetyInv, NEW n \in Honest, NEW st \in NodeState,
           NEW s \in Steps, NEW v \in ValuesOrBottom,
           NodeInv(n, st), CanVote(n, st, s, v),
           PersistAndVote(n, st, s, v)
    PROVE  SafetyInv'
<1>1. votes' = votes \cup {<<n, st.Period, s, v>>} /\ ledger' = ledger
  BY Zenon DEF PersistAndVote
<1>2. st.Period \in Periods
  BY Zenon DEF NodeState
<1>3. TypeOK'
  BY <1>2 DEF SafetyInv, TypeOK, PersistAndVote
<1>4. VotesInv'
  BY <1>1, VoteKeepsVotes, Zenon DEF SafetyInv
<1>5. \A p \in Periods, w \in Values : Choosable(p, w)' => Choosable(p, w)
  <2>1. VotesBehind(n, st) /\ (s = cert => st.Step <= cert)
    BY Zenon DEF NodeInv, CanVote
  <2>2. QED
    BY <1>1, <2>1, ChoosableShrinks, Zenon
<1>6. NodesInv'
  <2> SUFFICES ASSUME NEW m \in Honest, NEW x
               PROVE  /\ x = node'[m] /\ InRound(m)' => NodeInv(m, x)'
                      /\ x = disk'[m] => NodeInv(m, x)'
    BY NodesInvNext, Zenon
  <2>1. /\ node'[m] = IF m = n THEN st ELSE node[m]
        /\ disk'[m] = IF m = n THEN st ELSE disk[m]
        /\ InRound(m)' = InRound(m)
    BY Zenon DEF SafetyInv, TypeOK, PersistAndVote, InRound
  <2>2. CASE m = n
    BY <1>1, <2>1, <2>2, VoterKeeps, Zenon
  <2>3. CASE m # n
    <3>1. \A p, t, z : Voted(m, p, t, z)' => Voted(m, p, t, z)
      BY <1>1, <2>3, Zenon DEF Voted
    <3>2. votes \subseteq votes'
      BY <1>1, Zenon
    <3>3. NodeInv(m, x) => NodeInv(m, x)'
      BY <1>5, <3>1, <3>2, OthersKeep, Zenon
    <3>4. /\ x = node'[m] /\ InRound(m)' => NodeInv(m, x)
          /\ x = disk'[m] => NodeInv(m, x)
      BY <2>1, <2>3, Zenon DEF SafetyInv, NodesInv
    <3>5. QED
      BY <3>3, <3>4, Zenon
  <2>4. QED
    BY <2>2, <2>3, Zenon
<1>7. LedgerCertified'
  BY <1>1, LedgerMono, Zenon DEF SafetyInv
<1>8. QED
  BY <1>3, <1>4, <1>6, <1>7, Zenon DEF SafetyInv

\* So is an attest action, whether or not the disk fails.
LEMMA AttestKeeps ==
    ASSUME SafetyInv, NEW n \in Honest, NEW st \in NodeState,
           NEW s \in Steps, NEW v \in ValuesOrBottom,
           NodeInv(n, st), CanVote(n, st, s, v), Attest(n, st, s, v)
    PROVE  SafetyInv'
<1>1. CASE PersistAndVote(n, st, s, v)
  BY <1>1, VoteSentKeeps, Zenon
<1>2. CASE Become(n, st)
  BY <1>2, BecomeKeeps, Zenon
<1>3. QED
  BY <1>1, <1>2, Zenon DEF Attest

\* The block handed to the ledger has a certificate.
LEMMA EnsureKeeps ==
    ASSUME SafetyInv, NEW n \in Honest, NEW v \in Values, NEW p \in Periods,
           CertT(p, v), Ensure(n, v)
    PROVE  SafetyInv'
<1>1. newPlayer \in NodeState
  BY BoundsAssumption, BottomFacts
     DEF newPlayer, NodeState, noEvent, thresholdEvent, Periods
<1>2. TypeOK'
  BY <1>1, BottomFacts, Zenon DEF SafetyInv, TypeOK, Ensure
<1>3. VotesInv'
  BY UnchangedVotes, Zenon DEF SafetyInv, Ensure
<1>4. NodesInv'
  <2> SUFFICES ASSUME NEW m \in Honest, NEW x
               PROVE  /\ x = node'[m] /\ InRound(m)' => NodeInv(m, x)
                      /\ x = disk'[m] => NodeInv(m, x)
    BY SameVotesKeep, Zenon DEF Ensure
  <2>1. /\ m # n => node'[m] = node[m] /\ InRound(m)' = InRound(m)
        /\ m = n => ~InRound(m)'
        /\ disk'[m] = disk[m]
    BY BottomFacts, Zenon DEF SafetyInv, TypeOK, Ensure, InRound
  <2>2. QED
    BY <2>1, Zenon DEF SafetyInv, NodesInv
<1>5. LedgerCertified'
  <2>1. \A q, w : Threshold(q, cert, w)' <=> Threshold(q, cert, w)
    BY Zenon DEF Threshold, QuorumsOf, Ensure
  <2>2. QED
    BY <2>1, Zenon DEF SafetyInv, TypeOK, LedgerCertified, Ensure, CertT
<1>6. QED
  BY <1>2, <1>3, <1>4, <1>5, Zenon DEF SafetyInv

-----------------------------------------------------------------------------
(* What the effects of the handlers do to the state of a node.             *)

\* The fields of a typed node state have their types.
LEMMA NodeFields ==
    ASSUME NEW st \in NodeState
    PROVE  /\ st.Period \in Periods /\ st.Step \in 1..MaxStep
           /\ st.Napping \in BOOLEAN
           /\ st.Staging \in [Periods -> ValuesOrBottom]
           /\ st.NextBottom \in [Periods -> BOOLEAN]
           /\ st.NextProposal \in [Periods -> ValuesOrBottom]
           /\ st.Freshest \in thresholdEvent
           /\ st.Pinned \in ValuesOrBottom
           /\ st.Assembled \subseteq Values /\ st.Loose \in BOOLEAN
BY Zenon DEF NodeState

LEMMA PreviousPeriod ==
    ASSUME NEW st \in NodeState
    PROVE  st.Period > 0 => st.Period - 1 \in Periods
BY NodeFields, BoundsAssumption DEF Periods

\* A later step, or the same one after the nap.
LEMMA MoveStep ==
    ASSUME NEW n \in Honest, NEW st \in NodeState, NodeInv(n, st),
           NEW k \in st.Step..MaxStep, NEW b \in BOOLEAN,
           k = st.Step => (b => st.Napping),
           NEW to, to = [st EXCEPT !.Step = k, !.Napping = b]
    PROVE  to \in NodeState /\ NodeInv(n, to)
<1>0. k \in 1..MaxStep
  BY NodeFields, BoundsAssumption
<1>1. to \in NodeState
  BY <1>0, Zenon DEF NodeState
<1>2. /\ to.Period = st.Period /\ to.Step = k /\ to.Napping = b
      /\ to.Staging = st.Staging /\ to.NextBottom = st.NextBottom
      /\ to.NextProposal = st.NextProposal /\ to.Freshest = st.Freshest
      /\ to.Pinned = st.Pinned /\ to.Assembled = st.Assembled /\ to.Loose = st.Loose
  BY Zenon DEF NodeState
<1>3. VotesBehind(n, to)
  BY <1>2, NodeFields, BoundsAssumption, StepFacts DEF NodeInv, VotesBehind
<1>4. StagedSound(to) /\ StatusSound(to) /\ FreshestSound(to) /\ EnteredSound(to)
  BY <1>2, Zenon DEF NodeInv, StagedSound, StatusSound, FreshestSound, EnteredSound
<1>5. CertHeld(n, to) /\ PinnedHeld(n, to)
  BY <1>2, Zenon DEF NodeInv, CertHeld, PinnedHeld
<1>6. QED
  BY <1>1, <1>2, <1>3, <1>4, <1>5, Zenon DEF NodeInv

\* Another set of blocks that still has the pinned and the staged one.
LEMMA MoveBlocks ==
    ASSUME NEW n \in Honest, NEW st \in NodeState, NodeInv(n, st),
           NEW kept \in SUBSET Values,
           st.Assembled \cap {st.Pinned, st.Staging[st.Period]} \subseteq kept,
           NEW to, to = [st EXCEPT !.Assembled = kept]
    PROVE  to \in NodeState /\ NodeInv(n, to)
<1>1. to \in NodeState
  BY NodeFields, Zenon DEF NodeState
<1>2. /\ to.Period = st.Period /\ to.Step = st.Step /\ to.Napping = st.Napping
      /\ to.Staging = st.Staging /\ to.NextBottom = st.NextBottom
      /\ to.NextProposal = st.NextProposal /\ to.Freshest = st.Freshest
      /\ to.Pinned = st.Pinned /\ to.Assembled = kept /\ to.Loose = st.Loose
  BY Zenon DEF NodeState
<1>3. VotesBehind(n, to)
  BY <1>2 DEF NodeInv, VotesBehind
<1>4. StagedSound(to) /\ StatusSound(to) /\ FreshestSound(to) /\ EnteredSound(to)
  BY <1>2, Zenon DEF NodeInv, StagedSound, StatusSound, FreshestSound, EnteredSound
<1>5. CertHeld(n, to) /\ PinnedHeld(n, to)
  BY <1>2 DEF NodeInv, CertHeld, PinnedHeld
<1>6. QED
  BY <1>1, <1>2, <1>3, <1>4, <1>5, Zenon DEF NodeInv

\* What proposalStore.trim leaves is held, and includes what it must keep.
Leaves(kept, st, keep) == kept \in SUBSET Values /\ st.Assembled \cap keep \subseteq kept

LEMMA TrimsFacts ==
    ASSUME NEW n \in Honest, NEW st \in NodeState, NEW keep,
           NEW kept \in Trims(n, st, keep)
    PROVE  Leaves(kept, st, keep)
BY NodeFields, Zenon DEF Trims, Leaves

\* Only what is staged changes.
StagedIn(to, st, e) ==
    /\ to.Period = st.Period /\ to.Step = st.Step /\ to.Napping = st.Napping
    /\ to.Staging = [st.Staging EXCEPT ![e.Period] = e.Proposal]
    /\ to.Pinned = st.Pinned /\ to.Assembled = st.Assembled

\* Staging a value changes that field only.
Stages(to, st, e) ==
    /\ to.Period = st.Period /\ to.Step = st.Step /\ to.Napping = st.Napping
    /\ to.Staging = [st.Staging EXCEPT ![e.Period] = e.Proposal]
    /\ to.NextBottom = st.NextBottom
    /\ to.NextProposal = st.NextProposal /\ to.Freshest = st.Freshest
    /\ to.Pinned = st.Pinned /\ to.Assembled = st.Assembled
    /\ to.Loose = st.Loose

LEMMA StageFacts ==
    ASSUME NEW st \in NodeState, NEW e, e.Period \in Periods, e.Proposal \in Values,
           NEW to, to = Stage(st, e)
    PROVE  to \in NodeState /\ Stages(to, st, e)
<1>1. [st.Staging EXCEPT ![e.Period] = e.Proposal] \in [Periods -> ValuesOrBottom]
  BY NodeFields, BottomFacts, Zenon
<1>2. to \in NodeState
  BY <1>1, NodeFields, Zenon DEF NodeState, Stage
<1>3. Stages(to, st, e)
  BY <1>2, ZenonT(30) DEF NodeState, Stage, Stages
<1>4. QED
  BY <1>2, <1>3, Zenon

\* A value with a soft threshold is staged.
LEMMA StageKeeps ==
    ASSUME TypeOK, VotesInv, NEW n \in Honest, NEW st \in NodeState,
           NodeInv(n, st), NEW e, e.Period \in Periods, e.Proposal \in Values,
           SoftT(e.Period, e.Proposal), NEW to, to = Stage(st, e)
    PROVE  to \in NodeState /\ NodeInv(n, to) /\ StagedIn(to, st, e)
<1>1. to \in NodeState /\ Stages(to, st, e)
  BY StageFacts, Zenon
<1>2. /\ to.Period = st.Period /\ to.Step = st.Step /\ to.Napping = st.Napping
      /\ to.Staging = [st.Staging EXCEPT ![e.Period] = e.Proposal]
      /\ to.NextBottom = st.NextBottom
      /\ to.NextProposal = st.NextProposal /\ to.Freshest = st.Freshest
      /\ to.Pinned = st.Pinned /\ to.Assembled = st.Assembled /\ to.Loose = st.Loose
  BY <1>1, Zenon DEF Stages
<1>3. \A p \in Periods :
         to.Staging[p] = IF p = e.Period THEN e.Proposal ELSE st.Staging[p]
  BY <1>2, NodeFields
<1>4. VotesBehind(n, to)
  BY <1>2 DEF NodeInv, VotesBehind
<1>5. StagedSound(to)
  BY <1>3, Zenon DEF NodeInv, StagedSound
<1>6. StatusSound(to) /\ FreshestSound(to)
  BY <1>2, Zenon DEF NodeInv, StatusSound, FreshestSound
<1>7. EnteredSound(to)
  BY <1>2, <1>3, NodeFields, BottomFacts DEF NodeInv, EnteredSound
<1>8. CertHeld(n, to)
  <2> SUFFICES ASSUME NEW v \in Values, Voted(n, to.Period, cert, v)
               PROVE  to.Staging[to.Period] = v /\ v \in to.Assembled
    BY Zenon DEF CertHeld
  <2>1. st.Staging[st.Period] = v /\ v \in st.Assembled
    BY <1>2, Zenon DEF NodeInv, CertHeld
  <2>2. SoftT(st.Period, v)
    BY <1>2, NodeFields, BottomFacts DEF VotesInv, StagedJustified
  <2>3. st.Period = e.Period => v = e.Proposal
    BY <2>2, NodeFields, BottomFacts, SoftUnique, Zenon DEF VotesInv
  <2>4. QED
    BY <1>2, <1>3, <2>1, <2>3, NodeFields
<1>9. PinnedHeld(n, to)
  BY <1>2, Zenon DEF NodeInv, PinnedHeld
<1>10. StagedIn(to, st, e)
  BY <1>2, Zenon DEF StagedIn
<1>11. QED
  BY <1>1, <1>2, <1>4, <1>5, <1>6, <1>7, <1>8, <1>9, <1>10, Zenon DEF NodeInv

\* Remembering a threshold changes nothing else.
Caches(to, st, e) ==
    /\ to.NextBottom = IF e.T = "next" /\ e.Proposal = bottom
                       THEN [st.NextBottom EXCEPT ![e.Period] = TRUE] ELSE st.NextBottom
    /\ to.NextProposal = IF e.T = "next" /\ e.Proposal # bottom
                         THEN [st.NextProposal EXCEPT ![e.Period] = e.Proposal]
                         ELSE st.NextProposal
    /\ to.Freshest = IF fresherThan(e, st.Freshest) THEN e ELSE st.Freshest
    /\ to.Period = st.Period /\ to.Step = st.Step
    /\ to.Napping = st.Napping /\ to.Staging = st.Staging
    /\ to.Pinned = st.Pinned /\ to.Assembled = st.Assembled
    /\ to.Loose = st.Loose

LEMMA ObserveFacts ==
    ASSUME NEW st \in NodeState, NEW e \in thresholdEvent, NEW to, to = Observe(st, e)
    PROVE  to \in NodeState /\ Caches(to, st, e)
<1>0. e.Period \in Periods /\ e.Proposal \in ValuesOrBottom
  BY Zenon DEF thresholdEvent
<1> DEFINE nb == IF e.T = "next" /\ e.Proposal = bottom
                 THEN [st.NextBottom EXCEPT ![e.Period] = TRUE] ELSE st.NextBottom
           np == IF e.T = "next" /\ e.Proposal # bottom
                 THEN [st.NextProposal EXCEPT ![e.Period] = e.Proposal]
                 ELSE st.NextProposal
           fr == IF fresherThan(e, st.Freshest) THEN e ELSE st.Freshest
<1>1. to = [st EXCEPT !.NextBottom = nb, !.NextProposal = np, !.Freshest = fr]
  BY ZenonT(30) DEF Observe, NodeState
<1>2. /\ nb \in [Periods -> BOOLEAN] /\ np \in [Periods -> ValuesOrBottom]
      /\ fr \in thresholdEvent
  BY <1>0, NodeFields, Zenon
<1> HIDE DEF nb, np, fr
<1>3. to \in NodeState
  BY <1>1, <1>2, ZenonT(30) DEF NodeState
<1>4. /\ to.Period = st.Period /\ to.Step = st.Step /\ to.Napping = st.Napping
      /\ to.Staging = st.Staging /\ to.NextBottom = nb
      /\ to.NextProposal = np /\ to.Freshest = fr
      /\ to.Pinned = st.Pinned /\ to.Assembled = st.Assembled /\ to.Loose = st.Loose
  BY <1>1 DEF NodeState
<1>5. QED
  BY <1>3, <1>4, Zenon DEF Caches, nb, np, fr

\* A threshold that was reached is remembered.
LEMMA ObserveKeeps ==
    ASSUME NEW n \in Honest, NEW st \in NodeState, NodeInv(n, st),
           NEW e \in thresholdEvent,
           e.T = "next" => NextT(e.Period, e.Proposal),
           e.T = "cert" => CertT(e.Period, e.Proposal),
           NEW to, to = Observe(st, e)
    PROVE  /\ to \in NodeState /\ NodeInv(n, to)
           /\ to.Period = st.Period /\ to.Step = st.Step
           /\ to.Napping = st.Napping /\ to.Staging = st.Staging
           /\ to.Pinned = st.Pinned /\ to.Assembled = st.Assembled
           /\ e.T = "next" => \/ to.NextBottom[e.Period]
                              \/ to.NextProposal[e.Period] # bottom
<1>0. e.Period \in Periods /\ e.Proposal \in ValuesOrBottom
  BY Zenon DEF thresholdEvent
<1> DEFINE nb == IF e.T = "next" /\ e.Proposal = bottom
                 THEN [st.NextBottom EXCEPT ![e.Period] = TRUE] ELSE st.NextBottom
           np == IF e.T = "next" /\ e.Proposal # bottom
                 THEN [st.NextProposal EXCEPT ![e.Period] = e.Proposal]
                 ELSE st.NextProposal
           fr == IF fresherThan(e, st.Freshest) THEN e ELSE st.Freshest
<1>3. to \in NodeState /\ Caches(to, st, e)
  BY ObserveFacts, Zenon
<1>4. /\ to.Period = st.Period /\ to.Step = st.Step /\ to.Napping = st.Napping
      /\ to.Staging = st.Staging /\ to.NextBottom = nb
      /\ to.NextProposal = np /\ to.Freshest = fr
      /\ to.Pinned = st.Pinned /\ to.Assembled = st.Assembled /\ to.Loose = st.Loose
  BY <1>3, Zenon DEF Caches
<1>5. \A p \in Periods :
         /\ st.NextBottom[p] => nb[p]
         /\ nb[p] => st.NextBottom[p] \/ (e.T = "next" /\ p = e.Period /\ e.Proposal = bottom)
         /\ e.T = "next" /\ p = e.Period /\ e.Proposal = bottom => nb[p]
  BY <1>0, NodeFields, Zenon
<1>6. \A p \in Periods :
         np[p] = IF e.T = "next" /\ p = e.Period /\ e.Proposal # bottom
                 THEN e.Proposal ELSE st.NextProposal[p]
  BY <1>0, NodeFields, Zenon
<1>7. VotesBehind(n, to) /\ CertHeld(n, to) /\ PinnedHeld(n, to) /\ StagedSound(to)
  BY <1>4, ZenonT(30) DEF NodeInv, VotesBehind, CertHeld, PinnedHeld, StagedSound
<1>8. StatusSound(to)
  BY <1>0, <1>4, <1>5, <1>6, ZenonT(30) DEF NodeInv, StatusSound
<1>9. FreshestSound(to)
  BY <1>4, Zenon DEF NodeInv, FreshestSound
<1>10. EnteredSound(to)
  <2>1. st.Period > 0 => st.Period - 1 \in Periods
    BY PreviousPeriod, Zenon
  <2>2. QED
    BY <1>4, <1>5, <1>6, <2>1, ZenonT(30) DEF NodeInv, EnteredSound
<1>11. QED
  BY <1>0, <1>3, <1>4, <1>5, <1>6, <1>7, <1>8, <1>9, <1>10, Zenon DEF NodeInv

\* A later period may be entered with a threshold for the only value that may
\* be certified by then, when that or a soft threshold there is remembered.
MayEnter(st, e, target, kept) ==
    /\ st.Period < target
    /\ \A p \in Periods, w \in Values :
          p < target /\ Choosable(p, w) => w = e.Proposal
    /\ \/ st.NextBottom[target - 1]
       \/ st.NextProposal[target - 1] # bottom
       \/ st.Staging[target] # bottom
    /\ e.Proposal # bottom => st.Assembled \cap {e.Proposal} \subseteq kept

\* Entering a period keeps what was seen.
Starts(to, st, e, target, kept) ==
    /\ to.Period = target /\ to.Step = soft /\ to.Napping = FALSE
    /\ to.Staging = st.Staging /\ to.NextBottom = st.NextBottom
    /\ to.NextProposal = st.NextProposal /\ to.Freshest = st.Freshest
    /\ to.Pinned = PinnedBy(st, e) /\ to.Assembled = kept /\ to.Loose = FALSE

LEMMA EnterFacts ==
    ASSUME NEW st \in NodeState, NEW e \in thresholdEvent,
           NEW target \in Periods, NEW kept \in SUBSET Values,
           NEW to, to = enterPeriod(st, e, target, kept)
    PROVE  to \in NodeState /\ Starts(to, st, e, target, kept)
<1>1. e.Proposal \in ValuesOrBottom /\ soft \in 1..MaxStep
  BY BoundsAssumption DEF thresholdEvent
<1>2. PinnedBy(st, e) \in ValuesOrBottom
  BY <1>1, NodeFields, Zenon DEF PinnedBy
<1>3. to \in NodeState
  BY <1>1, <1>2, Zenon DEF NodeState, enterPeriod
<1>4. Starts(to, st, e, target, kept)
  BY <1>3, ZenonT(30) DEF NodeState, enterPeriod, Starts
<1>5. QED
  BY <1>3, <1>4, Zenon

\* It starts with the soft step, and has not voted there.
Enters(n, to, st, target, kept) ==
    /\ to.Period = target /\ to.Step = soft /\ to.Staging = st.Staging
    /\ to.Assembled = kept
    /\ \A q, s, v : Voted(n, q, s, v) => q # target

\* A node that enters a later period keeps, pinned, the block it cert-voted.
LEMMA EnterKeeps ==
    ASSUME TypeOK, VotesInv, NEW n \in Honest, NEW st \in NodeState,
           NodeInv(n, st), NEW e \in thresholdEvent,
           NEW target \in Periods, NEW kept \in SUBSET Values,
           MayEnter(st, e, target, kept),
           NEW to, to = enterPeriod(st, e, target, kept)
    PROVE  to \in NodeState /\ NodeInv(n, to) /\ Enters(n, to, st, target, kept)
<1> USE DEF MayEnter
<1>2. to \in NodeState /\ Starts(to, st, e, target, kept)
  BY EnterFacts, Zenon
<1>3. /\ to.Period = target /\ to.Step = soft /\ to.Napping = FALSE
      /\ to.Staging = st.Staging /\ to.NextBottom = st.NextBottom
      /\ to.NextProposal = st.NextProposal /\ to.Freshest = st.Freshest
      /\ to.Pinned = PinnedBy(st, e) /\ to.Assembled = kept /\ to.Loose = FALSE
  BY <1>2, Zenon DEF Starts
<1>4. \A q, s, v : Voted(n, q, s, v) => q \in Periods /\ q <= st.Period
  BY Zenon DEF NodeInv, VotesBehind, TypeOK, Voted
<1>5. st.Period \in Periods /\ (\A q \in Periods : q <= st.Period => q < target)
  BY NodeFields, BoundsAssumption DEF Periods
<1>6. \A q, s, v : Voted(n, q, s, v) => q # target
  BY <1>4, <1>5, BoundsAssumption DEF Periods
<1>7. VotesBehind(n, to)
  BY <1>3, <1>4, <1>5, BoundsAssumption DEF VotesBehind, Periods
<1>8. StagedSound(to) /\ StatusSound(to) /\ FreshestSound(to)
  BY <1>3, Zenon DEF NodeInv, StagedSound, StatusSound, FreshestSound
<1>9. EnteredSound(to)
  BY <1>3, Zenon DEF EnteredSound
<1>10. CertHeld(n, to)
  BY <1>3, <1>6, Zenon DEF CertHeld
<1>11. PinnedHeld(n, to)
  <2> SUFFICES ASSUME NEW p \in Periods, NEW v \in Values, p < target,
                      Voted(n, p, cert, v), Choosable(p, v)
               PROVE  to.Pinned = v /\ v \in to.Assembled
    BY <1>3, Zenon DEF PinnedHeld
  <2>1. v = e.Proposal /\ v # bottom
    BY BottomFacts, Zenon
  <2>2. v \in st.Assembled
    <3>1. CASE p = st.Period
      BY <3>1, Zenon DEF NodeInv, CertHeld
    <3>2. CASE p < st.Period
      BY <3>2, Zenon DEF NodeInv, PinnedHeld
    <3>3. QED
      BY <1>4, <1>5, <3>1, <3>2, BoundsAssumption DEF Periods
  <2>3. QED
    BY <1>3, <2>1, <2>2, Zenon DEF PinnedBy
<1>12. Enters(n, to, st, target, kept)
  BY <1>3, <1>6, Zenon DEF Enters
<1>13. QED
  BY <1>2, <1>3, <1>7, <1>8, <1>9, <1>10, <1>11, <1>12, Zenon DEF NodeInv

-----------------------------------------------------------------------------
(* Timeouts.                                                               *)

\* issueNextVote votes for a value or for bottom.
LEMMA NextVoteType ==
    ASSUME NEW st \in NodeState
    PROVE  NextVote(st) \in ValuesOrBottom
<1>1. CASE st.Period = 0
  BY <1>1, NodeFields, BottomFacts, Zenon DEF NextVote, NextStatus
<1>2. CASE st.Period # 0
  <2>1. st.Period - 1 \in Periods
    BY <1>2, NodeFields, BoundsAssumption DEF Periods
  <2>2. NextStatus(st).Proposal = st.NextProposal[st.Period - 1]
    BY <1>2, Zenon DEF NextStatus
  <2>3. st.Staging[st.Period] \in ValuesOrBottom
        /\ st.NextProposal[st.Period - 1] \in ValuesOrBottom
    BY <2>1, NodeFields, Zenon
  <2>4. QED
    BY <2>2, <2>3, BottomFacts, Zenon DEF NextVote
<1>3. QED
  BY <1>1, <1>2, Zenon

\* The node that acts, when it is in the round.
LEMMA ActsSoundly ==
    ASSUME SafetyInv, NEW n \in Honest, InRound(n)
    PROVE  /\ node[n] \in NodeState /\ NodeInv(n, node[n])
           /\ TypeOK /\ VotesInv
BY Zenon DEF SafetyInv, TypeOK, NodesInv

\* What is soft-voted in a later period has a recovery quorum behind it, or
\* bottom has.
LEMMA SoftVoteJustified ==
    ASSUME NEW n \in Honest, NEW st \in NodeState, NodeInv(n, st),
           NEW prop \in ValuesOrBottom, SoftVote(st, prop) # bottom,
           st.Period > 0
    PROVE  \/ NextT(st.Period - 1, SoftVote(st, prop))
           \/ NextT(st.Period - 1, bottom)
           \/ \E w \in Values : SoftT(st.Period, w)
<1> DEFINE P == st.Period
<1>1. P \in Periods /\ P - 1 \in Periods
  BY NodeFields, BoundsAssumption DEF Periods
<1>2. CASE st.NextBottom[P - 1]
  BY <1>1, <1>2, Zenon DEF NodeInv, StatusSound
<1>3. CASE st.Staging[P] # bottom
  BY <1>1, <1>3, NodeFields, BottomFacts
     DEF NodeInv, StagedSound, ValuesOrBottom
<1>4. CASE ~st.NextBottom[P - 1] /\ st.Staging[P] = bottom
  <2>1. st.NextProposal[P - 1] # bottom
    BY <1>4, Zenon DEF NodeInv, EnteredSound
  <2>2. NextStatus(st) = [Bottom   |-> st.NextBottom[P - 1],
                          Proposal |-> st.NextProposal[P - 1]]
    BY DEF NextStatus
  <2>3. st.NextBottom[P - 1] = FALSE
    BY <1>1, <1>4, NodeFields, Zenon
  <2>4. NextStatus(st).Bottom = FALSE
        /\ NextStatus(st).Proposal = st.NextProposal[P - 1]
    BY <2>2, <2>3
  <2>5. SoftVote(st, prop) = st.NextProposal[P - 1]
    BY <2>1, <2>4, Zenon DEF SoftVote
  <2>6. QED
    BY <1>1, <2>1, <2>5, Zenon DEF NodeInv, StatusSound
<1>5. QED
  BY <1>2, <1>3, <1>4, Zenon

\* issueSoftVote votes for a value or does not vote.
LEMMA SoftVoteType ==
    ASSUME NEW st \in NodeState, NEW prop \in ValuesOrBottom
    PROVE  SoftVote(st, prop) \in ValuesOrBottom
<1>1. NextStatus(st).Proposal \in ValuesOrBottom
  <2>1. CASE st.Period = 0
    BY <2>1, BottomFacts, Zenon DEF NextStatus
  <2>2. CASE st.Period # 0
    <3>1. st.Period - 1 \in Periods
      BY <2>2, NodeFields, BoundsAssumption DEF Periods
    <3>2. st.NextProposal[st.Period - 1] \in ValuesOrBottom
      BY <3>1, NodeFields, Zenon
    <3>3. QED
      BY <2>2, <3>2, Zenon DEF NextStatus
  <2>3. QED
    BY <2>1, <2>2, Zenon
<1>2. QED
  BY <1>1, BottomFacts, Zenon DEF SoftVote

\* A node in the soft step has not soft-voted in its period.
LEMMA SoftAhead ==
    ASSUME NEW n \in Honest, NEW st \in NodeState, NodeInv(n, st), st.Step = soft
    PROVE  \A w \in ValuesOrBottom : ~Voted(n, st.Period, soft, w)
BY NodeFields, StepFacts DEF NodeInv, VotesBehind

\* The soft timeout preserves the invariant.
LEMMA SoftTimeoutKeeps ==
    ASSUME SafetyInv, NEW n \in Honest, NEW prop \in ValuesOrBottom,
           SoftTimeout(n, prop)
    PROVE  SafetyInv'
<1>1. PICK st, to, v :
         /\ st = node[n] /\ to = [st EXCEPT !.Step = cert]
         /\ v = SoftVote(st, prop)
  BY Zenon
<1>2. /\ InRound(n) /\ st.Step = soft
      /\ v = bottom => Become(n, to)
      /\ v # bottom => Attest(n, to, soft, v)
  BY <1>1, Zenon DEF SoftTimeout
<1>3. st \in NodeState /\ NodeInv(n, st)
  BY <1>1, <1>2, ActsSoundly, Zenon
<1>4. cert \in st.Step..MaxStep /\ st.Napping \in BOOLEAN /\ cert # st.Step
  BY <1>2, <1>3, NodeFields, BoundsAssumption
<1>5. to = [st EXCEPT !.Step = cert, !.Napping = st.Napping]
      /\ to.Period = st.Period /\ to.Step = cert
  BY <1>1, <1>3, Zenon DEF NodeState
<1>6. to \in NodeState /\ NodeInv(n, to)
  BY <1>3, <1>4, <1>5, MoveStep, Zenon
<1>7. CASE v = bottom
  BY <1>2, <1>6, <1>7, BecomeKeeps, Zenon
<1>8. CASE v # bottom
  <2>1. v \in ValuesOrBottom
    BY <1>1, <1>3, SoftVoteType, Zenon
  <2>2. \A w \in ValuesOrBottom : ~Voted(n, st.Period, soft, w)
    BY <1>2, <1>3, SoftAhead, Zenon
  <2>3. st.Period > 0 =>
          \/ NextT(st.Period - 1, v)
          \/ NextT(st.Period - 1, bottom)
          \/ \E w \in Values : SoftT(st.Period, w)
    BY <1>1, <1>3, <1>8, SoftVoteJustified, Zenon
  <2>4. CanVote(n, to, soft, v)
    <3>1. soft \notin NextSteps /\ soft \notin FastSteps
          /\ soft \notin next..MaxStep
      BY BoundsAssumption DEF NextSteps, FastSteps
    <3>2. QED
      BY <1>5, <2>2, <2>3, <3>1 DEF CanVote
  <2>5. QED
    BY <1>2, <1>6, <1>8, <2>1, <2>4, AttestKeeps, StepFacts, Zenon
<1>9. QED
  BY <1>7, <1>8, Zenon

\* Steps and naps do not change what issueNextVote would choose.
LEMMA NextVoteSame ==
    ASSUME NEW st \in NodeState, NEW to \in NodeState,
           to.Period = st.Period, to.Staging = st.Staging,
           to.Assembled = st.Assembled, to.NextBottom = st.NextBottom,
           to.NextProposal = st.NextProposal
    PROVE  NextVote(to) = NextVote(st)
BY Zenon DEF NextVote, NextStatus, Committable

\* The step a node is in, awake, when it has issued no vote in it yet.
LEMMA CanNextVote ==
    ASSUME NEW n \in Honest, NEW to \in NodeState, NEW v,
           v = NextVote(to), to.Step \in next..MaxStep, ~to.Napping,
           \A w \in ValuesOrBottom : ~Voted(n, to.Period, to.Step, w)
    PROVE  to.Step \in Steps /\ CanVote(n, to, to.Step, v)
<1>1. /\ to.Step \in Steps /\ to.Step \notin FastSteps
      /\ to.Step # soft /\ to.Step # cert /\ to.Step # late /\ to.Step # down
  BY BoundsAssumption DEF Steps, NextSteps, FastSteps
<1>2. QED
  BY <1>1 DEF CanVote

\* The first next vote of a period preserves the invariant.
LEMMA CertTimeoutKeeps ==
    ASSUME SafetyInv, NEW n \in Honest, CertTimeout(n)
    PROVE  SafetyInv'
<1>1. PICK st, to : /\ st = node[n]
                    /\ to = [st EXCEPT !.Step = next, !.Napping = FALSE]
  BY Zenon
<1>2. InRound(n) /\ st.Step = cert /\ Attest(n, to, next, NextVote(st))
  BY <1>1, Zenon DEF CertTimeout
<1>3. st \in NodeState /\ NodeInv(n, st)
  BY <1>1, <1>2, ActsSoundly, Zenon
<1>4. next \in st.Step..MaxStep /\ next # st.Step /\ next \in next..MaxStep
  BY <1>2, BoundsAssumption
<1>5. to \in NodeState /\ NodeInv(n, to)
  BY <1>1, <1>3, <1>4, MoveStep, Zenon
<1>6. /\ to.Period = st.Period /\ to.Step = next /\ to.Napping = FALSE
      /\ to.Staging = st.Staging /\ to.Assembled = st.Assembled
      /\ to.NextBottom = st.NextBottom /\ to.NextProposal = st.NextProposal
  BY <1>1, <1>3, Zenon DEF NodeState
<1>7. NextVote(to) = NextVote(st)
  BY <1>3, <1>5, <1>6, NextVoteSame, Zenon
<1>8. \A w \in ValuesOrBottom : ~Voted(n, st.Period, next, w)
  <2>1. next \in Steps /\ st.Period \in Periods /\ ~(next < st.Step)
    BY <1>2, <1>3, <1>4, NodeFields DEF Steps, NextSteps
  <2>2. QED
    BY <1>2, <1>3, <1>4, <2>1, Zenon DEF NodeInv, VotesBehind
<1>9. next \in Steps /\ CanVote(n, to, next, NextVote(st))
  BY <1>4, <1>5, <1>6, <1>7, <1>8, CanNextVote, Zenon
<1>10. QED
  BY <1>2, <1>3, <1>5, <1>9, NextVoteType, AttestKeeps, Zenon

\* A nap between two next votes preserves the invariant.
LEMMA NapTimeoutKeeps ==
    ASSUME SafetyInv, NEW n \in Honest, NapTimeout(n)
    PROVE  SafetyInv'
<1>1. PICK st, k, to : /\ st = node[n] /\ k = st.Step + 1
                       /\ to = [st EXCEPT !.Step = k, !.Napping = TRUE]
  BY Zenon
<1>2. InRound(n) /\ st.Step \in next..(MaxStep - 1) /\ Become(n, to)
  BY <1>1, Zenon DEF NapTimeout
<1>3. st \in NodeState /\ NodeInv(n, st)
  BY <1>1, <1>2, ActsSoundly, Zenon
<1>4. k \in st.Step..MaxStep /\ k # st.Step
  BY <1>1, <1>2, BoundsAssumption
<1>5. to \in NodeState /\ NodeInv(n, to)
  BY <1>1, <1>3, <1>4, MoveStep, Zenon
<1>6. QED
  BY <1>2, <1>5, BecomeKeeps, Zenon

\* The later next votes preserve the invariant.
LEMMA NextTimeoutKeeps ==
    ASSUME SafetyInv, NEW n \in Honest, NextTimeout(n)
    PROVE  SafetyInv'
<1>1. PICK st, to : st = node[n] /\ to = [st EXCEPT !.Napping = FALSE]
  BY Zenon
<1>2. InRound(n) /\ st.Step >= next /\ st.Napping
      /\ Attest(n, to, st.Step, NextVote(st))
  BY <1>1, Zenon DEF NextTimeout
<1>3. st \in NodeState /\ NodeInv(n, st)
  BY <1>1, <1>2, ActsSoundly, Zenon
<1>4. st.Step \in st.Step..MaxStep /\ st.Step \in next..MaxStep
  BY <1>2, <1>3, NodeFields, BoundsAssumption
<1>5. /\ to.Period = st.Period /\ to.Step = st.Step /\ to.Napping = FALSE
      /\ to.Staging = st.Staging /\ to.Assembled = st.Assembled
      /\ to.NextBottom = st.NextBottom /\ to.NextProposal = st.NextProposal
      /\ to = [st EXCEPT !.Step = st.Step, !.Napping = FALSE]
  BY <1>1, <1>3, Zenon DEF NodeState
<1>6. to \in NodeState /\ NodeInv(n, to)
  BY <1>3, <1>4, <1>5, MoveStep, Zenon
<1>7. NextVote(to) = NextVote(st)
  BY <1>3, <1>5, <1>6, NextVoteSame, Zenon
<1>8. \A w \in ValuesOrBottom : ~Voted(n, st.Period, st.Step, w)
  <2>1. st.Step \in Steps /\ st.Period \in Periods /\ ~(st.Step < st.Step)
    BY <1>3, <1>4, NodeFields, BoundsAssumption DEF Steps, NextSteps
  <2>2. QED
    BY <1>2, <1>3, <1>4, <2>1, Zenon DEF NodeInv, VotesBehind
<1>9. to.Step \in Steps /\ CanVote(n, to, to.Step, NextVote(st))
  BY <1>4, <1>5, <1>6, <1>7, <1>8, CanNextVote, Zenon
<1>10. QED
  BY <1>2, <1>3, <1>5, <1>6, <1>9, NextVoteType, AttestKeeps, Zenon

\* Fast recovery votes of a timely node preserve the invariant.
LEMMA FastTimeoutKeeps ==
    ASSUME SafetyInv, Timely = Honest, NEW n \in Honest, FastTimeout(n)
    PROVE  SafetyInv'
<1>1. PICK st, s, v : st = node[n] /\ s = FastStep(st) /\ v = NextVote(st)
  BY Zenon
<1>2. InRound(n) /\ st.Step >= next /\ Attest(n, st, s, v)
  BY <1>1, Zenon DEF FastTimeout
<1>3. st \in NodeState /\ NodeInv(n, st)
  BY <1>1, <1>2, ActsSoundly, Zenon
<1>4. s \in FastSteps /\ s \in Steps /\ s \in NextSteps /\ s \notin next..MaxStep
      /\ s # soft /\ s # cert
  BY <1>1, BoundsAssumption DEF FastStep, FastSteps, Steps, NextSteps
<1>5. s = down => v = bottom
  BY <1>1 DEF FastStep
<1>6. s = late => SoftT(st.Period, v)
  <2>1. s = late => v # bottom /\ v = st.Staging[st.Period]
    BY <1>1 DEF FastStep, NextVote
  <2>2. st.Period \in Periods
    BY <1>3, NodeFields, Zenon
  <2>3. QED
    BY <1>3, <2>1, <2>2 DEF NodeInv, StagedSound
<1>7. CanVote(n, st, s, v)
  BY <1>1, <1>2, <1>4, <1>5, <1>6, Zenon DEF CanVote
<1>8. v \in ValuesOrBottom
  BY <1>1, <1>3, NextVoteType, Zenon
<1>9. QED
  BY <1>2, <1>3, <1>4, <1>7, <1>8, AttestKeeps, Zenon

-----------------------------------------------------------------------------
(* Threshold events.                                                       *)

\* Dropping blocks that may be dropped preserves soundness of the state.
LEMMA TrimmedKeeps ==
    ASSUME SafetyInv, NEW n \in Honest, NEW st \in NodeState, NodeInv(n, st),
           NEW kept \in Trims(n, st, Kept(st)),
           Become(n, [st EXCEPT !.Assembled = kept])
    PROVE  SafetyInv'
<1>1. kept \in SUBSET Values
      /\ st.Assembled \cap {st.Pinned, st.Staging[st.Period]} \subseteq kept
  <2>1. Leaves(kept, st, Kept(st))
    BY TrimsFacts, Zenon
  <2>2. QED
    BY <2>1, Zenon DEF Leaves, Kept, NodeInv
<1>2. PICK to : to = [st EXCEPT !.Assembled = kept]
  BY Zenon
<1>3. to \in NodeState /\ NodeInv(n, to)
  BY <1>1, <1>2, MoveBlocks, Zenon
<1>4. QED
  BY <1>2, <1>3, BecomeKeeps, Zenon

\* A threshold that is not fresher preserves the invariant.
LEMMA StaleThresholdKeeps ==
    ASSUME SafetyInv, NEW n \in Honest, InRound(n), NEW e \in thresholdEvent,
           e.T = "next" => NextT(e.Period, e.Proposal),
           e.T = "cert" => CertT(e.Period, e.Proposal),
           StaleThreshold(n, e)
    PROVE  SafetyInv'
<1>1. PICK st, to : st = node[n] /\ to = Observe(st, e)
  BY Zenon
<1>2. Become(n, to)
  BY <1>1, Zenon DEF StaleThreshold
<1>3. st \in NodeState /\ NodeInv(n, st)
  BY <1>1, ActsSoundly, Zenon
<1>4. to \in NodeState /\ NodeInv(n, to)
  BY <1>1, <1>3, ObserveKeeps, Zenon
<1>5. QED
  BY <1>2, <1>4, BecomeKeeps, Zenon

\* A certificate, with or without its block, preserves the invariant.
LEMMA CertThresholdKeeps ==
    ASSUME SafetyInv, NEW n \in Honest, InRound(n), NEW e \in thresholdEvent,
           e.T = "cert", e.Proposal \in Values, CertT(e.Period, e.Proposal),
           certThreshold(n, e)
    PROVE  SafetyInv'
<1>0. e.Period \in Periods
  BY Zenon DEF thresholdEvent
<1>1. PICK old, ob, st :
         old = node[n] /\ ob = Observe(old, e) /\ st = Stage(ob, e)
  BY Zenon
<1>2. \/ Committable(st, e.Period) /\ Ensure(n, e.Proposal)
      \/ st.Period < e.Period /\ \E kept \in Trims(n, st, {e.Proposal}) :
            Become(n, enterPeriod(st, e, e.Period, kept))
      \/ \E kept \in Trims(n, st, Kept(st)) :
            Become(n, [st EXCEPT !.Assembled = kept,
                                 !.Loose = @ /\ e.Period # st.Period])
  BY <1>1, Zenon DEF certThreshold
<1>3. old \in NodeState /\ NodeInv(n, old) /\ TypeOK /\ VotesInv
  BY <1>1, ActsSoundly, Zenon
<1>4. SoftT(e.Period, e.Proposal)
  BY <1>0, <1>3, CertIsSoft, BottomFacts, Zenon DEF VotesInv
<1>5. ob \in NodeState /\ NodeInv(n, ob)
  <2>1. e.T # "next"
    BY Zenon
  <2>2. QED
    BY <1>1, <1>3, <2>1, ObserveKeeps, Zenon
<1>6. st \in NodeState /\ NodeInv(n, st)
      /\ st.Staging = [ob.Staging EXCEPT ![e.Period] = e.Proposal]
  <2>1. st \in NodeState /\ NodeInv(n, st) /\ StagedIn(st, ob, e)
    BY <1>0, <1>1, <1>3, <1>4, <1>5, StageKeeps, Zenon
  <2>2. QED
    BY <2>1, Zenon DEF StagedIn
<1>7. CASE Ensure(n, e.Proposal)
  BY <1>0, <1>7, EnsureKeeps, Zenon
<1>8. ASSUME st.Period < e.Period, NEW kept \in Trims(n, st, {e.Proposal}),
             Become(n, enterPeriod(st, e, e.Period, kept))
      PROVE  SafetyInv'
  <2>1. kept \in SUBSET Values /\ st.Assembled \cap {e.Proposal} \subseteq kept
    <3>1. st \in NodeState /\ kept \in Trims(n, st, {e.Proposal})
      BY <1>6, <1>8, Zenon
    <3>2. Leaves(kept, st, {e.Proposal})
      BY <3>1, TrimsFacts, Zenon
    <3>3. QED
      BY <3>2, Zenon DEF Leaves
  <2>2. \A p \in Periods, w \in Values :
           p < e.Period /\ Choosable(p, w) => w = e.Proposal
    BY <1>0, <1>3, <1>4, Zenon DEF VotesInv, SoftKeeps
  <2>3. st.Staging[e.Period] # bottom
    BY <1>0, <1>5, <1>6, NodeFields, BottomFacts
  <2>4. PICK to : to = enterPeriod(st, e, e.Period, kept)
    BY Zenon
  <2>5. to \in NodeState /\ NodeInv(n, to)
    <3>1. MayEnter(st, e, e.Period, kept)
      BY <1>8, <2>1, <2>2, <2>3, Zenon DEF MayEnter
    <3>2. QED
      BY <1>0, <1>3, <1>6, <2>1, <2>4, <3>1, EnterKeeps, ZenonT(30)
  <2>6. QED
    BY <1>8, <2>4, <2>5, BecomeKeeps, Zenon
<1>9. ASSUME NEW kept \in Trims(n, st, Kept(st)),
             Become(n, [st EXCEPT !.Assembled = kept,
                                  !.Loose = @ /\ e.Period # st.Period])
      PROVE  SafetyInv'
  <2>1. st.Loose = FALSE
    BY <1>6, Zenon DEF NodeInv
  <2>2. [st EXCEPT !.Assembled = kept, !.Loose = @ /\ e.Period # st.Period]
           = [st EXCEPT !.Assembled = kept]
    BY <1>6, <2>1, ZenonT(30) DEF NodeState
  <2>3. Become(n, [st EXCEPT !.Assembled = kept])
    BY <1>9, <2>2, Zenon
  <2>4. QED
    BY <1>6, <1>9, <2>3, TrimmedKeeps, Zenon
<1>10. QED
  BY <1>2, <1>7, <1>8, <1>9, Zenon

\* A node that has staged the value with a soft threshold and has its block,
\* and has not left the cert step, may cert-vote it.
LEMMA CanCertVote ==
    ASSUME NEW n \in Honest, NEW to \in NodeState, NEW v \in Values,
           to.Step <= cert, to.Staging[to.Period] = v, v \in to.Assembled
    PROVE  CanVote(n, to, cert, v)
BY BoundsAssumption DEF CanVote, NextSteps, FastSteps

\* A cert vote for the value just staged preserves the invariant.
LEMMA CertVoteKeeps ==
    ASSUME SafetyInv, NEW n \in Honest, NEW to \in NodeState, NEW v \in Values,
           NodeInv(n, to), to.Step <= cert, to.Staging[to.Period] = v,
           v \in to.Assembled, Attest(n, to, cert, v)
    PROVE  SafetyInv'
<1>1. CanVote(n, to, cert, v)
  BY CanCertVote, Zenon
<1>2. cert \in Steps /\ v \in ValuesOrBottom
  BY StepFacts, BottomFacts, Zenon
<1>3. QED
  BY <1>1, <1>2, AttestKeeps, Zenon

\* A soft threshold of any period preserves the invariant.
LEMMA SoftThresholdKeeps ==
    ASSUME StagedKept, SafetyInv, NEW n \in Honest, InRound(n), NEW e \in thresholdEvent,
           e.T = "soft", e.Proposal \in Values, SoftT(e.Period, e.Proposal),
           softThreshold(n, e)
    PROVE  SafetyInv'
<1>0. e.Period \in Periods
  BY Zenon DEF thresholdEvent
<1>1. PICK old, st, sg :
         old = node[n] /\ st = Observe(old, e) /\ sg = Stage(st, e)
  BY Zenon
<1>2. \/ Become(n, st)
      \/ /\ st.Period < e.Period
         /\ \E kept \in Trims(n, st, {e.Proposal}) :
               LET to == Stage(enterPeriod(st, e, e.Period, kept), e) IN
               \/ Committable(to, e.Period) /\ Attest(n, to, cert, e.Proposal)
               \/ Become(n, to)
      \/ /\ st.Period = e.Period /\ Committable(sg, e.Period)
         /\ st.Step <= cert /\ Attest(n, sg, cert, e.Proposal)
      \/ Become(n, sg)
      \/ /\ st.Period = e.Period /\ ~Committable(sg, e.Period)
         /\ \E kept \in Trims(n, st, {st.Pinned}) :
               Become(n, [sg EXCEPT !.Assembled = kept])
  <2>1. st \in NodeState /\ NodeInv(n, st)
    <3>1. e.T # "next" /\ e.T # "cert"
      BY Zenon
    <3>2. node[n] \in NodeState /\ NodeInv(n, node[n])
      BY ActsSoundly, Zenon
    <3>3. QED
      BY <1>1, <3>1, <3>2, ObserveKeeps, Zenon
  <2>2. sg \in NodeState /\ sg.Loose = FALSE
    <3>1. sg \in NodeState /\ Stages(sg, st, e)
      BY <1>0, <1>1, <2>1, StageFacts, Zenon
    <3>2. QED
      BY <2>1, <3>1, Zenon DEF NodeInv, Stages
  <2>3. [sg EXCEPT !.Loose = FALSE] = sg
    BY <2>2 DEF NodeState
  <2>4. \A loose \in BOOLEAN : (loose => StagesLoose(n, e)) => loose = FALSE
    BY Zenon DEF StagesLoose
  <2>5. QED
    BY <1>1, <2>3, <2>4, ZenonT(30) DEF softThreshold
<1>3. old \in NodeState /\ NodeInv(n, old) /\ TypeOK /\ VotesInv
  BY <1>1, ActsSoundly, Zenon
<1>4. st \in NodeState /\ NodeInv(n, st)
  <2>1. e.T # "next" /\ e.T # "cert"
    BY Zenon
  <2>2. QED
    BY <1>1, <1>3, <2>1, ObserveKeeps, Zenon
<1>5. sg \in NodeState /\ NodeInv(n, sg) /\ sg.Period = st.Period
      /\ sg.Step = st.Step /\ sg.Assembled = st.Assembled
      /\ sg.Pinned = st.Pinned
      /\ sg.Staging = [st.Staging EXCEPT ![e.Period] = e.Proposal]
  <2>1. sg \in NodeState /\ NodeInv(n, sg) /\ StagedIn(sg, st, e)
    BY <1>0, <1>1, <1>3, <1>4, StageKeeps, Zenon
  <2>2. QED
    BY <2>1, Zenon DEF StagedIn
<1>6. sg.Staging[e.Period] = e.Proposal
  BY <1>0, <1>4, <1>5, NodeFields
<1>7. CASE Become(n, st)
  BY <1>4, <1>7, BecomeKeeps, Zenon
<1>8. ASSUME st.Period < e.Period,
             NEW kept \in Trims(n, st, {e.Proposal}),
             LET to == Stage(enterPeriod(st, e, e.Period, kept), e) IN
             \/ Committable(to, e.Period) /\ Attest(n, to, cert, e.Proposal)
             \/ Become(n, to)
      PROVE  SafetyInv'
  <2>1. PICK to : to = enterPeriod(sg, e, e.Period, kept)
    BY Zenon
  <2>2. to = Stage(enterPeriod(st, e, e.Period, kept), e)
    <3>1. PinnedBy(st, e) = e.Proposal /\ PinnedBy(sg, e) = e.Proposal
      BY BottomFacts, Zenon DEF PinnedBy
    <3>2. QED
      BY <1>1, <1>4, <2>1, <3>1, ZenonT(30) DEF Stage, enterPeriod, NodeState
  <2>3. kept \in SUBSET Values /\ sg.Assembled \cap {e.Proposal} \subseteq kept
    <3>1. st \in NodeState /\ sg.Assembled = st.Assembled
      BY <1>4, <1>5, Zenon
    <3>2. Leaves(kept, st, {e.Proposal})
      BY <3>1, TrimsFacts, Zenon
    <3>3. QED
      BY <3>1, <3>2, Zenon DEF Leaves
  <2>4. \A p \in Periods, w \in Values :
           p < e.Period /\ Choosable(p, w) => w = e.Proposal
    BY <1>0, <1>3, Zenon DEF VotesInv, SoftKeeps
  <2>5. sg.Staging[e.Period] # bottom /\ sg.Period < e.Period
    BY <1>5, <1>6, <1>8, BottomFacts, Zenon
  <2>6. to \in NodeState /\ NodeInv(n, to) /\ to.Period = e.Period
        /\ to.Step = soft /\ to.Staging = sg.Staging
    <3>1. MayEnter(sg, e, e.Period, kept)
      BY <2>3, <2>4, <2>5, Zenon DEF MayEnter
    <3>2. QED
      <4>1. /\ to \in NodeState /\ NodeInv(n, to)
            /\ Enters(n, to, sg, e.Period, kept)
        BY <1>0, <1>3, <1>5, <2>1, <2>3, <3>1, EnterKeeps, Zenon
      <4>2. QED
        BY <4>1, Zenon DEF Enters
  <2>7. CASE Committable(to, e.Period) /\ Attest(n, to, cert, e.Proposal)
    <3>1. to.Staging[to.Period] = e.Proposal /\ e.Proposal \in to.Assembled
          /\ to.Step <= cert
      BY <1>6, <2>6, <2>7 DEF Committable
    <3>2. QED
      BY <2>6, <2>7, <3>1, CertVoteKeeps, Zenon
  <2>8. CASE Become(n, to)
    BY <2>6, <2>8, BecomeKeeps, Zenon
  <2>9. QED
    BY <1>8, <2>2, <2>7, <2>8, Zenon
<1>9. CASE st.Period = e.Period /\ Committable(sg, e.Period) /\ st.Step <= cert
           /\ Attest(n, sg, cert, e.Proposal)
  <2>1. sg.Staging[sg.Period] = e.Proposal /\ e.Proposal \in sg.Assembled
        /\ sg.Step <= cert
    BY <1>5, <1>6, <1>9, Zenon DEF Committable
  <2>2. QED
    BY <1>5, <1>9, <2>1, CertVoteKeeps, Zenon
<1>10. CASE Become(n, sg)
  BY <1>5, <1>10, BecomeKeeps, Zenon
<1>11. ASSUME st.Period = e.Period, ~Committable(sg, e.Period),
              NEW kept \in Trims(n, st, {st.Pinned}),
              Become(n, [sg EXCEPT !.Assembled = kept])
       PROVE  SafetyInv'
  <2>1. kept \in SUBSET Values /\ st.Assembled \cap {st.Pinned} \subseteq kept
    <3>1. Leaves(kept, st, {st.Pinned})
      BY <1>4, TrimsFacts, Zenon
    <3>2. QED
      BY <3>1, Zenon DEF Leaves
  <2>2. sg.Assembled \cap {sg.Pinned, sg.Staging[sg.Period]} \subseteq kept
    BY <1>5, <1>6, <1>11, <2>1 DEF Committable
  <2>3. PICK to : to = [sg EXCEPT !.Assembled = kept]
    BY Zenon
  <2>4. to \in NodeState /\ NodeInv(n, to)
    BY <1>5, <2>1, <2>2, <2>3, MoveBlocks, Zenon
  <2>5. QED
    BY <1>11, <2>3, <2>4, BecomeKeeps, Zenon
<1>12. QED
  BY <1>2, <1>7, <1>8, <1>9, <1>10, <1>11, Zenon

\* A next threshold of any period preserves the invariant.
LEMMA NextThresholdKeeps ==
    ASSUME SafetyInv, NEW n \in Honest, InRound(n), NEW e \in thresholdEvent,
           e.T = "next", NextT(e.Period, e.Proposal), nextThreshold(n, e)
    PROVE  SafetyInv'
<1>0. e.Period \in Periods /\ e.Proposal \in ValuesOrBottom
  BY Zenon DEF thresholdEvent
<1>1. PICK old, st : old = node[n] /\ st = Observe(old, e)
  BY Zenon
<1>2. \/ Become(n, st)
      \/ /\ st.Period <= e.Period /\ e.Period < MaxPeriod
         /\ \E kept \in Trims(n, st, {PinnedBy(st, e)}) :
               Become(n, enterPeriod(st, e, e.Period + 1, kept))
  BY <1>1, Zenon DEF nextThreshold
<1>3. old \in NodeState /\ NodeInv(n, old) /\ TypeOK /\ VotesInv
  BY <1>1, ActsSoundly, Zenon
<1>4. st \in NodeState /\ NodeInv(n, st)
      /\ (st.NextBottom[e.Period] \/ st.NextProposal[e.Period] # bottom)
  <2>1. e.T # "cert"
    BY Zenon
  <2>2. QED
    BY <1>1, <1>3, <2>1, ObserveKeeps
<1>5. CASE Become(n, st)
  BY <1>4, <1>5, BecomeKeeps, Zenon
<1>6. ASSUME st.Period <= e.Period, e.Period < MaxPeriod,
             NEW kept \in Trims(n, st, {PinnedBy(st, e)}),
             Become(n, enterPeriod(st, e, e.Period + 1, kept))
      PROVE  SafetyInv'
  <2>1. kept \in SUBSET Values /\ st.Assembled \cap {PinnedBy(st, e)} \subseteq kept
    <3>1. st \in NodeState /\ kept \in Trims(n, st, {PinnedBy(st, e)})
      BY <1>4, <1>6, Zenon
    <3>2. Leaves(kept, st, {PinnedBy(st, e)})
      BY <3>1, TrimsFacts, Zenon
    <3>3. QED
      BY <3>2, Zenon DEF Leaves
  <2>2. e.Proposal # bottom => st.Assembled \cap {e.Proposal} \subseteq kept
    BY <2>1, Zenon DEF PinnedBy
  <2>3. PICK target \in Periods :
           target = e.Period + 1 /\ st.Period < target /\ target - 1 = e.Period
           /\ \A p \in Periods : p < target => p <= e.Period
    <3>1. st.Period \in Periods
      BY <1>4, NodeFields, Zenon
    <3>2. QED
      BY <1>0, <1>6, <3>1, BoundsAssumption DEF Periods
  <2>4. \A p \in Periods, w \in Values :
           p < target /\ Choosable(p, w) => w = e.Proposal
    BY <1>0, <1>3, <2>3, NextKeeps, Zenon DEF VotesInv
  <2>5. \/ st.NextBottom[target - 1]
        \/ st.NextProposal[target - 1] # bottom
        \/ st.Staging[target] # bottom
    BY <1>4, <2>3, Zenon
  <2>6. PICK to : to = enterPeriod(st, e, target, kept)
    BY Zenon
  <2>7. to \in NodeState /\ NodeInv(n, to)
    <3>1. MayEnter(st, e, target, kept)
      BY <2>2, <2>3, <2>4, <2>5, Zenon DEF MayEnter
    <3>2. QED
      BY <1>3, <1>4, <2>1, <2>6, <3>1, EnterKeeps, ZenonT(30)
  <2>8. Become(n, to)
    BY <1>6, <2>3, <2>6, Zenon
  <2>9. QED
    BY <2>7, <2>8, BecomeKeeps, Zenon
<1>7. QED
  BY <1>2, <1>5, <1>6, Zenon

-----------------------------------------------------------------------------
(* The whole next-state relation.                                          *)

\* What a node restores after a crash is sound.
LEMMA RestartKeeps ==
    ASSUME DiskKept, SafetyInv, NEW n \in Honest, Restart(n)
    PROVE  SafetyInv'
<1>1. TypeOK'
  BY BottomFacts, Zenon DEF SafetyInv, TypeOK, Restart
<1>2. VotesInv'
  BY UnchangedVotes, Zenon DEF SafetyInv, Restart
<1>3. NodesInv'
  <2> SUFFICES ASSUME NEW m \in Honest, NEW x
               PROVE  /\ x = node'[m] /\ InRound(m)' => NodeInv(m, x)
                      /\ x = disk'[m] => NodeInv(m, x)
    BY SameVotesKeep, Zenon DEF Restart
  <2>1. /\ m # n => node'[m] = node[m] /\ InRound(m)' = InRound(m)
        /\ m = n => node'[m] = disk[m]
        /\ disk'[m] = disk[m]
    BY Zenon DEF SafetyInv, TypeOK, Restart, InRound
  <2>2. QED
    BY <2>1, Zenon DEF SafetyInv, NodesInv
<1>4. LedgerCertified'
  <2>1. \A q, w : Threshold(q, cert, w)' <=> Threshold(q, cert, w)
    BY Zenon DEF Threshold, QuorumsOf, Restart
  <2>2. QED
    BY <2>1, Zenon DEF SafetyInv, TypeOK, LedgerCertified, Restart
<1>5. QED
  BY <1>1, <1>2, <1>3, <1>4, Zenon DEF SafetyInv

\* handleThresholdEvent preserves the invariant.
LEMMA ThresholdEventKeeps ==
    ASSUME StagedKept, DiskKept, SafetyInv, NEW n \in Honest, NEW p \in Periods,
           NEW s \in Steps, NEW v \in ValuesOrBottom, ThresholdEvent(n, p, s, v)
    PROVE  SafetyInv'
<1>1. PICK e : e = [T |-> EventType(s), Period |-> p, Proposal |-> v]
  BY Zenon
<1>2. /\ InRound(n) /\ Threshold(p, s, v)
      /\ Restart(n) \/ StaleThreshold(n, e) \/ certThreshold(n, e)
         \/ softThreshold(n, e) \/ nextThreshold(n, e)
  BY <1>1, Zenon DEF ThresholdEvent
<1>3. e \in thresholdEvent
  BY <1>1, Zenon DEF thresholdEvent, EventType
<1>4. e.Period = p /\ e.Proposal = v /\ e.T = EventType(s)
  BY <1>1, Zenon
<1>5. e.T = "next" => NextT(e.Period, e.Proposal)
  BY <1>2, <1>4, Zenon DEF EventType, NextT, Steps
<1>6. e.T = "cert" => CertT(e.Period, e.Proposal) /\ e.Proposal \in Values
  BY <1>2, <1>4, Zenon DEF EventType, CertT, Threshold, ValuesOrBottom
<1>7. e.T = "soft" => SoftT(e.Period, e.Proposal) /\ e.Proposal \in Values
  BY <1>2, <1>4, Zenon DEF EventType, SoftT, Threshold, ValuesOrBottom
<1>8. CASE StaleThreshold(n, e)
  BY <1>2, <1>3, <1>5, <1>6, <1>8, StaleThresholdKeeps, Zenon
<1>9. CASE certThreshold(n, e)
  <2>1. e.T = "cert"
    BY <1>9, Zenon DEF certThreshold
  <2>2. QED
    BY <1>2, <1>3, <1>6, <1>9, <2>1, CertThresholdKeeps, Zenon
<1>10. CASE softThreshold(n, e)
  <2>1. e.T = "soft"
    BY <1>10, Zenon DEF softThreshold
  <2>2. QED
    BY <1>2, <1>3, <1>7, <1>10, <2>1, SoftThresholdKeeps, Zenon
<1>11. CASE nextThreshold(n, e)
  <2>1. e.T = "next"
    BY <1>11, Zenon DEF nextThreshold
  <2>2. QED
    BY <1>2, <1>3, <1>5, <1>11, <2>1, NextThresholdKeeps, Zenon
<1>12. CASE Restart(n)
  BY <1>12, RestartKeeps, Zenon
<1>13. QED
  BY <1>2, <1>8, <1>9, <1>10, <1>11, <1>12, Zenon

\* A block that arrives preserves the invariant.
LEMMA PayloadVerifiedKeeps ==
    ASSUME SafetyInv, NEW n \in Honest, NEW v \in Values, PayloadVerified(n, v)
    PROVE  SafetyInv'
<1>1. PICK st, kept, to :
         /\ st = node[n] /\ kept = st.Assembled \cup {v}
         /\ to = [st EXCEPT !.Assembled = kept]
  BY Zenon
<1>2. /\ InRound(n)
      /\ \/ st.Freshest.T = "cert" /\ st.Freshest.Proposal = v /\ Ensure(n, v)
         \/ st.Staging[st.Period] = v /\ st.Step <= cert /\ Attest(n, to, cert, v)
         \/ Become(n, to)
  BY <1>1, Zenon DEF PayloadVerified
<1>3. st \in NodeState /\ NodeInv(n, st)
  BY <1>1, <1>2, ActsSoundly, Zenon
<1>4. kept \in SUBSET Values
      /\ st.Assembled \cap {st.Pinned, st.Staging[st.Period]} \subseteq kept
  BY <1>1, <1>3, NodeFields, Zenon
<1>5. to \in NodeState /\ NodeInv(n, to)
  BY <1>1, <1>3, <1>4, MoveBlocks, Zenon
<1>6. to.Period = st.Period /\ to.Step = st.Step /\ to.Staging = st.Staging
      /\ v \in to.Assembled
  BY <1>1, <1>3, Zenon DEF NodeState
<1>7. CASE st.Freshest.T = "cert" /\ st.Freshest.Proposal = v /\ Ensure(n, v)
  <2>1. CertT(st.Freshest.Period, v) /\ st.Freshest.Period \in Periods
    BY <1>3, <1>7, NodeFields, Zenon DEF NodeInv, FreshestSound, thresholdEvent
  <2>2. QED
    BY <1>7, <2>1, EnsureKeeps, Zenon
<1>8. CASE st.Staging[st.Period] = v /\ st.Step <= cert /\ Attest(n, to, cert, v)
  <2>1. to.Staging[to.Period] = v /\ to.Step <= cert
    BY <1>6, <1>8, Zenon
  <2>2. QED
    BY <1>5, <1>6, <1>8, <2>1, CertVoteKeeps, Zenon
<1>9. CASE Become(n, to)
  BY <1>5, <1>9, BecomeKeeps, Zenon
<1>10. QED
  BY <1>2, <1>7, <1>8, <1>9, Zenon

\* A proposal-vote that drops blocks preserves the invariant.
LEMMA ProposalVoteKeeps ==
    ASSUME SafetyInv, NEW n \in Honest, ProposalVote(n)
    PROVE  SafetyInv'
<1>1. PICK st : st = node[n]
  BY Zenon
<1>2. InRound(n) /\ \E kept \in Trims(n, st, Kept(st)) :
         Become(n, [st EXCEPT !.Assembled = kept])
  BY <1>1, Zenon DEF ProposalVote
<1>3. st \in NodeState /\ NodeInv(n, st)
  BY <1>1, <1>2, ActsSoundly, Zenon
<1>4. QED
  BY <1>2, <1>3, TrimmedKeeps, Zenon

\* The invariant is inductive: one case for each action of Next.
LEMMA NextKeepsSafety ==
    ASSUME Timely = Honest, StagedKept, DiskKept, SafetyInv, Next
    PROVE  SafetyInv'
<1>1. PICK n \in Honest :
       \/ \E prop \in ValuesOrBottom : SoftTimeout(n, prop)
       \/ CertTimeout(n)
       \/ NapTimeout(n)
       \/ NextTimeout(n)
       \/ FastTimeout(n)
       \/ \E e \in Cast : ThresholdEvent(n, e[1], e[2], e[3])
       \/ \E v \in Values : PayloadVerified(n, v)
       \/ ProposalVote(n)
       \/ Crash(n)
  BY Zenon DEF Next
<1>2. ASSUME NEW e \in Cast, ThresholdEvent(n, e[1], e[2], e[3])
      PROVE  SafetyInv'
  <2>1. e[1] \in Periods /\ e[2] \in Steps /\ e[3] \in ValuesOrBottom
    BY DEF Cast, SafetyInv, TypeOK
  <2>2. QED
    BY <1>2, <2>1, ThresholdEventKeeps, Zenon
<1>3. QED
  BY <1>1, <1>2, SoftTimeoutKeeps, CertTimeoutKeeps, NapTimeoutKeeps,
     NextTimeoutKeeps, FastTimeoutKeeps, PayloadVerifiedKeeps,
     ProposalVoteKeeps, RestartKeeps, Zenon DEF Crash

-----------------------------------------------------------------------------
(* The theorems.                                                           *)

\* The invariant depends on the variables only.
LEMMA StutterKeepsSafety ==
    ASSUME SafetyInv, UNCHANGED vars
    PROVE  SafetyInv'
<1>1. TypeOK' /\ LedgerCertified'
  BY LedgerMono, Zenon DEF SafetyInv, TypeOK, vars
<1>2. VotesInv'
  BY UnchangedVotes, Zenon DEF SafetyInv, vars
<1>3. NodesInv'
  <2> SUFFICES ASSUME NEW m \in Honest, NEW x
               PROVE  /\ x = node'[m] /\ InRound(m)' => NodeInv(m, x)
                      /\ x = disk'[m] => NodeInv(m, x)
    BY SameVotesKeep, Zenon DEF vars
  <2>1. node' = node /\ disk' = disk /\ InRound(m)' = InRound(m)
    BY Zenon DEF InRound, vars
  <2>2. QED
    BY <2>1, Zenon DEF SafetyInv, NodesInv
<1>4. QED
  BY <1>1, <1>2, <1>3, Zenon DEF SafetyInv

\* The invariant holds when the round starts.
LEMMA InitSafety ==
    ASSUME Init
    PROVE  SafetyInv
<1>1. newPlayer \in NodeState
  BY BoundsAssumption, BottomFacts
     DEF newPlayer, NodeState, noEvent, thresholdEvent, Periods
<1>2. TypeOK
  BY <1>1, BottomFacts, Zenon DEF Init, TypeOK
<1>3. \A n, p, s, v : ~Voted(n, p, s, v)
  BY Zenon DEF Init, Voted
<1>4. \A p, v : v \in Values => ~SoftT(p, v)
  BY <1>3, QuorumsAssumption, Zenon DEF SoftT, Threshold, QuorumsOf, Voted
<1>5. VotesInv
  BY <1>3, <1>4
     DEF VotesInv, VotesOnce, SoftJustified, StagedJustified, DownIsBottom,
         CertBinds, RecoveryBinds, SoftKeeps
<1>6. ASSUME NEW n PROVE NodeInv(n, newPlayer)
  <2>1. VotesBehind(n, newPlayer) /\ CertHeld(n, newPlayer) /\ PinnedHeld(n, newPlayer)
    BY <1>3, Zenon DEF VotesBehind, CertHeld, PinnedHeld
  <2>2. StagedSound(newPlayer) /\ StatusSound(newPlayer)
    BY Zenon DEF StagedSound, StatusSound, newPlayer
  <2>3. FreshestSound(newPlayer) /\ EnteredSound(newPlayer)
    <3>1. newPlayer.Period = 0 /\ newPlayer.Freshest.T = "none"
      BY Zenon DEF newPlayer, noEvent
    <3>2. QED
      BY <3>1 DEF FreshestSound, EnteredSound
  <2>4. newPlayer.Loose = FALSE
    BY Zenon DEF newPlayer
  <2>5. QED
    BY <2>1, <2>2, <2>3, <2>4, Zenon DEF NodeInv
<1>7. NodesInv
  BY <1>6, Zenon DEF NodesInv, Init
<1>8. LedgerCertified
  BY Zenon DEF LedgerCertified, Init
<1>9. QED
  BY <1>2, <1>5, <1>7, <1>8, Zenon DEF SafetyInv

-----------------------------------------------------------------------------
(* What the invariant implies.                                             *)

\* The invariant implies that certificates agree.
LEMMA ImpliesCertificatesAgree == SafetyInv => CertificatesAgree
<1> SUFFICES ASSUME SafetyInv, NEW p \in Periods, NEW q \in Periods,
                    NEW v \in Values, NEW w \in Values, CertT(p, v), CertT(q, w)
             PROVE  v = w
  BY Zenon DEF CertificatesAgree, CertT
<1>1. TypeOK /\ VotesOnce /\ StagedJustified /\ SoftKeeps
  BY Zenon DEF SafetyInv, VotesInv
<1>2. SoftT(p, v) /\ SoftT(q, w)
  BY <1>1, CertIsSoft, BottomFacts, Zenon
<1>3. Choosable(p, v) /\ Choosable(q, w)
  BY CertChoosable, Zenon
<1>4. CASE p = q
  BY <1>1, <1>2, <1>4, SoftUnique, BottomFacts, Zenon
<1>5. CASE p < q
  BY <1>1, <1>2, <1>3, <1>5, Zenon DEF SoftKeeps
<1>6. CASE q < p
  BY <1>1, <1>2, <1>3, <1>6, Zenon DEF SoftKeeps
<1>7. QED
  BY <1>4, <1>5, <1>6, BoundsAssumption DEF Periods

\* The components of a vote have their types.
LEMMA VoteFields ==
    ASSUME TypeOK, NEW x \in votes
    PROVE  /\ x[1] \in Honest /\ x[2] \in Periods /\ x[3] \in Steps
           /\ x[4] \in ValuesOrBottom /\ Voted(x[1], x[2], x[3], x[4])
BY DEF TypeOK, Voted

\* The invariant implies that no honest node equivocates.
LEMMA ImpliesOneVotePerStep == SafetyInv => OneVotePerStep
<1> SUFFICES ASSUME SafetyInv, NEW x \in votes, NEW y \in votes,
                    x[1] = y[1], x[2] = y[2], x[3] = y[3], x[3] # redo
             PROVE  x[4] = y[4]
  BY DEF OneVotePerStep
<1>1. TypeOK /\ VotesInv
  BY Zenon DEF SafetyInv
<1>2. /\ x[1] \in Honest /\ x[2] \in Periods /\ x[3] \in Steps
      /\ x[4] \in ValuesOrBottom /\ y[4] \in ValuesOrBottom
      /\ Voted(x[1], x[2], x[3], x[4]) /\ Voted(x[1], x[2], x[3], y[4])
  BY <1>1, VoteFields
<1>3. CASE x[3] \in {soft} \cup (next..MaxStep)
  BY <1>1, <1>2, <1>3 DEF VotesInv, VotesOnce
<1>4. CASE x[3] \in {cert, late}
  <2>1. SoftT(x[2], x[4]) /\ SoftT(x[2], y[4])
    BY <1>1, <1>2, <1>4 DEF VotesInv, StagedJustified
  <2>2. QED
    BY <1>1, <1>2, <2>1, SoftUnique DEF VotesInv
<1>5. CASE x[3] = down
  BY <1>1, <1>2, <1>5 DEF VotesInv, DownIsBottom
<1>6. QED
  BY <1>2, <1>3, <1>4, <1>5 DEF Steps, NextSteps, FastSteps

\* The invariant implies that recovery keeps a certified value.
LEMMA ImpliesRecoveryKeepsCertified == SafetyInv => RecoveryKeepsCertified
<1> SUFFICES ASSUME SafetyInv, NEW c \in Cast, NEW e \in Cast,
                    c[2] = cert, Threshold(c[1], cert, c[3]),
                    e[2] \in NextSteps, Threshold(e[1], e[2], e[3]),
                    c[1] <= e[1]
             PROVE  e[3] = c[3]
  BY Zenon DEF RecoveryKeepsCertified
<1>1. TypeOK /\ CertBinds /\ RecoveryBinds
  BY Zenon DEF SafetyInv, VotesInv
<1>2. c[1] \in Periods /\ e[1] \in Periods /\ e[3] \in ValuesOrBottom
      /\ c[3] \in ValuesOrBottom
  BY <1>1 DEF Cast, TypeOK
<1>3. c[3] \in Values
  BY <1>2, Zenon DEF Threshold, ValuesOrBottom
<1>4. Choosable(c[1], c[3])
  BY <1>2, <1>3, CertChoosable, Zenon DEF CertT
<1>5. NextT(e[1], e[3])
  BY Zenon DEF NextT
<1>6. QED
  BY <1>1, <1>2, <1>3, <1>4, <1>5, NextKeeps, Zenon

\* The invariant implies that a cert voter holds the certified block.
LEMMA ImpliesCertVoterHasBlock == SafetyInv => CertVoterHasBlock
<1> SUFFICES ASSUME SafetyInv, NEW n \in Honest, NEW p \in Periods,
                    NEW v \in Values, InRound(n), Voted(n, p, cert, v),
                    CertT(p, v)
             PROVE  v \in node[n].Assembled
  BY Zenon DEF CertVoterHasBlock, Voted, CertT
<1>1. node[n] \in NodeState /\ NodeInv(n, node[n])
  BY ActsSoundly, Zenon
<1>2. Choosable(p, v)
  BY CertChoosable, Zenon
<1>3. p <= node[n].Period
  BY <1>1, StepFacts, BottomFacts, Zenon DEF NodeInv, VotesBehind
<1>4. CASE p = node[n].Period
  BY <1>1, <1>4, Zenon DEF NodeInv, CertHeld
<1>5. CASE p < node[n].Period
  BY <1>1, <1>2, <1>5, Zenon DEF NodeInv, PinnedHeld
<1>6. QED
  BY <1>1, <1>3, <1>4, <1>5, NodeFields, BoundsAssumption DEF Periods

-----------------------------------------------------------------------------
(* The theorems.                                                           *)

(* The invariant holds, for any number of nodes and any quorums of which   *)
(* two soft ones, and a cert and a next one, share an honest node, and     *)
(* whatever crashes, if no node fast-votes before it leaves the cert step, *)
(* no staged block is displaced (proposalStore.trim) and no node dies      *)
(* twice between two writes of its state (Service.persistState).           *)
THEOREM Safety ==
    ASSUME Timely = Honest, StagedKept, DiskKept
    PROVE  Spec => []SafetyInv
<1>1. Init => SafetyInv
  BY InitSafety, Zenon
<1>2. SafetyInv /\ [Next]_vars => SafetyInv'
  BY NextKeepsSafety, StutterKeepsSafety, Zenon
<1>3. QED
  BY <1>1, <1>2, PTL DEF Spec

(* A round has one outcome: no two certificates are for different values,  *)
(* whatever their periods (handleThresholdEvent, issueSoftVote,            *)
(* issueNextVote, issueFastVote, enterPeriod and their persistence).       *)
THEOREM RoundSafety ==
    ASSUME Timely = Honest, StagedKept, DiskKept
    PROVE  Spec => []CertificatesAgree
BY Safety, ImpliesCertificatesAgree, PTL

(* Restarting from what persistState wrote never makes an honest node      *)
(* equivocate in any step but redo.                                        *)
THEOREM NoEquivocation ==
    ASSUME Timely = Honest, StagedKept, DiskKept
    PROVE  Spec => []OneVotePerStep
BY Safety, ImpliesOneVotePerStep, PTL

(* After a certificate, periods are entered with its value only.           *)
THEOREM RecoveryAgrees ==
    ASSUME Timely = Honest, StagedKept, DiskKept
    PROVE  Spec => []RecoveryKeepsCertified
BY Safety, ImpliesRecoveryKeepsCertified, PTL

(* pinned and staged blocks survive trim: a cert voter of a certified      *)
(* value still has its block, periods later and after restarts.            *)
THEOREM BlockAvailable ==
    ASSUME Timely = Honest, StagedKept, DiskKept
    PROVE  Spec => []CertVoterHasBlock
BY Safety, ImpliesCertVoterHasBlock, PTL

(* ensureAction writes certified values only.                              *)
THEOREM CommitsAreCertified ==
    ASSUME Timely = Honest, StagedKept, DiskKept
    PROVE  Spec => []LedgerCertified
<1>1. SafetyInv => LedgerCertified
  BY Zenon DEF SafetyInv
<1>2. QED
  BY <1>1, Safety, PTL

-----------------------------------------------------------------------------
(* A cert vote binds the votes after it, whether or not nodes fast-vote    *)
(* early and lose staged blocks.                                           *)

\* What is known of a node holds after a step in which it does not vote.
LEMMA BoundKeeps ==
    ASSUME votes \subseteq votes', NEW m, NEW x, Bound(m, x),
           \A p, s, v : Voted(m, p, s, v)' => Voted(m, p, s, v)
    PROVE  Bound(m, x)'
<1>1. \A p, v : SoftT(p, v) => SoftT(p, v)'
  BY ThresholdMono, Zenon DEF SoftT
<1>2. QED
  BY <1>1, Zenon DEF Bound, CertStaged, StepsBehind, StagedSound

\* To show BoundNodes', look at the values the nodes have after the step.
LEMMA BoundNodesNext ==
    ASSUME \A m \in Honest : \A x :
              /\ x = node'[m] /\ InRound(m)' => Bound(m, x)'
              /\ x = disk'[m] => Bound(m, x)'
    PROVE  BoundNodes'
<1> SUFFICES ASSUME NEW m \in Honest
             PROVE  (InRound(m)' => Bound(m, node[m])') /\ Bound(m, disk[m])'
  BY Zenon DEF BoundNodes
<1>1. ASSUME NEW x, x = node'[m], Bound(m, x)' PROVE Bound(m, node[m])'
  BY <1>1, Zenon DEF Bound, CertStaged, StepsBehind, StagedSound
<1>2. ASSUME NEW x, x = disk'[m], Bound(m, x)' PROVE Bound(m, disk[m])'
  BY <1>2, Zenon DEF Bound, CertStaged, StepsBehind, StagedSound
<1>3. PICK x, y : x = node'[m] /\ y = disk'[m]
  BY Zenon
<1>4. Bound(m, y)' /\ (InRound(m)' => Bound(m, x)')
  BY <1>3, Zenon
<1>5. QED
  BY <1>1, <1>2, <1>3, <1>4, Zenon

\* A step that sends no vote.
LEMMA BindQuiet ==
    ASSUME BindInv, TypeOK', votes' = votes,
           \A m \in Honest : \A x :
              /\ x = node'[m] /\ InRound(m)' => Bound(m, x)
              /\ x = disk'[m] => Bound(m, x)
    PROVE  BindInv'
<1>1. \A m, x : Bound(m, x) => Bound(m, x)'
  BY BoundKeeps, Zenon DEF Voted
<1>2. BoundNodes'
  BY <1>1, BoundNodesNext, Zenon
<1>3. SoftOnce' /\ CertJustified'
  BY Zenon DEF BindInv, SoftOnce, CertJustified, Voted, SoftT, Threshold, QuorumsOf
<1>4. QED
  BY <1>2, <1>3, Zenon DEF BindInv

LEMMA BindBecome ==
    ASSUME BindInv, NEW n \in Honest, NEW st \in NodeState, Become(n, st), Bound(n, st)
    PROVE  BindInv'
<1>1. TypeOK'
  BY Zenon DEF BindInv, TypeOK, Become
<1>2. \A m \in Honest : /\ node'[m] = IF m = n THEN st ELSE node[m]
                        /\ InRound(m)' = InRound(m) /\ disk' = disk
  BY Zenon DEF BindInv, TypeOK, InRound, Become
<1>3. \A m \in Honest : \A x :
         /\ x = node'[m] /\ InRound(m)' => Bound(m, x)
         /\ x = disk'[m] => Bound(m, x)
  BY <1>2, Zenon DEF BindInv, BoundNodes
<1>4. QED
  BY <1>1, <1>3, BindQuiet, Zenon DEF Become

\* What the vote of a node in state st must satisfy.
MayVote(n, st, s, v) ==
    /\ s = soft => /\ st.Step > soft
                   /\ \A w \in ValuesOrBottom : ~Voted(n, st.Period, soft, w)
    /\ s = cert => v = st.Staging[st.Period] /\ v \in Values
    /\ s \in next..MaxStep => st.Step > cert

\* A vote that is persisted first.
LEMMA BindVote ==
    ASSUME BindInv, NEW n \in Honest, NEW st \in NodeState, Bound(n, st),
           NEW s \in Steps, NEW v \in ValuesOrBottom, MayVote(n, st, s, v),
           PersistAndVote(n, st, s, v)
    PROVE  BindInv'
<1>1. votes' = votes \cup {<<n, st.Period, s, v>>} /\ ledger' = ledger
  BY Zenon DEF PersistAndVote
<1>2. st.Period \in Periods
  BY NodeFields, Zenon
<1>3. TypeOK'
  <2>1. <<n, st.Period, s, v>> \in Honest \X Periods \X Steps \X ValuesOrBottom
    BY <1>2, Zenon
  <2>2. QED
    BY <1>1, <2>1, Zenon DEF BindInv, TypeOK, PersistAndVote
<1>4. \A m, p, t, x : Voted(m, p, t, x)' <=>
          Voted(m, p, t, x) \/ (m = n /\ p = st.Period /\ t = s /\ x = v)
  BY <1>1, Zenon DEF Voted
<1>5. \A p, x : SoftT(p, x) => SoftT(p, x)'
  BY <1>1, ThresholdMono, Zenon DEF SoftT
<1>6. s = cert => SoftT(st.Period, v)
  BY <1>2, BottomFacts, Zenon DEF Bound, StagedSound, MayVote
<1>7. SoftOnce'
  BY <1>4, Zenon DEF BindInv, SoftOnce, MayVote
<1>8. CertJustified'
  BY <1>4, <1>5, <1>6, Zenon DEF BindInv, CertJustified
<1>9. Bound(n, st)'
  <2>1. CertStaged(n, st)'
    BY <1>4, Zenon DEF Bound, CertStaged, MayVote
  <2>2. st.Period <= st.Period
    BY <1>2, BoundsAssumption DEF Periods
  <2>3. StepsBehind(n, st)'
    BY <1>4, <2>2, Zenon DEF Bound, StepsBehind, MayVote
  <2>4. QED
    BY <1>5, <2>1, <2>3, Zenon DEF Bound, StagedSound
<1>10. ASSUME NEW m \in Honest, m # n, NEW x, Bound(m, x) PROVE Bound(m, x)'
  BY <1>1, <1>4, <1>10, BoundKeeps, Zenon
<1>11. \A m \in Honest :
          /\ node'[m] = IF m = n THEN st ELSE node[m]
          /\ disk'[m] = IF m = n THEN st ELSE disk[m]
          /\ InRound(m)' = InRound(m)
  BY Zenon DEF BindInv, TypeOK, InRound, PersistAndVote
<1>12. BoundNodes'
  <2>1. \A m \in Honest : \A x :
              /\ x = node'[m] /\ InRound(m)' => Bound(m, x)'
              /\ x = disk'[m] => Bound(m, x)'
    BY <1>9, <1>10, <1>11, Zenon DEF BindInv, BoundNodes
  <2>2. QED
    BY <2>1, BoundNodesNext, Zenon
<1>13. QED
  BY <1>3, <1>7, <1>8, <1>12, Zenon DEF BindInv

LEMMA BindAttest ==
    ASSUME BindInv, NEW n \in Honest, NEW st \in NodeState, Bound(n, st),
           NEW s \in Steps, NEW v \in ValuesOrBottom, MayVote(n, st, s, v),
           Attest(n, st, s, v)
    PROVE  BindInv'
BY BindVote, BindBecome, Zenon DEF Attest

\* A node that leaves the round, and one that restores what it persisted.
LEMMA BindEnsure ==
    ASSUME BindInv, NEW n \in Honest, NEW v \in Values, Ensure(n, v)
    PROVE  BindInv'
<1>1. newPlayer \in NodeState
  BY BoundsAssumption, BottomFacts
     DEF newPlayer, NodeState, noEvent, thresholdEvent, Periods
<1>2. TypeOK'
  BY <1>1, BottomFacts, Zenon DEF BindInv, TypeOK, Ensure
<1>3. \A m \in Honest :
         /\ m # n => node'[m] = node[m] /\ InRound(m)' = InRound(m)
         /\ m = n => ~InRound(m)'
         /\ disk' = disk
  BY BottomFacts, Zenon DEF BindInv, TypeOK, InRound, Ensure
<1>4. \A m \in Honest : \A x :
         /\ x = node'[m] /\ InRound(m)' => Bound(m, x)
         /\ x = disk'[m] => Bound(m, x)
  BY <1>3, Zenon DEF BindInv, BoundNodes
<1>5. QED
  BY <1>2, <1>4, BindQuiet, Zenon DEF Ensure

LEMMA BindRestart ==
    ASSUME DiskKept, BindInv, NEW n \in Honest, Restart(n)
    PROVE  BindInv'
<1>1. TypeOK'
  BY BottomFacts, Zenon DEF BindInv, TypeOK, Restart
<1>2. \A m \in Honest :
         /\ m # n => node'[m] = node[m] /\ InRound(m)' = InRound(m)
         /\ m = n => node'[m] = disk[m]
         /\ disk'[m] = disk[m]
  BY Zenon DEF BindInv, TypeOK, InRound, Restart
<1>3. \A m \in Honest : \A x :
         /\ x = node'[m] /\ InRound(m)' => Bound(m, x)
         /\ x = disk'[m] => Bound(m, x)
  BY <1>2, Zenon DEF BindInv, BoundNodes
<1>4. QED
  BY <1>1, <1>3, BindQuiet, Zenon DEF Restart

\* Moves of a node that keep what it is bound to: later in the period, ...
LEMMA BoundMove ==
    ASSUME NEW n, NEW st \in NodeState, NEW to \in NodeState, Bound(n, st),
           to.Period = st.Period, to.Staging = st.Staging, st.Step <= to.Step
    PROVE  Bound(n, to)
<1>1. (st.Step > soft => to.Step > soft) /\ (st.Step > cert => to.Step > cert)
  BY NodeFields, BoundsAssumption
<1>2. QED
  BY <1>1, Zenon DEF Bound, CertStaged, StepsBehind, StagedSound

\* ... a soft threshold staged, which is for the value the node voted for, ...
LEMMA BoundStage ==
    ASSUME BindInv, NEW n \in Honest, NEW st \in NodeState, Bound(n, st),
           NEW e, e.Period \in Periods, e.Proposal \in Values,
           SoftT(e.Period, e.Proposal), NEW to, to = Stage(st, e)
    PROVE  Bound(n, to)
<1>1. /\ to.Period = st.Period /\ to.Step = st.Step
      /\ to.Staging = [st.Staging EXCEPT ![e.Period] = e.Proposal]
  <2>1. Stages(to, st, e)
    BY StageFacts, Zenon
  <2>2. QED
    BY <2>1, Zenon DEF Stages
<1>2. \A p \in Periods :
         to.Staging[p] = IF p = e.Period THEN e.Proposal ELSE st.Staging[p]
  BY <1>1, NodeFields, Zenon
<1>3. StepsBehind(n, to)
  BY <1>1, Zenon DEF Bound, StepsBehind
<1>4. StagedSound(to)
  BY <1>2, Zenon DEF Bound, StagedSound
<1>5. ASSUME NEW v \in Values, Voted(n, st.Period, cert, v)
      PROVE  to.Staging[st.Period] = v
  <2>1. st.Staging[st.Period] = v /\ st.Period \in Periods
    BY <1>5, NodeFields, Zenon DEF Bound, CertStaged
  <2>2. SoftT(st.Period, v)
    BY <1>5, <2>1, BottomFacts, Zenon DEF BindInv, CertJustified
  <2>3. st.Period = e.Period => v = e.Proposal
    BY <2>1, <2>2, BottomFacts, SoftOnceUnique, Zenon DEF BindInv
  <2>4. QED
    BY <1>2, <2>1, <2>3, Zenon
<1>6. QED
  BY <1>1, <1>3, <1>4, <1>5, Zenon DEF Bound, CertStaged

\* ... and a later period, where it has not voted.
LEMMA BoundEnter ==
    ASSUME TypeOK, NEW n \in Honest, NEW st \in NodeState, Bound(n, st),
           NEW to \in NodeState, st.Period < to.Period, to.Staging = st.Staging
    PROVE  Bound(n, to)
<1>1. \A p, s, v : Voted(n, p, s, v) =>
         p \in Periods /\ s \in Steps /\ v \in ValuesOrBottom
  BY Zenon DEF TypeOK, Voted
<1>2. \A p, s, v : Voted(n, p, s, v) => p <= st.Period
  BY <1>1, Zenon DEF Bound, StepsBehind
<1>3. \A p \in Periods : p <= st.Period => p <= to.Period /\ p # to.Period
  BY NodeFields, BoundsAssumption DEF Periods
<1>4. CertStaged(n, to) /\ StepsBehind(n, to)
  BY <1>1, <1>2, <1>3, Zenon DEF CertStaged, StepsBehind
<1>5. QED
  BY <1>4, Zenon DEF Bound, StagedSound

\* The node that acts, when it is in the round.
LEMMA ActsBound ==
    ASSUME BindInv, NEW n \in Honest, InRound(n)
    PROVE  node[n] \in NodeState /\ Bound(n, node[n]) /\ TypeOK
BY Zenon DEF BindInv, BoundNodes, TypeOK

\* A node that votes in a step after cert, or cert-votes what it has staged.
LEMMA MayNextVote ==
    ASSUME NEW n, NEW st, NEW s, NEW v, s # soft, s # cert,
           s \in next..MaxStep => st.Step > cert
    PROVE  MayVote(n, st, s, v)
BY Zenon DEF MayVote

LEMMA MayCertVote ==
    ASSUME NEW n, NEW st, NEW v \in Values, v = st.Staging[st.Period]
    PROVE  MayVote(n, st, cert, v)
<1>1. cert # soft /\ cert \notin next..MaxStep
  BY BoundsAssumption
<1>2. QED
  BY <1>1, Zenon DEF MayVote

\* The timeouts.
LEMMA SoftTimeoutBinds ==
    ASSUME BindInv, NEW n \in Honest, NEW prop \in ValuesOrBottom,
           SoftTimeout(n, prop)
    PROVE  BindInv'
<1>1. PICK st, to, v :
         /\ st = node[n] /\ to = [st EXCEPT !.Step = cert]
         /\ v = SoftVote(st, prop)
  BY Zenon
<1>2. /\ InRound(n) /\ st.Step = soft
      /\ Become(n, to) \/ Attest(n, to, soft, v)
  BY <1>1, Zenon DEF SoftTimeout
<1>3. st \in NodeState /\ Bound(n, st)
  BY <1>1, <1>2, ActsBound, Zenon
<1>4. /\ cert \in 1..MaxStep /\ soft <= cert /\ cert > soft /\ ~(soft > soft)
      /\ soft # cert /\ soft \notin next..MaxStep
  BY BoundsAssumption
<1>5. to \in NodeState
      /\ to.Period = st.Period /\ to.Step = cert /\ to.Staging = st.Staging
  BY <1>1, <1>3, <1>4, Zenon DEF NodeState
<1>6. Bound(n, to)
  BY <1>2, <1>3, <1>4, <1>5, BoundMove, Zenon
<1>7. v \in ValuesOrBottom
  BY <1>1, <1>3, SoftVoteType, Zenon
<1>8. MayVote(n, to, soft, v)
  <2>1. st.Period \in Periods
    BY <1>3, NodeFields, Zenon
  <2>2. \A w \in ValuesOrBottom : ~Voted(n, st.Period, soft, w)
    BY <1>2, <1>3, <1>4, <2>1, StepFacts, Zenon DEF Bound, StepsBehind
  <2>3. QED
    BY <1>4, <1>5, <2>2, Zenon DEF MayVote
<1>9. QED
  BY <1>2, <1>5, <1>6, <1>7, <1>8, StepFacts, BindAttest, BindBecome, Zenon

\* A vote for NextVote, after a change of step.
LEMMA NextVoteBinds ==
    ASSUME BindInv, NEW n \in Honest, NEW st, st = node[n], InRound(n),
           NEW s \in NextSteps, NEW k \in 1..MaxStep, st.Step <= k, NEW b \in BOOLEAN,
           s \in next..MaxStep => k > cert,
           Attest(n, [st EXCEPT !.Step = k, !.Napping = b], s, NextVote(st))
    PROVE  BindInv'
<1>1. PICK to : to = [st EXCEPT !.Step = k, !.Napping = b]
  BY Zenon
<1>2. st \in NodeState /\ Bound(n, st)
  BY ActsBound, Zenon
<1>3. to \in NodeState
      /\ to.Period = st.Period /\ to.Step = k /\ to.Staging = st.Staging
  BY <1>1, <1>2, Zenon DEF NodeState
<1>4. Bound(n, to)
  BY <1>2, <1>3, BoundMove, Zenon
<1>5. s \in Steps /\ s # soft /\ s # cert
  BY BoundsAssumption DEF Steps, NextSteps, FastSteps
<1>6. MayVote(n, to, s, NextVote(st)) /\ NextVote(st) \in ValuesOrBottom
  BY <1>2, <1>3, <1>5, MayNextVote, NextVoteType, Zenon
<1>7. QED
  BY <1>1, <1>3, <1>4, <1>5, <1>6, BindAttest, Zenon

LEMMA CertTimeoutBinds ==
    ASSUME BindInv, NEW n \in Honest, CertTimeout(n)
    PROVE  BindInv'
<1>1. PICK st : st = node[n]
  BY Zenon
<1>2. InRound(n) /\ st.Step = cert
      /\ Attest(n, [st EXCEPT !.Step = next, !.Napping = FALSE], next, NextVote(st))
  BY <1>1, Zenon DEF CertTimeout
<1>3. next \in 1..MaxStep /\ st.Step <= next /\ next \in NextSteps /\ next > cert
  BY <1>2, BoundsAssumption DEF NextSteps
<1>4. QED
  BY <1>1, <1>2, <1>3, NextVoteBinds, Zenon

LEMMA NapTimeoutBinds ==
    ASSUME BindInv, NEW n \in Honest, NapTimeout(n)
    PROVE  BindInv'
<1>1. PICK st, k, to : /\ st = node[n] /\ k = st.Step + 1
                       /\ to = [st EXCEPT !.Step = k, !.Napping = TRUE]
  BY Zenon
<1>2. InRound(n) /\ st.Step \in next..(MaxStep - 1) /\ Become(n, to)
  BY <1>1, Zenon DEF NapTimeout
<1>3. st \in NodeState /\ Bound(n, st)
  BY <1>1, <1>2, ActsBound, Zenon
<1>4. k \in 1..MaxStep /\ st.Step <= k
  BY <1>1, <1>2, BoundsAssumption
<1>5. to \in NodeState
      /\ to.Period = st.Period /\ to.Step = k /\ to.Staging = st.Staging
  BY <1>1, <1>3, <1>4, Zenon DEF NodeState
<1>6. Bound(n, to)
  BY <1>3, <1>4, <1>5, BoundMove, Zenon
<1>7. QED
  BY <1>2, <1>5, <1>6, BindBecome, Zenon

LEMMA NextTimeoutBinds ==
    ASSUME BindInv, NEW n \in Honest, NextTimeout(n)
    PROVE  BindInv'
<1>1. PICK st : st = node[n]
  BY Zenon
<1>2. InRound(n) /\ st.Step >= next
      /\ Attest(n, [st EXCEPT !.Napping = FALSE], st.Step, NextVote(st))
  BY <1>1, Zenon DEF NextTimeout
<1>3. st \in NodeState
  BY <1>1, <1>2, ActsBound, Zenon
<1>4. /\ st.Step \in 1..MaxStep /\ st.Step <= st.Step /\ st.Step \in NextSteps
      /\ st.Step > cert
  BY <1>2, <1>3, NodeFields, BoundsAssumption DEF NextSteps
<1>5. [st EXCEPT !.Napping = FALSE] = [st EXCEPT !.Step = st.Step, !.Napping = FALSE]
  BY <1>3, Zenon DEF NodeState
<1>6. Attest(n, [st EXCEPT !.Step = st.Step, !.Napping = FALSE], st.Step, NextVote(st))
  BY <1>2, <1>5, Zenon
<1>7. QED
  BY <1>1, <1>2, <1>4, <1>6, NextVoteBinds, Zenon

LEMMA FastTimeoutBinds ==
    ASSUME BindInv, NEW n \in Honest, FastTimeout(n)
    PROVE  BindInv'
<1>1. PICK st, s : st = node[n] /\ s = FastStep(st)
  BY Zenon
<1>2. InRound(n) /\ Attest(n, st, s, NextVote(st))
  BY <1>1, Zenon DEF FastTimeout
<1>3. st \in NodeState
  BY <1>1, <1>2, ActsBound, Zenon
<1>4. s \in NextSteps /\ s \notin next..MaxStep
  BY <1>1, BoundsAssumption DEF FastStep, FastSteps, NextSteps
<1>5. st.Step \in 1..MaxStep /\ st.Step <= st.Step /\ st.Napping \in BOOLEAN
  BY <1>3, NodeFields, BoundsAssumption
<1>6. [st EXCEPT !.Step = st.Step, !.Napping = st.Napping] = st
  BY <1>3, Zenon DEF NodeState
<1>7. Attest(n, [st EXCEPT !.Step = st.Step, !.Napping = st.Napping], s, NextVote(st))
  BY <1>2, <1>6, Zenon
<1>8. QED
  BY <1>1, <1>2, <1>4, <1>5, <1>7, NextVoteBinds, Zenon

\* Where a node stands after a change of blocks, of the period, or of the
\* value staged.
SamePlace(to, st) == to.Period = st.Period /\ to.Staging = st.Staging
InPeriod(to, p) == to.Period = p
StagedFor(to, st, e) == to.Period = st.Period /\ to.Staging[e.Period] = e.Proposal

\* A change of blocks only.
LEMMA BlocksBind ==
    ASSUME BindInv, NEW n \in Honest, NEW st \in NodeState, Bound(n, st),
           NEW kept \in SUBSET Values, NEW b \in BOOLEAN,
           NEW to, to = [st EXCEPT !.Assembled = kept, !.Loose = b]
    PROVE  to \in NodeState /\ Bound(n, to) /\ SamePlace(to, st)
<1>1. /\ to \in NodeState /\ to.Period = st.Period /\ to.Step = st.Step
      /\ to.Staging = st.Staging
  BY ZenonT(30) DEF NodeState
<1>2. st.Step <= to.Step
  BY <1>1, NodeFields, BoundsAssumption
<1>3. QED
  BY <1>1, <1>2, BoundMove, Zenon DEF SamePlace

\* A threshold of any kind is remembered.
LEMMA ObserveBinds ==
    ASSUME BindInv, NEW n \in Honest, InRound(n), NEW e \in thresholdEvent,
           NEW to, to = Observe(node[n], e)
    PROVE  to \in NodeState /\ Bound(n, to)
<1>1. node[n] \in NodeState /\ Bound(n, node[n])
  BY ActsBound, Zenon
<1>2. to \in NodeState /\ Caches(to, node[n], e)
  BY <1>1, ObserveFacts, Zenon
<1>3. to.Period = node[n].Period /\ to.Step = node[n].Step
      /\ to.Staging = node[n].Staging
  BY <1>2, Zenon DEF Caches
<1>4. node[n].Step <= to.Step
  BY <1>1, <1>3, NodeFields, BoundsAssumption
<1>5. QED
  BY <1>1, <1>2, <1>3, <1>4, BoundMove, Zenon

\* A later period is entered.
LEMMA EnterBinds ==
    ASSUME BindInv, NEW n \in Honest, NEW st \in NodeState, Bound(n, st),
           NEW e \in thresholdEvent, NEW target \in Periods, st.Period < target,
           NEW keep, NEW kept \in Trims(n, st, keep),
           NEW to, to = enterPeriod(st, e, target, kept)
    PROVE  to \in NodeState /\ Bound(n, to) /\ InPeriod(to, target)
<1>1. kept \in SUBSET Values
  BY NodeFields, Zenon DEF Trims
<1>2. to \in NodeState /\ Starts(to, st, e, target, kept)
  BY <1>1, EnterFacts, Zenon
<1>3. to.Period = target /\ to.Staging = st.Staging
  BY <1>2, Zenon DEF Starts
<1>4. QED
  BY <1>2, <1>3, BoundEnter, Zenon DEF BindInv, InPeriod

\* A value is staged.
LEMMA StageBinds ==
    ASSUME BindInv, NEW n \in Honest, NEW st \in NodeState, Bound(n, st),
           NEW e \in thresholdEvent, e.Proposal \in Values,
           SoftT(e.Period, e.Proposal), NEW to, to = Stage(st, e)
    PROVE  to \in NodeState /\ Bound(n, to) /\ StagedFor(to, st, e)
<1>1. e.Period \in Periods
  BY Zenon DEF thresholdEvent
<1>2. to \in NodeState /\ Stages(to, st, e)
  BY <1>1, StageFacts, Zenon
<1>3. Bound(n, to)
  BY <1>1, BoundStage, Zenon
<1>4. to.Period = st.Period
      /\ to.Staging = [st.Staging EXCEPT ![e.Period] = e.Proposal]
  BY <1>2, Zenon DEF Stages
<1>5. QED
  BY <1>1, <1>2, <1>3, <1>4, NodeFields, Zenon DEF StagedFor

\* The threshold events.
LEMMA StaleThresholdBinds ==
    ASSUME BindInv, NEW n \in Honest, InRound(n), NEW e \in thresholdEvent,
           StaleThreshold(n, e)
    PROVE  BindInv'
<1>1. PICK to : to = Observe(node[n], e)
  BY Zenon
<1>2. to \in NodeState /\ Bound(n, to)
  BY <1>1, ObserveBinds, Zenon
<1>3. QED
  BY <1>1, <1>2, BindBecome, Zenon DEF StaleThreshold

LEMMA CertThresholdBinds ==
    ASSUME BindInv, NEW n \in Honest, InRound(n), NEW e \in thresholdEvent,
           e.Proposal \in Values, CertT(e.Period, e.Proposal), certThreshold(n, e)
    PROVE  BindInv'
<1>1. PICK ob, st : ob = Observe(node[n], e) /\ st = Stage(ob, e)
  BY Zenon
<1>2. \/ Ensure(n, e.Proposal)
      \/ st.Period < e.Period /\ \E kept \in Trims(n, st, {e.Proposal}) :
            Become(n, enterPeriod(st, e, e.Period, kept))
      \/ \E kept \in Trims(n, st, Kept(st)) :
            Become(n, [st EXCEPT !.Assembled = kept,
                                 !.Loose = @ /\ e.Period # st.Period])
  BY <1>1, Zenon DEF certThreshold
<1>3. ob \in NodeState /\ Bound(n, ob) /\ e.Period \in Periods
  BY <1>1, ObserveBinds, Zenon DEF thresholdEvent
<1>4. SoftT(e.Period, e.Proposal)
  BY <1>3, CertIsSoft, BottomFacts, Zenon DEF BindInv
<1>5. st \in NodeState /\ Bound(n, st)
  BY <1>1, <1>3, <1>4, StageBinds, Zenon
<1>6. ASSUME st.Period < e.Period, NEW kept \in Trims(n, st, {e.Proposal}),
             Become(n, enterPeriod(st, e, e.Period, kept))
      PROVE  BindInv'
  <2>1. PICK to : to = enterPeriod(st, e, e.Period, kept)
    BY Zenon
  <2>2. to \in NodeState /\ Bound(n, to)
    BY <1>3, <1>5, <1>6, <2>1, EnterBinds, Zenon
  <2>3. QED
    BY <1>6, <2>1, <2>2, BindBecome, Zenon
<1>7. ASSUME NEW kept \in Trims(n, st, Kept(st)),
             Become(n, [st EXCEPT !.Assembled = kept,
                                  !.Loose = @ /\ e.Period # st.Period])
      PROVE  BindInv'
  <2>1. PICK b : b = (st.Loose /\ e.Period # st.Period)
    BY Zenon
  <2>2. b \in BOOLEAN /\ kept \in SUBSET Values
    BY <1>5, <1>7, <2>1, NodeFields, Zenon DEF Trims
  <2>3. PICK to : to = [st EXCEPT !.Assembled = kept, !.Loose = b]
    BY Zenon
  <2>4. to = [st EXCEPT !.Assembled = kept, !.Loose = @ /\ e.Period # st.Period]
    BY <1>5, <2>1, <2>3, ZenonT(30) DEF NodeState
  <2>5. to \in NodeState /\ Bound(n, to)
    BY <1>5, <2>2, <2>3, BlocksBind, Zenon
  <2>6. QED
    BY <1>7, <2>4, <2>5, BindBecome, Zenon
<1>8. QED
  BY <1>2, <1>6, <1>7, BindEnsure, Zenon

LEMMA SoftThresholdBinds ==
    ASSUME BindInv, NEW n \in Honest, InRound(n), NEW e \in thresholdEvent,
           e.Proposal \in Values, SoftT(e.Period, e.Proposal), softThreshold(n, e)
    PROVE  BindInv'
<1>1. PICK st, sg : st = Observe(node[n], e) /\ sg = Stage(st, e)
  BY Zenon
<1>2. \/ Become(n, st)
      \/ /\ st.Period < e.Period
         /\ \E kept \in Trims(n, st, {e.Proposal}) :
               LET to == Stage(enterPeriod(st, e, e.Period, kept), e) IN
               Attest(n, to, cert, e.Proposal) \/ Become(n, to)
      \/ /\ st.Period = e.Period
         /\ \E loose \in BOOLEAN :
               LET held == [sg EXCEPT !.Loose = loose] IN
               Attest(n, held, cert, e.Proposal) \/ Become(n, held)
      \/ \E kept \in Trims(n, st, {st.Pinned}) :
            Become(n, [sg EXCEPT !.Assembled = kept])
  BY <1>1, ZenonT(30) DEF softThreshold
<1>3. st \in NodeState /\ Bound(n, st) /\ e.Period \in Periods
      /\ cert \in Steps /\ e.Proposal \in ValuesOrBottom
  BY <1>1, ObserveBinds, StepFacts, BottomFacts, Zenon DEF thresholdEvent
<1>4. sg \in NodeState /\ Bound(n, sg) /\ StagedFor(sg, st, e)
  BY <1>1, <1>3, StageBinds, Zenon
<1>5. CASE Become(n, st)
  BY <1>3, <1>5, BindBecome, Zenon
<1>6. ASSUME NEW to \in NodeState, Bound(n, to), to.Period = e.Period,
             to.Staging[e.Period] = e.Proposal,
             Attest(n, to, cert, e.Proposal) \/ Become(n, to)
      PROVE  BindInv'
  <2>1. MayVote(n, to, cert, e.Proposal)
    BY <1>6, MayCertVote, Zenon
  <2>2. CASE Attest(n, to, cert, e.Proposal)
    BY <1>3, <1>6, <2>1, <2>2, BindAttest, Zenon
  <2>3. CASE Become(n, to)
    BY <1>6, <2>3, BindBecome, Zenon
  <2>4. QED
    BY <1>6, <2>2, <2>3, Zenon
<1>7. ASSUME st.Period < e.Period, NEW kept \in Trims(n, st, {e.Proposal}),
             LET to == Stage(enterPeriod(st, e, e.Period, kept), e) IN
             Attest(n, to, cert, e.Proposal) \/ Become(n, to)
      PROVE  BindInv'
  <2>1. PICK ent, to : ent = enterPeriod(st, e, e.Period, kept) /\ to = Stage(ent, e)
    BY Zenon
  <2>2. ent \in NodeState /\ Bound(n, ent) /\ InPeriod(ent, e.Period)
    BY <1>3, <1>7, <2>1, EnterBinds, Zenon
  <2>3. to \in NodeState /\ Bound(n, to) /\ to.Period = e.Period
        /\ to.Staging[e.Period] = e.Proposal
    <3>1. to \in NodeState /\ Bound(n, to) /\ StagedFor(to, ent, e)
      BY <2>1, <2>2, StageBinds, Zenon
    <3>2. QED
      BY <2>2, <3>1, Zenon DEF StagedFor, InPeriod
  <2>4. Attest(n, to, cert, e.Proposal) \/ Become(n, to)
    BY <1>7, <2>1, Zenon
  <2>5. QED
    BY <1>6, <2>3, <2>4, Zenon
<1>8. ASSUME st.Period = e.Period, NEW loose \in BOOLEAN,
             LET held == [sg EXCEPT !.Loose = loose] IN
             Attest(n, held, cert, e.Proposal) \/ Become(n, held)
      PROVE  BindInv'
  <2>1. PICK to : to = [sg EXCEPT !.Loose = loose]
    BY Zenon
  <2>2. to = [sg EXCEPT !.Assembled = sg.Assembled, !.Loose = loose]
        /\ sg.Assembled \in SUBSET Values
    BY <1>4, <2>1, NodeFields, ZenonT(30) DEF NodeState
  <2>3. to \in NodeState /\ Bound(n, to) /\ to.Period = e.Period
        /\ to.Staging[e.Period] = e.Proposal
    <3>1. to \in NodeState /\ Bound(n, to) /\ SamePlace(to, sg)
      BY <1>4, <2>2, BlocksBind, Zenon
    <3>2. QED
      BY <1>4, <1>8, <3>1, Zenon DEF StagedFor, SamePlace
  <2>4. Attest(n, to, cert, e.Proposal) \/ Become(n, to)
    BY <1>8, <2>1, Zenon
  <2>5. QED
    BY <1>6, <2>3, <2>4, Zenon
<1>9. ASSUME NEW kept \in Trims(n, st, {st.Pinned}),
             Become(n, [sg EXCEPT !.Assembled = kept])
      PROVE  BindInv'
  <2>1. PICK to : to = [sg EXCEPT !.Assembled = kept]
    BY Zenon
  <2>2. to = [sg EXCEPT !.Assembled = kept, !.Loose = sg.Loose]
        /\ sg.Loose \in BOOLEAN /\ kept \in SUBSET Values
    BY <1>3, <1>4, <1>9, <2>1, NodeFields, ZenonT(30) DEF NodeState, Trims
  <2>3. to \in NodeState /\ Bound(n, to)
    BY <1>4, <2>2, BlocksBind, Zenon
  <2>4. QED
    BY <1>9, <2>1, <2>3, BindBecome, Zenon
<1>10. QED
  BY <1>2, <1>5, <1>7, <1>8, <1>9, Zenon

LEMMA NextThresholdBinds ==
    ASSUME BindInv, NEW n \in Honest, InRound(n), NEW e \in thresholdEvent,
           nextThreshold(n, e)
    PROVE  BindInv'
<1>1. PICK st : st = Observe(node[n], e)
  BY Zenon
<1>2. \/ Become(n, st)
      \/ /\ st.Period <= e.Period /\ e.Period < MaxPeriod
         /\ \E kept \in Trims(n, st, {PinnedBy(st, e)}) :
               Become(n, enterPeriod(st, e, e.Period + 1, kept))
  BY <1>1, Zenon DEF nextThreshold
<1>3. st \in NodeState /\ Bound(n, st) /\ e.Period \in Periods
  BY <1>1, ObserveBinds, Zenon DEF thresholdEvent
<1>4. ASSUME st.Period <= e.Period, e.Period < MaxPeriod,
             NEW kept \in Trims(n, st, {PinnedBy(st, e)}),
             Become(n, enterPeriod(st, e, e.Period + 1, kept))
      PROVE  BindInv'
  <2>1. e.Period + 1 \in Periods /\ st.Period < e.Period + 1
    BY <1>3, <1>4, NodeFields, BoundsAssumption DEF Periods
  <2>2. PICK to : to = enterPeriod(st, e, e.Period + 1, kept)
    BY Zenon
  <2>3. to \in NodeState /\ Bound(n, to)
    BY <1>3, <1>4, <2>1, <2>2, EnterBinds, Zenon
  <2>4. QED
    BY <1>4, <2>2, <2>3, BindBecome, Zenon
<1>5. QED
  BY <1>2, <1>3, <1>4, BindBecome, Zenon

LEMMA ThresholdEventBinds ==
    ASSUME DiskKept, BindInv, NEW n \in Honest, NEW p \in Periods,
           NEW s \in Steps, NEW v \in ValuesOrBottom, ThresholdEvent(n, p, s, v)
    PROVE  BindInv'
<1>1. PICK e : e = [T |-> EventType(s), Period |-> p, Proposal |-> v]
  BY Zenon
<1>2. /\ InRound(n) /\ Threshold(p, s, v)
      /\ Restart(n) \/ StaleThreshold(n, e) \/ certThreshold(n, e)
         \/ softThreshold(n, e) \/ nextThreshold(n, e)
  BY <1>1, Zenon DEF ThresholdEvent
<1>3. e \in thresholdEvent
  BY <1>1, Zenon DEF thresholdEvent, EventType
<1>4. e.Period = p /\ e.Proposal = v /\ e.T = EventType(s)
  BY <1>1, Zenon
<1>5. e.T = "cert" => CertT(e.Period, e.Proposal) /\ e.Proposal \in Values
  BY <1>2, <1>4, Zenon DEF EventType, CertT, Threshold, ValuesOrBottom
<1>6. e.T = "soft" => SoftT(e.Period, e.Proposal) /\ e.Proposal \in Values
  BY <1>2, <1>4, Zenon DEF EventType, SoftT, Threshold, ValuesOrBottom
<1>7. CASE certThreshold(n, e)
  <2>1. e.T = "cert"
    BY <1>7, Zenon DEF certThreshold
  <2>2. QED
    BY <1>2, <1>3, <1>5, <1>7, <2>1, CertThresholdBinds, Zenon
<1>8. CASE softThreshold(n, e)
  <2>1. e.T = "soft"
    BY <1>8, Zenon DEF softThreshold
  <2>2. QED
    BY <1>2, <1>3, <1>6, <1>8, <2>1, SoftThresholdBinds, Zenon
<1>9. QED
  BY <1>2, <1>3, <1>7, <1>8, StaleThresholdBinds, NextThresholdBinds,
     BindRestart, Zenon

\* Blocks that arrive and blocks that are dropped.
LEMMA PayloadVerifiedBinds ==
    ASSUME BindInv, NEW n \in Honest, NEW v \in Values, PayloadVerified(n, v)
    PROVE  BindInv'
<1>1. PICK st, kept, to :
         /\ st = node[n] /\ kept = st.Assembled \cup {v}
         /\ to = [st EXCEPT !.Assembled = kept]
  BY Zenon
<1>2. /\ InRound(n)
      /\ \/ Ensure(n, v)
         \/ st.Staging[st.Period] = v /\ Attest(n, to, cert, v)
         \/ Become(n, to)
  BY <1>1, Zenon DEF PayloadVerified
<1>3. st \in NodeState /\ Bound(n, st)
  BY <1>1, <1>2, ActsBound, Zenon
<1>4. to = [st EXCEPT !.Assembled = kept, !.Loose = st.Loose]
      /\ st.Loose \in BOOLEAN /\ kept \in SUBSET Values
  BY <1>1, <1>3, NodeFields, ZenonT(30) DEF NodeState
<1>5. to \in NodeState /\ Bound(n, to) /\ SamePlace(to, st)
  BY <1>3, <1>4, BlocksBind, Zenon
<1>6. CASE st.Staging[st.Period] = v /\ Attest(n, to, cert, v)
  <2>1. MayVote(n, to, cert, v)
    BY <1>5, <1>6, MayCertVote, Zenon DEF SamePlace
  <2>2. QED
    BY <1>5, <1>6, <2>1, StepFacts, BottomFacts, BindAttest, Zenon
<1>7. QED
  BY <1>2, <1>5, <1>6, BindEnsure, BindBecome, Zenon

LEMMA ProposalVoteBinds ==
    ASSUME BindInv, NEW n \in Honest, ProposalVote(n)
    PROVE  BindInv'
<1>1. PICK st : st = node[n]
  BY Zenon
<1>2. InRound(n) /\ \E kept \in Trims(n, st, Kept(st)) :
         Become(n, [st EXCEPT !.Assembled = kept])
  BY <1>1, Zenon DEF ProposalVote
<1>3. PICK kept \in Trims(n, st, Kept(st)) : Become(n, [st EXCEPT !.Assembled = kept])
  BY <1>2, Zenon
<1>4. st \in NodeState /\ Bound(n, st)
  BY <1>1, <1>2, ActsBound, Zenon
<1>5. PICK to : to = [st EXCEPT !.Assembled = kept]
  BY Zenon
<1>6. to = [st EXCEPT !.Assembled = kept, !.Loose = st.Loose]
      /\ st.Loose \in BOOLEAN /\ kept \in SUBSET Values
  BY <1>4, <1>5, NodeFields, ZenonT(30) DEF NodeState, Trims
<1>7. to \in NodeState /\ Bound(n, to)
  BY <1>4, <1>6, BlocksBind, Zenon
<1>8. QED
  BY <1>3, <1>5, <1>7, BindBecome, Zenon

\* BindInv is inductive: one case for each action of Next.
LEMMA NextBinds ==
    ASSUME DiskKept, BindInv, Next
    PROVE  BindInv'
<1>1. PICK n \in Honest :
       \/ \E prop \in ValuesOrBottom : SoftTimeout(n, prop)
       \/ CertTimeout(n)
       \/ NapTimeout(n)
       \/ NextTimeout(n)
       \/ FastTimeout(n)
       \/ \E e \in Cast : ThresholdEvent(n, e[1], e[2], e[3])
       \/ \E v \in Values : PayloadVerified(n, v)
       \/ ProposalVote(n)
       \/ Crash(n)
  BY Zenon DEF Next
<1>2. ASSUME NEW e \in Cast, ThresholdEvent(n, e[1], e[2], e[3])
      PROVE  BindInv'
  <2>1. e[1] \in Periods /\ e[2] \in Steps /\ e[3] \in ValuesOrBottom
    BY DEF Cast, BindInv, TypeOK
  <2>2. QED
    BY <1>2, <2>1, ThresholdEventBinds, Zenon
<1>3. QED
  BY <1>1, <1>2, SoftTimeoutBinds, CertTimeoutBinds, NapTimeoutBinds,
     NextTimeoutBinds, FastTimeoutBinds, PayloadVerifiedBinds,
     ProposalVoteBinds, BindRestart, Zenon DEF Crash

LEMMA StutterBinds ==
    ASSUME BindInv, UNCHANGED vars
    PROVE  BindInv'
<1>1. TypeOK' /\ votes' = votes
  BY Zenon DEF BindInv, TypeOK, vars
<1>2. \A m \in Honest : \A x :
         /\ x = node'[m] /\ InRound(m)' => Bound(m, x)
         /\ x = disk'[m] => Bound(m, x)
  BY Zenon DEF BindInv, BoundNodes, InRound, vars
<1>3. QED
  BY <1>1, <1>2, BindQuiet, Zenon

LEMMA InitBinds ==
    ASSUME Init
    PROVE  BindInv
<1>1. SafetyInv
  BY InitSafety, Zenon
<1>2. \A n, p, s, v : ~Voted(n, p, s, v)
  BY Zenon DEF Init, Voted
<1>3. TypeOK /\ SoftOnce /\ CertJustified
  BY <1>1, <1>2, Zenon DEF SafetyInv, SoftOnce, CertJustified
<1>4. \A n \in Honest : StagedSound(node[n]) /\ StagedSound(disk[n])
  BY Zenon DEF Init, StagedSound, newPlayer
<1>5. BoundNodes
  BY <1>2, <1>4, Zenon DEF BoundNodes, Bound, CertStaged, StepsBehind
<1>6. QED
  BY <1>3, <1>5, Zenon DEF BindInv

\* A vote of a next step is for what issueNextVote chooses; a cert vote is
\* persisted with a state that has not left the cert step.
FreshVote(y) ==
    /\ y[3] \in NextSteps =>
          InRound(y[1]) /\ y[2] = node[y[1]].Period /\ y[4] = NextVote(node[y[1]])
    /\ y[3] = cert => disk'[y[1]].Period = y[2] /\ disk'[y[1]].Step <= cert

\* So it is for the votes of each timeout and handler.
LEMMA SoftVotes ==
    ASSUME NEW n, NEW st, NEW v, Attest(n, st, soft, v), NEW y \in votes' \ votes
    PROVE  FreshVote(y)
<1>1. y = <<n, st.Period, soft, v>>
  BY Zenon DEF Attest, PersistAndVote, Become
<1>2. y[3] = soft
  BY <1>1, Zenon
<1>3. soft \notin NextSteps /\ soft # cert
  BY BoundsAssumption DEF NextSteps, FastSteps
<1>4. QED
  BY <1>2, <1>3, Zenon DEF FreshVote

LEMMA CertVotes ==
    ASSUME TypeOK, NEW n \in Honest, NEW st, NEW v, Attest(n, st, cert, v),
           st.Step <= cert, NEW y \in votes' \ votes
    PROVE  FreshVote(y)
<1>1. y = <<n, st.Period, cert, v>> /\ disk' = [disk EXCEPT ![n] = st]
  BY Zenon DEF Attest, PersistAndVote, Become
<1>2. y[1] = n /\ y[2] = st.Period /\ y[3] = cert /\ disk'[n] = st
  BY <1>1, Zenon DEF TypeOK
<1>3. cert \notin NextSteps
  BY StepFacts, Zenon
<1>4. QED
  BY <1>2, <1>3, Zenon DEF FreshVote

LEMMA NextVotes ==
    ASSUME NEW n, InRound(n), NEW st, NEW s, s # cert,
           Attest(n, st, s, NextVote(node[n])),
           st.Period = node[n].Period, NEW y \in votes' \ votes
    PROVE  FreshVote(y)
<1>1. y = <<n, st.Period, s, NextVote(node[n])>>
  BY Zenon DEF Attest, PersistAndVote, Become
<1>2. y[1] = n /\ y[2] = st.Period /\ y[3] = s /\ y[4] = NextVote(node[n])
  BY <1>1, Zenon
<1>3. QED
  BY <1>2, Zenon DEF FreshVote

LEMMA SoftThresholdVotes ==
    ASSUME TypeOK, NEW n \in Honest, NEW e \in thresholdEvent, softThreshold(n, e),
           NEW y \in votes' \ votes
    PROVE  FreshVote(y)
<1>1. PICK st : st = Observe(node[n], e)
  BY Zenon
<1>2. st \in NodeState
  BY <1>1, ObserveFacts, Zenon DEF TypeOK
<1>3. \A to : ~Become(n, to)
  BY Zenon DEF Become
<1>4. \/ \E kept \in Trims(n, st, {e.Proposal}) :
            Attest(n, Stage(enterPeriod(st, e, e.Period, kept), e), cert, e.Proposal)
      \/ /\ st.Step <= cert
         /\ \E loose \in BOOLEAN :
               Attest(n, [Stage(st, e) EXCEPT !.Loose = loose], cert, e.Proposal)
  BY <1>1, <1>3, ZenonT(30) DEF softThreshold
<1>5. \A kept : Stage(enterPeriod(st, e, e.Period, kept), e).Step = soft
  BY <1>2, ZenonT(30) DEF NodeState, Stage, enterPeriod
<1>6. \A loose : [Stage(st, e) EXCEPT !.Loose = loose].Step = st.Step
  BY <1>2, ZenonT(30) DEF NodeState, Stage
<1>7. soft <= cert
  OBVIOUS
<1>8. QED
  BY <1>4, <1>5, <1>6, <1>7, CertVotes, Zenon

LEMMA EveryVote ==
    ASSUME TypeOK, Next, NEW y \in votes' \ votes
    PROVE  FreshVote(y)
<1>1. PICK n \in Honest :
       \/ \E prop \in ValuesOrBottom : SoftTimeout(n, prop)
       \/ CertTimeout(n)
       \/ NapTimeout(n)
       \/ NextTimeout(n)
       \/ FastTimeout(n)
       \/ \E e \in Cast : ThresholdEvent(n, e[1], e[2], e[3])
       \/ \E v \in Values : PayloadVerified(n, v)
       \/ ProposalVote(n)
       \/ Crash(n)
  BY Zenon DEF Next
<1>2. \A st : ~Become(n, st)
  BY Zenon DEF Become
<1>3. \A v : ~Ensure(n, v)
  BY Zenon DEF Ensure
<1>4. ~Restart(n)
  BY Zenon DEF Restart
<1>5. node[n] \in NodeState
  BY Zenon DEF TypeOK
<1>6. ASSUME NEW prop, SoftTimeout(n, prop) PROVE FreshVote(y)
  BY <1>2, <1>6, SoftVotes, Zenon DEF SoftTimeout
<1>7. CASE CertTimeout(n)
  <2>1. [node[n] EXCEPT !.Step = next, !.Napping = FALSE].Period = node[n].Period
    BY <1>5, Zenon DEF NodeState
  <2>2. next # cert
    BY BoundsAssumption
  <2>3. QED
    BY <1>7, <2>1, <2>2, NextVotes, Zenon DEF CertTimeout
<1>8. CASE NextTimeout(n)
  <2>1. [node[n] EXCEPT !.Napping = FALSE].Period = node[n].Period
    BY <1>5, Zenon DEF NodeState
  <2>2. node[n].Step # cert
    BY <1>8, BoundsAssumption DEF NextTimeout
  <2>3. QED
    BY <1>8, <2>1, <2>2, NextVotes, Zenon DEF NextTimeout
<1>9. CASE FastTimeout(n)
  <2>1. FastStep(node[n]) # cert
    BY BoundsAssumption DEF FastStep, FastSteps
  <2>2. QED
    BY <1>9, <2>1, NextVotes, Zenon DEF FastTimeout
<1>10. ASSUME NEW v, PayloadVerified(n, v) PROVE FreshVote(y)
  <2>1. [node[n] EXCEPT !.Assembled = @ \cup {v}].Step = node[n].Step
    BY <1>5, Zenon DEF NodeState
  <2>2. QED
    BY <1>2, <1>3, <1>10, <2>1, CertVotes, Zenon DEF PayloadVerified
<1>11. \A e : ~StaleThreshold(n, e) /\ ~nextThreshold(n, e)
  BY <1>2, Zenon DEF StaleThreshold, nextThreshold
<1>12. \A e : ~certThreshold(n, e)
  BY <1>2, <1>3, Zenon DEF certThreshold
<1>13. ASSUME NEW c \in Cast, ThresholdEvent(n, c[1], c[2], c[3]) PROVE FreshVote(y)
  <2>1. PICK e : e = [T |-> EventType(c[2]), Period |-> c[1], Proposal |-> c[3]]
    BY Zenon
  <2>2. c[1] \in Periods /\ c[2] \in Steps /\ c[3] \in ValuesOrBottom
    BY DEF Cast, TypeOK
  <2>3. e \in thresholdEvent
    BY <2>1, <2>2, Zenon DEF thresholdEvent, EventType
  <2>4. softThreshold(n, e)
    BY <1>4, <1>11, <1>12, <1>13, <2>1, Zenon DEF ThresholdEvent
  <2>5. QED
    BY <2>3, <2>4, SoftThresholdVotes, Zenon
<1>14. ~NapTimeout(n) /\ ~ProposalVote(n) /\ ~Crash(n)
  BY <1>2, <1>4, Zenon DEF NapTimeout, ProposalVote, Crash
<1>15. QED
  BY <1>1, <1>6, <1>7, <1>8, <1>9, <1>10, <1>13, <1>14, Zenon

\* The cert vote of a node that holds the block decides what it votes next.
LEMMA CertDecides ==
    ASSUME BindInv, NEW n \in Honest, InRound(n), NEW v \in ValuesOrBottom,
           Voted(n, node[n].Period, cert, v), v \in node[n].Assembled
    PROVE  NextVote(node[n]) = v
<1>1. node[n] \in NodeState /\ Bound(n, node[n])
  BY ActsBound, Zenon
<1>2. v \in Values
  BY <1>1, NodeFields, Zenon
<1>3. node[n].Staging[node[n].Period] = v
  BY <1>1, <1>2, Zenon DEF Bound, CertStaged
<1>4. QED
  BY <1>3, Zenon DEF NextVote, Committable

\* A step writes a ledger or issues votes, never both.
LEMMA StepEffect ==
    ASSUME Next
    PROVE  \/ votes \subseteq votes' /\ ledger' = ledger
           \/ /\ votes' = votes
              /\ \E n \in Honest :
                    \/ ledger' = [ledger EXCEPT ![n] = bottom]
                    \/ /\ ledger[n] = bottom
                       /\ \E v : ledger' = [ledger EXCEPT ![n] = v]
<1> DEFINE Goal == \/ votes \subseteq votes' /\ ledger' = ledger
                   \/ /\ votes' = votes
                      /\ \E n \in Honest :
                            \/ ledger' = [ledger EXCEPT ![n] = bottom]
                            \/ /\ ledger[n] = bottom
                               /\ \E v : ledger' = [ledger EXCEPT ![n] = v]
<1>1. \A n, st : Become(n, st) => Goal
  BY Zenon DEF Become
<1>2. \A n, st, s, v : Attest(n, st, s, v) => Goal
  BY Zenon DEF Attest, PersistAndVote, Become
<1>3. \A n \in Honest : \A v : InRound(n) /\ Ensure(n, v) => Goal
  BY Zenon DEF Ensure, InRound
<1>4. \A n \in Honest : Restart(n) => Goal
  BY Zenon DEF Restart
<1> HIDE DEF Goal
<1>5. \A n \in Honest, prop \in ValuesOrBottom : SoftTimeout(n, prop) => Goal
  BY <1>1, <1>2, Zenon DEF SoftTimeout
<1>6. \A n \in Honest : CertTimeout(n) => Goal
  BY <1>2, Zenon DEF CertTimeout
<1>7. \A n \in Honest : NapTimeout(n) => Goal
  BY <1>1, Zenon DEF NapTimeout
<1>8. \A n \in Honest : NextTimeout(n) \/ FastTimeout(n) => Goal
  BY <1>2, Zenon DEF NextTimeout, FastTimeout
<1>9. \A n \in Honest, v \in Values : PayloadVerified(n, v) => Goal
  BY <1>1, <1>2, <1>3, Zenon DEF PayloadVerified
<1>10. \A n \in Honest : ProposalVote(n) => Goal
  BY <1>1, Zenon DEF ProposalVote
<1>11. \A n \in Honest : \A e : StaleThreshold(n, e) => Goal
  BY <1>1, Zenon DEF StaleThreshold
<1>12. \A n \in Honest : \A e : InRound(n) /\ certThreshold(n, e) => Goal
  BY <1>1, <1>3, Zenon DEF certThreshold
<1>13. \A n \in Honest : \A e : softThreshold(n, e) => Goal
  BY <1>1, <1>2, ZenonT(60) DEF softThreshold
<1>14. \A n \in Honest : \A e : nextThreshold(n, e) => Goal
  BY <1>1, Zenon DEF nextThreshold
<1>15. \A n \in Honest : \A p, s, v : ThresholdEvent(n, p, s, v) => Goal
  BY <1>4, <1>11, <1>12, <1>13, <1>14 DEF ThresholdEvent
<1>16. Goal
  BY <1>4, <1>5, <1>6, <1>7, <1>8, <1>9, <1>10, <1>15, Zenon DEF Next, Crash
<1>17. QED
  BY <1>16, Zenon DEF Goal

LEMMA VotesGrow ==
    ASSUME Next
    PROVE  votes \subseteq votes'
BY StepEffect, Zenon

(* Whatever else it does wrong or too early, a node that has cert-voted a  *)
(* value and holds its block recovers with no other value in that period,  *)
(* because issueNextVote and issueFastVote find it staged, and a node that *)
(* has next-voted does not cert-vote any more.  Neither timely fast votes  *)
(* nor stores that keep staged blocks are assumed, only that no node dies  *)
(* twice between two writes.                                               *)
THEOREM CertVotersRecover ==
    ASSUME DiskKept
    PROVE  Spec => CertBindsNext
<1> DEFINE Binds ==
       \A x \in votes, y \in votes' \ votes :
          x[1] = y[1] /\ x[2] = y[2] =>
             /\ x[3] = cert /\ y[3] \in NextSteps /\ x[4] \in node[x[1]].Assembled
                   => y[4] = x[4]
             /\ x[3] \in next..MaxStep => y[3] # cert
<1>1. Init => BindInv
  BY InitBinds, Zenon
<1>2. BindInv /\ [Next]_vars => BindInv'
  BY NextBinds, StutterBinds, Zenon
<1>3. ASSUME BindInv, BindInv', Next, NEW x \in votes, NEW y \in votes' \ votes,
             x[1] = y[1], x[2] = y[2]
      PROVE  /\ x[3] = cert /\ y[3] \in NextSteps /\ x[4] \in node[x[1]].Assembled
                   => y[4] = x[4]
             /\ x[3] \in next..MaxStep => y[3] # cert
  <2>1. FreshVote(y)
    BY <1>3, EveryVote, Zenon DEF BindInv
  <2>2. /\ x[1] \in Honest /\ x[2] \in Periods /\ x[3] \in Steps
        /\ x[4] \in ValuesOrBottom /\ Voted(x[1], x[2], x[3], x[4])
    BY <1>3, VoteFields, Zenon DEF BindInv
  <2>3. ASSUME x[3] = cert, y[3] \in NextSteps, x[4] \in node[x[1]].Assembled
        PROVE  y[4] = x[4]
    <3>1. InRound(x[1]) /\ x[2] = node[x[1]].Period /\ y[4] = NextVote(node[x[1]])
      BY <1>3, <2>1, <2>3, Zenon DEF FreshVote
    <3>2. Voted(x[1], node[x[1]].Period, cert, x[4])
      BY <2>2, <2>3, <3>1, Zenon
    <3>3. QED
      BY <1>3, <2>2, <2>3, <3>1, <3>2, CertDecides, Zenon
  <2>4. ASSUME x[3] \in next..MaxStep, y[3] = cert
        PROVE  FALSE
    <3>1. PICK st : st = disk'[x[1]]
      BY Zenon
    <3>2. st.Period = x[2] /\ st.Step <= cert
      BY <1>3, <2>1, <2>4, <3>1, Zenon DEF FreshVote
    <3>3. Voted(x[1], x[2], x[3], x[4])'
      BY <1>3, <2>2, VotesGrow, Zenon DEF Voted
    <3>4. st \in NodeState /\ StepsBehind(x[1], disk[x[1]])'
      BY <1>3, <2>2, <3>1, Zenon DEF BindInv, BoundNodes, Bound, TypeOK
    <3>5. st.Step > cert
      BY <2>2, <2>4, <3>1, <3>2, <3>3, <3>4, Zenon DEF StepsBehind
    <3>6. QED
      BY <3>2, <3>4, <3>5, NodeFields, BoundsAssumption
  <2>5. QED
    BY <2>3, <2>4, Zenon
<1>4. BindInv /\ BindInv' /\ [Next]_vars => [Binds]_vars
  BY <1>3, Zenon
<1>5. QED
  BY <1>1, <1>2, <1>4, PTL DEF Spec, CertBindsNext, Binds

(* The states reached are those a player, its trackers and its store can   *)
(* be in, under the same assumption.                                       *)
THEOREM PlayerTypeOK ==
    ASSUME DiskKept
    PROVE  Spec => []TypeOK
<1>1. Init => BindInv
  BY InitBinds, Zenon
<1>2. BindInv /\ [Next]_vars => BindInv'
  BY NextBinds, StutterBinds, Zenon
<1>3. BindInv => TypeOK
  BY Zenon DEF BindInv
<1>4. QED
  BY <1>1, <1>2, <1>3, PTL DEF Spec

-----------------------------------------------------------------------------
(* The round implements its outcome.                                       *)

\* Every step of the round is a step of the outcome or changes nothing of it.
LEMMA OutcomeStep ==
    ASSUME SafetyInv, SafetyInv', [Next]_vars
    PROVE  [Outcome!Next]_(Outcome!vars)
<1>1. \A v, w \in Certified' : v = w
  <2>1. CertificatesAgree'
    BY ImpliesCertificatesAgree, PTL
  <2>2. QED
    BY <2>1, Zenon DEF CertificatesAgree, Certified
<1>2. CASE votes' = votes /\ ledger' = ledger
  <2>1. Certified' = Certified
    BY <1>2, Zenon DEF Certified, Threshold, QuorumsOf
  <2>2. QED
    BY <1>2, <2>1, Zenon DEF Outcome!vars
<1>3. CASE votes \subseteq votes' /\ ledger' = ledger
  <2>1. Certified \subseteq Certified'
    BY <1>3, ThresholdMono, Zenon DEF Certified
  <2>2. CASE Certified' = Certified
    BY <1>3, <2>2, Zenon DEF Outcome!vars
  <2>3. CASE Certified' # Certified
    <3>1. PICK v \in Values : v \in Certified' /\ v \notin Certified
      BY <2>1, <2>3, Zenon DEF Certified
    <3>2. Certified = {} /\ Certified' = {v}
      BY <1>1, <2>1, <3>1, Zenon
    <3>3. Outcome!Certify(v)
      BY <1>3, <3>2, Zenon DEF Outcome!Certify
    <3>4. QED
      BY <3>3, Zenon DEF Outcome!Next
  <2>4. QED
    BY <2>2, <2>3, Zenon
<1>4. ASSUME votes' = votes, NEW n \in Honest,
             ledger' = [ledger EXCEPT ![n] = bottom]
      PROVE  [Outcome!Next]_(Outcome!vars)
  <2>1. Certified' = Certified
    BY <1>4, Zenon DEF Certified, Threshold, QuorumsOf
  <2>2. Outcome!Lose(n)
    BY <1>4, <2>1, Zenon DEF Outcome!Lose
  <2>3. QED
    BY <2>2, Zenon DEF Outcome!Next
<1>5. ASSUME votes' = votes, NEW n \in Honest, ledger[n] = bottom, NEW v,
             v # bottom, ledger' = [ledger EXCEPT ![n] = v]
      PROVE  [Outcome!Next]_(Outcome!vars)
  <2>1. Certified' = Certified
    BY <1>5, Zenon DEF Certified, Threshold, QuorumsOf
  <2>2. ledger \in [Honest -> ValuesOrBottom] /\ ledger' \in [Honest -> ValuesOrBottom]
    BY Zenon DEF SafetyInv, TypeOK
  <2>3. ledger'[n] = v /\ v \in Values
    BY <1>5, <2>2, Zenon DEF ValuesOrBottom
  <2>4. \E p \in Periods : Threshold(p, cert, v)'
    BY <1>5, <2>3, Zenon DEF SafetyInv, LedgerCertified
  <2>5. v \in Certified
    BY <2>1, <2>3, <2>4, Zenon DEF Certified
  <2>6. Outcome!Commit(n)
    BY <1>5, <2>1, <2>5, Zenon DEF Outcome!Commit
  <2>7. QED
    BY <2>6, Zenon DEF Outcome!Next
<1>6. QED
  BY <1>2, <1>3, <1>4, <1>5, StepEffect, Zenon DEF vars

(* What the nodes do in a round, seen through its certificates and the     *)
(* ledgers, is what RoundOutcome allows: one certified value, set once,    *)
(* and ledgers that hold it or nothing.                                    *)
THEOREM Refinement ==
    ASSUME Timely = Honest, StagedKept, DiskKept
    PROVE  Spec => ImplementsOutcome
<1>1. Init => Outcome!Init
  <2>1. ASSUME Init, NEW p, NEW v PROVE ~Threshold(p, cert, v)
    <3>1. \A Q \in CertQuorums : \E n : n \in Q
      BY QuorumsAssumption, Zenon
    <3>2. votes = {} /\ QuorumsOf(cert) = CertQuorums
      BY <2>1 DEF Init, QuorumsOf
    <3>3. QED
      BY <3>1, <3>2, Zenon DEF Threshold
  <2>2. QED
    BY <2>1, Zenon DEF Init, Outcome!Init, Certified
<1>2. SafetyInv /\ SafetyInv' /\ [Next]_vars => [Outcome!Next]_(Outcome!vars)
  BY OutcomeStep, Zenon
<1>3. QED
  BY <1>1, <1>2, Safety, PTL DEF Spec, ImplementsOutcome, Outcome!Spec

==============================================================================
