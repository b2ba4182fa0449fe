---------------------------- MODULE ServiceProofs ----------------------------
(***************************************************************************)
(* Proofs about the goroutines that get a vote out, for every number of    *)
(* rounds, steps and values, every backlog, and writes that fail in any    *)
(* step.                                                                   *)
(*                                                                         *)
(* Votes are never forgotten because the persistence loop writes states in *)
(* the order the player had them, each write saves a state that knows of   *)
(* the vote it was requested for, and the vote leaves after it: what has   *)
(* been sent is behind the row on disk (WritesOK, SavedOK).  That holds    *)
(* while the process has not died.  A restored loop saves zero with the    *)
(* vote it repeats, so the theorems on votes allow one death.              *)
(***************************************************************************)
EXTENDS Service, TLAPS

\* Time enough for every leaf on a loaded machine.
USE SMTT(30), ZenonT(30)

-----------------------------------------------------------------------------
(* Sequences.                                                              *)

LEMMA SeqElement ==
    ASSUME NEW S, NEW s \in Seq(S), NEW n \in 1..Len(s)
    PROVE  s[n] \in S
OBVIOUS

LEMMA SeqEmpty ==
    ASSUME NEW S
    PROVE  /\ <<>> \in Seq(S) /\ Len(<<>>) = 0
           /\ \A s \in Seq(S) : s # <<>> => Len(s) \in Nat \ {0}
OBVIOUS

LEMMA SeqLength ==
    ASSUME NEW S, NEW s \in Seq(S)
    PROVE  Len(s) \in Nat /\ s \in [1..Len(s) -> S] /\ DOMAIN s = 1..Len(s)
OBVIOUS

LEMMA SeqReplace ==
    ASSUME NEW S, NEW s \in Seq(S), NEW i \in 1..Len(s), NEW e \in S
    PROVE  /\ [s EXCEPT ![i] = e] \in Seq(S)
           /\ Len([s EXCEPT ![i] = e]) = Len(s)
           /\ \A j \in 1..Len(s) : [s EXCEPT ![i] = e][j] = IF j = i THEN e ELSE s[j]
OBVIOUS

LEMMA SeqJoin ==
    ASSUME NEW S, NEW s \in Seq(S), NEW t \in Seq(S)
    PROVE  /\ s \o t \in Seq(S) /\ Len(s \o t) = Len(s) + Len(t)
           /\ \A i \in 1..(Len(s) + Len(t)) :
                (s \o t)[i] = IF i <= Len(s) THEN s[i] ELSE t[i - Len(s)]
OBVIOUS

LEMMA SeqTail ==
    ASSUME NEW S, NEW s \in Seq(S), s # <<>>
    PROVE  /\ Head(s) \in S /\ Tail(s) \in Seq(S) /\ Len(Tail(s)) = Len(s) - 1
           /\ \A i \in 1..Len(Tail(s)) : Tail(s)[i] = s[i + 1]
OBVIOUS

LEMMA SeqAppend ==
    ASSUME NEW S, NEW s \in Seq(S), NEW e \in S
    PROVE  /\ Append(s, e) \in Seq(S) /\ Append(s, e) # <<>>
           /\ Len(Append(s, e)) = Len(s) + 1
           /\ \A i \in 1..Len(s) : Append(s, e)[i] = s[i]
           /\ Append(s, e)[Len(s) + 1] = e
OBVIOUS

Ahead(a, b) == ~Behind(a, b)

InTasks == {tasks[i] : i \in 1..Len(tasks)}
Written == pending \cup writing

\* Every attest action the service still knows of, and zero.
Known ==
    sent \cup {act.Att, persist, disk} \cup {t.Att : t \in InTasks}
         \cup {s.State : s \in Written} \cup {s.For : s \in Written}
         \cup {e.For : e \in events}

\* All of them have been issued, and no two by the same step of the player.
KnownOK ==
    /\ \A a \in Known : Behind(a, status)
    /\ \A a, b \in Known : Behind(a, b) /\ Behind(b, a) => a = b

\* As long as the process has not died: writes are in the order of the states
\* they save, each saves a state that knows of the vote it is for ...
WritesOK ==
    /\ act.T \in {"attest", "enqueue"} => Behind(act.Att, persist)
    /\ \A s \in Written : /\ Behind(s.For, s.State) /\ Behind(disk, s.State)
                          /\ Behind(s.State, persist)
    /\ \A s \in writing, t \in pending : Behind(s.State, t.State)
    /\ Behind(disk, persist)

\* ... and a vote goes out when a state that knows of it is on disk.
Cleared(t) == t.Done \/ t.St = "sending"
SavedOK ==
    /\ \A a \in sent : Behind(a, disk)
    /\ act.T \in {"checkpoint", "relay"} /\ ~act.Err => Behind(act.Att, disk)
    /\ \A e \in events : ~e.Err => Behind(e.For, disk)
    /\ \A t \in InTasks : Cleared(t) => Behind(t.Att, disk)

\* A vote may go out: it is one that has, or follows all that have.
MayGo(a) == a \in sent \/ \A b \in sent : Ahead(a, b)

\* Tasks are in the order of their votes, after the vote that is going out
\* and before the one whose task is still to be made.
Sorted == \A i, j \in 1..Len(tasks) : i < j => Ahead(tasks[j].Att, tasks[i].Att)
OrderOK ==
    /\ Sorted
    /\ \A t \in InTasks : MayGo(t.Att)
    /\ act.T \in {"attest", "relay"} => MayGo(act.Att)
    /\ act.T = "attest" => \A t \in InTasks : Ahead(act.Att, t.Att)
    /\ act.T = "relay" => ~act.Err /\ \A t \in InTasks : Ahead(t.Att, act.Att)

\* Actions about a vote have one.
ActOK == act.T \notin {"none", "ensure"} => act.Att \in Attestation

VoteInv ==
    /\ KnownOK /\ OrderOK
    /\ crashes = 0 => WritesOK /\ SavedOK

TypeInv == TypeOK /\ ActOK /\ DiskWithinLedger

-----------------------------------------------------------------------------
(* The order of states.                                                    *)

\* Rounds and steps are numbers, and nothing but zero is behind zero.
LEMMA StateFacts ==
    ASSUME NEW a \in State
    PROVE  /\ a.Round \in Nat /\ a.Step \in Nat
           /\ Behind(a, zero) => a = zero
           /\ zero \in State /\ zero.Round = 0 /\ zero.Step = 0
<1>1. zero \in State /\ zero.Round = 0 /\ zero.Step = 0
  BY Zenon DEF State, zero
<1>2. CASE a = zero
  BY <1>1, <1>2
<1>3. CASE a \in Attestation
  BY <1>1, <1>3, BoundsAssumption DEF Attestation, Behind
<1>4. QED
  BY <1>2, <1>3, Zenon DEF State

\* Behind is a total preorder on states and on the player's status.
LEMMA BehindOrder ==
    ASSUME NEW a, NEW b, NEW c,
           {a.Round, a.Step, b.Round, b.Step, c.Round, c.Step} \subseteq Int
    PROVE  /\ Behind(a, a)
           /\ Behind(a, b) /\ Behind(b, c) => Behind(a, c)
           /\ Behind(a, b) \/ Behind(b, a)
BY DEF Behind

\* The same for states.
LEMMA StateOrder ==
    ASSUME NEW a \in State, NEW b \in State, NEW c \in State
    PROVE  /\ Behind(a, a)
           /\ Behind(a, b) /\ Behind(b, c) => Behind(a, c)
           /\ Behind(a, b) \/ Behind(b, a)
           /\ Behind(zero, a)
<1>1. /\ a.Round \in Nat /\ a.Step \in Nat /\ b.Round \in Nat /\ b.Step \in Nat
      /\ c.Round \in Nat /\ c.Step \in Nat /\ zero.Round = 0 /\ zero.Step = 0
  BY StateFacts, Zenon
<1>2. Behind(zero, a)
  BY <1>1 DEF Behind
<1>3. QED
  BY <1>1, <1>2, BehindOrder

\* The parts of the state are states.
LEMMA KnownStates ==
    ASSUME TypeOK
    PROVE  /\ Known \subseteq State
           /\ \A t \in InTasks : t \in Tasks /\ t.Att \in Attestation
           /\ \A s \in Written : s.State \in State /\ s.For \in Attestation
           /\ \A e \in events : e.For \in Attestation
           /\ sent \subseteq Attestation /\ Attestation \subseteq State
           /\ act.Att \in State /\ persist \in State /\ disk \in State
<1>1. \A t \in InTasks : t \in Tasks
  BY SeqElement DEF TypeOK, InTasks
<1>2. \A t \in InTasks : t.Att \in Attestation
  BY <1>1, Zenon DEF Tasks
<1>3. \A s \in Written : s.State \in State /\ s.For \in Attestation
  BY Zenon DEF TypeOK, Written, Requests
<1>4. \A e \in events : e.For \in Attestation
  BY Zenon DEF TypeOK
<1>5. sent \subseteq Attestation /\ act.Att \in State /\ persist \in State /\ disk \in State
  BY Zenon DEF TypeOK, Action
<1>6. Attestation \subseteq State
  BY Zenon DEF State
<1>7. Known \subseteq State
  BY <1>2, <1>3, <1>4, <1>5, <1>6, Zenon DEF Known
<1>8. QED
  BY <1>1, <1>2, <1>3, <1>4, <1>5, <1>6, <1>7, Zenon

\* No new attest action appears and the player does not move back.
LEMMA KnownShrinks ==
    ASSUME TypeOK, KnownOK, Known' \subseteq Known \cup {zero},
           \A a \in Known \cup {zero} : Behind(a, status) => Behind(a, status')
    PROVE  KnownOK'
<1>1. Known \subseteq State /\ zero \in State
  BY KnownStates, Zenon DEF State
<1>2. Behind(zero, status)
  BY DEF TypeOK, Behind, zero
<1>3. \A a \in Known' : Behind(a, status')
  BY <1>2, Zenon DEF KnownOK
<1>4. ASSUME NEW a \in Known', NEW b \in Known', Behind(a, b), Behind(b, a)
      PROVE  a = b
  <2>1. CASE a \in Known /\ b \in Known
    BY <1>4, <2>1, Zenon DEF KnownOK
  <2>2. CASE a = zero \/ b = zero
    BY <1>1, <1>4, <2>2, StateFacts, Zenon
  <2>3. QED
    BY <1>4, <2>1, <2>2, Zenon
<1>5. QED
  BY <1>3, <1>4, Zenon DEF KnownOK

-----------------------------------------------------------------------------
(* The tasks of the pseudonode.                                            *)

\* The first task ends.
LEMMA FirstEnds ==
    ASSUME TypeOK, tasks # <<>>, tasks' = Tail(tasks)
    PROVE  /\ tasks' \in Seq(Tasks) /\ Len(tasks') <= Backlog + 1
           /\ InTasks' \subseteq InTasks /\ Head(tasks) \in InTasks
           /\ Sorted => /\ Sorted'
                        /\ \A t \in InTasks' : Ahead(t.Att, Head(tasks).Att)
<1>1. tasks \in Seq(Tasks) /\ Len(tasks) \in Nat /\ Len(tasks) <= Backlog + 1
  BY DEF TypeOK
<1>2. Len(tasks) > 0
  BY <1>1, SeqEmpty
<1>3. /\ tasks' \in Seq(Tasks) /\ Len(tasks') = Len(tasks) - 1
      /\ \A i \in 1..Len(tasks') : tasks'[i] = tasks[i + 1]
  BY <1>1, SeqTail, Zenon
<1>4. Head(tasks) = tasks[1] /\ 1 \in 1..Len(tasks)
  BY <1>1, <1>2
<1>5. \A i \in 1..Len(tasks') : i + 1 \in 1..Len(tasks)
  BY <1>1, <1>3
<1>6. Len(tasks') <= Backlog + 1
  BY <1>1, <1>3, BoundsAssumption
<1>7. InTasks' \subseteq InTasks /\ Head(tasks) \in InTasks
  BY <1>3, <1>4, <1>5 DEF InTasks
<1>8. ASSUME Sorted PROVE Sorted'
  <2>1. ASSUME NEW i \in 1..Len(tasks'), NEW j \in 1..Len(tasks'), i < j
        PROVE  Ahead(tasks'[j].Att, tasks'[i].Att)
    <3>1. i + 1 \in 1..Len(tasks) /\ j + 1 \in 1..Len(tasks) /\ i + 1 < j + 1
      BY <1>5, <2>1
    <3>2. QED
      BY <1>3, <1>8, <3>1, Zenon DEF Sorted
  <2>2. QED
    BY <2>1, Zenon DEF Sorted, Ahead, Behind
<1>9. ASSUME Sorted, NEW t \in InTasks'
      PROVE  Ahead(t.Att, Head(tasks).Att)
  <2>1. PICK i \in 1..Len(tasks') : t = tasks'[i]
    BY Zenon DEF InTasks
  <2>2. i + 1 \in 1..Len(tasks) /\ 1 < i + 1 /\ t = tasks[i + 1]
    BY <1>3, <1>5, <2>1
  <2>3. QED
    BY <1>4, <1>9, <2>2, Zenon DEF Sorted
<1>10. QED
  BY <1>3, <1>6, <1>7, <1>8, <1>9, Zenon

\* Tasks are marked, not moved.
LEMMA Marked ==
    ASSUME TypeOK, tasks' \in Seq(Tasks), Len(tasks') = Len(tasks),
           \A i \in 1..Len(tasks) : tasks'[i].Att = tasks[i].Att
    PROVE  /\ Len(tasks') <= Backlog + 1 /\ (Sorted => Sorted')
           /\ \A t \in InTasks' : \E i \in 1..Len(tasks) :
                 t = tasks'[i] /\ t.Att = tasks[i].Att /\ tasks[i] \in InTasks
<1>1. Len(tasks') <= Backlog + 1 /\ (Sorted => Sorted')
  BY Zenon DEF Sorted, TypeOK, Ahead, Behind
<1>2. QED
  BY <1>1, Zenon DEF InTasks

\* The first task changes its place.
LEMMA FirstMarked ==
    ASSUME TypeOK, tasks # <<>>, NEW s \in {"waiting", "sending"},
           tasks' = [tasks EXCEPT ![1].St = s]
    PROVE  /\ Head(tasks) \in InTasks /\ tasks' \in Seq(Tasks)
           /\ Len(tasks') <= Backlog + 1 /\ (Sorted => Sorted')
           /\ \A t \in InTasks' : \/ t \in InTasks
                                  \/ /\ t.Att = Head(tasks).Att
                                     /\ t.Done = Head(tasks).Done /\ t.St = s
<1> DEFINE first == [tasks[1] EXCEPT !.St = s]
<1>1. tasks \in Seq(Tasks) /\ Len(tasks) \in Nat
  BY DEF TypeOK
<1>2. Len(tasks) > 0
  BY <1>1, SeqEmpty
<1>3. 1 \in 1..Len(tasks) /\ Head(tasks) = tasks[1] /\ tasks[1] \in Tasks
  BY <1>1, <1>2, SeqElement
<1>4. first \in Tasks /\ first.Att = tasks[1].Att /\ first.Done = tasks[1].Done /\ first.St = s
  BY <1>3, Zenon DEF Tasks
<1>5. tasks' = [tasks EXCEPT ![1] = first]
  BY Zenon
<1> HIDE DEF first
<1>6. /\ tasks' \in Seq(Tasks) /\ Len(tasks') = Len(tasks)
      /\ \A i \in 1..Len(tasks) : tasks'[i] = IF i = 1 THEN first ELSE tasks[i]
  BY <1>1, <1>3, <1>4, <1>5, SeqReplace
<1>7. \A i \in 1..Len(tasks) : tasks'[i].Att = tasks[i].Att
  BY <1>4, <1>6, Zenon
<1>8. Head(tasks) \in InTasks
  BY <1>3, Zenon DEF InTasks
<1>9. QED
  BY <1>3, <1>4, <1>6, <1>7, <1>8, Marked

\* persistStateDone is closed.
LEMMA DoneClosed ==
    ASSUME TypeOK, NEW a, tasks' = Closed(a)
    PROVE  /\ tasks' \in Seq(Tasks) /\ Len(tasks') <= Backlog + 1 /\ (Sorted => Sorted')
           /\ \A t \in InTasks' : \E u \in InTasks :
                 t.Att = u.Att /\ (Cleared(t) => Cleared(u) \/ t.Att = a)
<1> DEFINE mark(u) == IF u.Att = a THEN [u EXCEPT !.Done = TRUE] ELSE u
<1>1. tasks \in Seq(Tasks) /\ Len(tasks) \in Nat /\ DOMAIN tasks = 1..Len(tasks)
  BY SeqLength, Zenon DEF TypeOK
<1>2. tasks' = [i \in 1..Len(tasks) |-> mark(tasks[i])]
  BY <1>1, Zenon DEF Closed
<1>3. \A i \in 1..Len(tasks) : tasks[i] \in Tasks
  BY <1>1, SeqElement, Zenon
<1>4. \A u \in Tasks : /\ mark(u) \in Tasks /\ mark(u).Att = u.Att
                       /\ Cleared(mark(u)) => Cleared(u) \/ mark(u).Att = a
  BY Zenon DEF Tasks, Cleared
<1> HIDE DEF mark
<1>5. tasks' \in Seq(Tasks) /\ Len(tasks') = Len(tasks)
  BY <1>1, <1>2, <1>3, <1>4
<1>6. \A i \in 1..Len(tasks) : tasks'[i] = mark(tasks[i]) /\ tasks'[i].Att = tasks[i].Att
  BY <1>2, <1>3, <1>4, Zenon
<1>7. ASSUME NEW t \in InTasks'
      PROVE  \E u \in InTasks : t.Att = u.Att /\ (Cleared(t) => Cleared(u) \/ t.Att = a)
  <2>1. PICK i \in 1..Len(tasks) : t = tasks'[i] /\ tasks[i] \in InTasks
    BY <1>5, <1>6, Marked, Zenon
  <2>2. QED
    BY <1>3, <1>4, <1>6, <2>1
<1>8. QED
  BY <1>5, <1>6, <1>7, Marked, Zenon

-----------------------------------------------------------------------------
(* Steps that neither issue, save nor send a vote.                         *)

\* No action.
LEMMA NoopFacts ==
    noop \in Action /\ noop.T = "none" /\ noop.Att = zero /\ noop.Err = FALSE
BY Zenon DEF noop, Action, State, zero

\* The votes the service knows of stay, the player does not move back, and no
\* task is cleared whose vote is not saved.
LEMMA Frame ==
    ASSUME TypeInv, VoteInv,
           act' = act \/ (act'.T \in {"none", "ensure"} /\ act'.Att = zero),
           \A a \in Known \cup {zero} : Behind(a, status) => Behind(a, status'),
           UNCHANGED <<persist, pending, writing, events, disk, sent, crashes>>,
           Sorted',
           \A t \in InTasks' : \E u \in InTasks :
              /\ t.Att = u.Att
              /\ crashes = 0 /\ Cleared(t) => Cleared(u) \/ Behind(t.Att, disk)
    PROVE  VoteInv'
<1>1. \A t \in InTasks' : \E u \in InTasks : t.Att = u.Att
  BY Zenon
<1>2. KnownOK'
  <2>1. {t.Att : t \in InTasks'} \subseteq {u.Att : u \in InTasks}
    BY <1>1, Zenon
  <2>2. act'.Att \in {act.Att, zero} /\ Written' = Written
    BY Zenon DEF Written
  <2>3. Known' \subseteq Known \cup {zero}
    BY <2>1, <2>2 DEF Known
  <2>4. QED
    BY <2>3, KnownShrinks, Zenon DEF TypeInv, VoteInv
<1>3. OrderOK'
  <2>1. \A t \in InTasks' : MayGo(t.Att)
    BY <1>1, Zenon DEF VoteInv, OrderOK
  <2>2. QED
    BY <1>1, <2>1 DEF VoteInv, OrderOK, MayGo, Ahead, Behind
<1>4. ASSUME crashes = 0 PROVE WritesOK' /\ SavedOK'
  <2>1. WritesOK /\ SavedOK
    BY <1>4, Zenon DEF VoteInv
  <2>2. WritesOK'
    BY <2>1, Zenon DEF WritesOK, Written, Behind
  <2>3. \A t \in InTasks' : Cleared(t) => Behind(t.Att, disk)
    BY <1>4, <2>1, Zenon DEF SavedOK
  <2>4. SavedOK'
    BY <2>1, <2>3, Zenon DEF SavedOK, Behind, Cleared
  <2>5. QED
    BY <2>2, <2>4, Zenon
<1>5. QED
  BY <1>2, <1>3, <1>4, Zenon DEF VoteInv

\* The row on disk stays and the ledger does not shrink.
LEMMA DiskStays ==
    ASSUME TypeOK, DiskWithinLedger, disk' = disk, durable' \in Int, durable <= durable'
    PROVE  DiskWithinLedger'
<1>1. disk.Round \in Nat /\ durable \in Int
  BY KnownStates, StateFacts, BoundsAssumption DEF TypeOK
<1>2. QED
  BY <1>1 DEF DiskWithinLedger

\* The ledger, the calls of Shutdown, channels without a vote, the block of
\* EnsureBlock, and the vote MakeVotes drops.
LEMMA QuietSteps ==
    ASSUME TypeInv,
           \/ SkipClosed \/ DoEnsure \/ Catchup \/ SyncBlocks \/ Shutdown
           \/ DoAttest /\ act' = noop /\ tasks' = tasks
    PROVE  TypeInv' /\ (VoteInv => VoteInv')
<1>1. /\ act' \in {act, noop} /\ tasks' = tasks
      /\ UNCHANGED <<status, persist, pending, writing, events, disk, sent, crashes>>
  BY Zenon DEF SkipClosed, DoEnsure, Catchup, SyncBlocks, Shutdown, DoAttest, loops, storage,
         chain, life
<1>2. ASSUME VoteInv PROVE VoteInv'
  <2>1. Sorted' /\ InTasks' = InTasks
    BY <1>1, <1>2, Zenon DEF VoteInv, OrderOK, Sorted, InTasks, Ahead, Behind
  <2>2. QED
    BY <1>1, <1>2, <2>1, NoopFacts, Frame, Zenon
<1>3. ledger' \in 0..MaxRound /\ durable' \in 0..ledger' /\ durable <= durable'
  <2>1. ledger \in 0..MaxRound /\ durable \in 0..ledger /\ status.Round \in 1..MaxRound
    BY Zenon DEF TypeInv, TypeOK
  <2>2. CASE DoEnsure
    BY <2>1, <2>2, BoundsAssumption DEF DoEnsure
  <2>3. CASE Catchup \/ SyncBlocks
    BY <2>1, <2>3, BoundsAssumption DEF Catchup, SyncBlocks
  <2>4. CASE SkipClosed \/ Shutdown \/ DoAttest
    BY <2>1, <2>4 DEF SkipClosed, Shutdown, DoAttest, chain
  <2>5. QED
    BY <2>2, <2>3, <2>4, Zenon
<1>4. queue' \in Seq(Channels)
  <2>1. CASE SkipClosed
    BY <2>1, SeqTail, Zenon DEF SkipClosed, TypeInv, TypeOK
  <2>2. CASE ~SkipClosed
    BY <2>2, Zenon DEF TypeInv, TypeOK, DoEnsure, Catchup, SyncBlocks, Shutdown, DoAttest, loops
  <2>3. QED
    BY <2>1, <2>2, Zenon
<1>5. running' \in BOOLEAN /\ quit' \in BOOLEAN
  BY Zenon DEF TypeInv, TypeOK, SkipClosed, DoEnsure, Catchup, SyncBlocks, Shutdown, DoAttest, life
<1>6. act' \in Action /\ ActOK'
  BY <1>1, NoopFacts, Zenon DEF TypeInv, TypeOK, ActOK
<1>7. TypeOK'
  BY <1>1, <1>3, <1>4, <1>5, <1>6, Zenon DEF TypeInv, TypeOK
<1>8. DiskWithinLedger'
  BY <1>1, <1>3, DiskStays DEF TypeInv
<1>9. QED
  BY <1>2, <1>6, <1>7, <1>8, Zenon DEF TypeInv

\* The tasks make their votes, wait, send and end.
LEMMA TaskSteps ==
    ASSUME TypeInv, TaskMake \/ TaskRelease \/ TaskCancel \/ Exit
    PROVE  TypeInv' /\ (VoteInv => VoteInv')
<1>1. /\ UNCHANGED <<status, act, persist, queue, pending, writing, events, disk, sent,
                     ledger, durable, quit, crashes>>
      /\ running' \in BOOLEAN
  BY Zenon DEF TaskMake, TaskRelease, TaskCancel, Exit, loops, storage, chain, life, TypeInv, TypeOK
<1>2. TypeOK
  BY Zenon DEF TypeInv
<1>3. /\ tasks' \in Seq(Tasks) /\ Len(tasks') <= Backlog + 1 /\ (Sorted => Sorted')
      /\ \A t \in InTasks' : \E u \in InTasks : t.Att = u.Att /\ (Cleared(t) => Cleared(u))
  <2>1. CASE tasks # <<>> /\ tasks' = Tail(tasks)
    BY <1>2, <2>1, FirstEnds, Zenon
  <2>2. CASE tasks # <<>> /\ tasks' = [tasks EXCEPT ![1].St = "waiting"]
    <3>1. /\ Head(tasks) \in InTasks /\ tasks' \in Seq(Tasks)
          /\ Len(tasks') <= Backlog + 1 /\ (Sorted => Sorted')
          /\ \A t \in InTasks' : \/ t \in InTasks
                                 \/ /\ t.Att = Head(tasks).Att
                                    /\ t.Done = Head(tasks).Done /\ t.St = "waiting"
      BY <1>2, <2>2, FirstMarked, Zenon
    <3>2. QED
      BY <3>1, Zenon DEF Cleared
  <2>3. CASE tasks # <<>> /\ Head(tasks).Done /\ tasks' = [tasks EXCEPT ![1].St = "sending"]
    <3>1. /\ Head(tasks) \in InTasks /\ tasks' \in Seq(Tasks)
          /\ Len(tasks') <= Backlog + 1 /\ (Sorted => Sorted')
          /\ \A t \in InTasks' : \/ t \in InTasks
                                 \/ /\ t.Att = Head(tasks).Att
                                    /\ t.Done = Head(tasks).Done /\ t.St = "sending"
      BY <1>2, <2>3, FirstMarked, Zenon
    <3>2. QED
      BY <2>3, <3>1, Zenon DEF Cleared
  <2>4. CASE tasks' = <<>>
    <3>1. tasks' \in Seq(Tasks) /\ Len(tasks') = 0
      BY <2>4
    <3>2. QED
      BY <3>1, BoundsAssumption DEF InTasks, Sorted
  <2>5. QED
    BY <2>1, <2>2, <2>3, <2>4, Zenon DEF TaskMake, TaskRelease, TaskCancel, Exit
<1>4. ASSUME VoteInv PROVE VoteInv'
  BY <1>1, <1>3, <1>4, Frame, Zenon DEF VoteInv, OrderOK
<1>5. TypeOK' /\ ActOK' /\ DiskWithinLedger'
  BY <1>1, <1>3, Zenon DEF TypeInv, TypeOK, ActOK, DiskWithinLedger
<1>6. QED
  BY <1>4, <1>5, Zenon DEF TypeInv

\* checkpointAction.do passes the result of a write on.
LEMMA CheckpointStep ==
    ASSUME TypeInv, DoCheckpoint
    PROVE  TypeInv' /\ (VoteInv => VoteInv')
<1>1. /\ UNCHANGED <<status, persist, queue, pending, writing, events, disk, sent,
                     ledger, durable, running, quit, crashes>>
      /\ act' = noop
  BY Zenon DEF DoCheckpoint, storage, chain, life
<1>2. TypeOK
  BY Zenon DEF TypeInv
<1>3. /\ tasks' \in Seq(Tasks) /\ Len(tasks') <= Backlog + 1 /\ (Sorted => Sorted')
      /\ VoteInv => \A t \in InTasks' : \E u \in InTasks :
            /\ t.Att = u.Att
            /\ crashes = 0 /\ Cleared(t) => Cleared(u) \/ Behind(t.Att, disk)
  <2>1. CASE ~act.Err /\ tasks' = Closed(act.Att)
    <3>1. VoteInv /\ crashes = 0 => Behind(act.Att, disk)
      BY <2>1, Zenon DEF DoCheckpoint, VoteInv, SavedOK
    <3>2. QED
      BY <1>2, <2>1, <3>1, DoneClosed, Zenon
  <2>2. CASE tasks # <<>> /\ tasks' = Tail(tasks)
    BY <1>2, <2>2, FirstEnds, Zenon
  <2>3. QED
    BY <2>1, <2>2, Zenon DEF DoCheckpoint
<1>4. ASSUME VoteInv PROVE VoteInv'
  BY <1>1, <1>3, <1>4, NoopFacts, Frame, Zenon DEF VoteInv, OrderOK
<1>5. act' \in Action /\ ActOK'
  BY <1>1, NoopFacts, Zenon DEF ActOK
<1>6. TypeOK' /\ DiskWithinLedger'
  BY <1>1, <1>3, <1>5, Zenon DEF TypeInv, TypeOK, DiskWithinLedger
<1>7. QED
  BY <1>4, <1>5, <1>6, Zenon DEF TypeInv

-----------------------------------------------------------------------------
(* The player moves.                                                       *)

\* An attest action is ahead of everything the service knows of.
LEMMA HandleAttestStep ==
    ASSUME TypeInv, NEW v \in Values, HandleAttest(v)
    PROVE  TypeInv' /\ (VoteInv => VoteInv')
<1> DEFINE a == [Round |-> status.Round, Step |-> status.Step + 1, Value |-> v]
<1>1. /\ act' = Do("attest", a, FALSE) /\ persist' = a /\ status.Step < MaxStep
      /\ status' = [status EXCEPT !.Step = status.Step + 1]
      /\ UNCHANGED <<queue, tasks, pending, writing, events, disk, sent, ledger, durable,
                     running, quit, crashes>>
  BY Zenon DEF HandleAttest, storage, chain, life
<1>2. status \in [Round : 1..MaxRound, Step : 0..MaxStep]
  BY Zenon DEF TypeInv, TypeOK
<1>3. /\ a \in Attestation /\ status' \in [Round : 1..MaxRound, Step : 0..MaxStep]
      /\ status'.Round = a.Round /\ status'.Step = a.Step
      /\ a.Round = status.Round /\ a.Step = status.Step + 1
  BY <1>1, <1>2, BoundsAssumption DEF Attestation
<1> HIDE DEF a
<1>4. act'.T = "attest" /\ act'.Att = a /\ act'.Err = FALSE
  BY <1>1, Zenon DEF Do
<1>5. act' \in Action /\ persist' \in State
  BY <1>1, <1>3, Zenon DEF Do, Action, State
<1>6. TypeInv'
  BY <1>1, <1>3, <1>4, <1>5, Zenon DEF TypeInv, TypeOK, ActOK, DiskWithinLedger
<1>7. ASSUME VoteInv PROVE VoteInv'
  <2>1. \A x \in Known : x \in State /\ Behind(x, status)
    BY <1>7, KnownStates, Zenon DEF TypeInv, VoteInv, KnownOK
  <2>2. ASSUME NEW x \in Known
        PROVE  Behind(x, a) /\ Behind(x, status') /\ Ahead(a, x)
    <3>1. x.Round \in Nat /\ x.Step \in Nat
      BY <2>1, StateFacts, Zenon
    <3>2. QED
      BY <1>2, <1>3, <2>1, <3>1 DEF Behind, Ahead
  <2>3. Behind(a, a) /\ Behind(a, status')
    BY <1>2, <1>3 DEF Behind
  <2>4. InTasks' = InTasks /\ Written' = Written
    BY <1>1, Zenon DEF InTasks, Written
  <2>5. Known' \subseteq Known \cup {a}
    BY <1>1, <1>4, <2>4, ZenonT(30) DEF Known
  <2>6. KnownOK'
    <3>1. \A x \in Known' : Behind(x, status')
      BY <2>2, <2>3, <2>5, Zenon
    <3>2. \A x, y \in Known' : Behind(x, y) /\ Behind(y, x) => x = y
      BY <1>7, <2>2, <2>5, Zenon DEF VoteInv, KnownOK, Ahead
    <3>3. QED
      BY <3>1, <3>2, Zenon DEF KnownOK
  <2>7. OrderOK'
    <3>1. \A b \in sent : Ahead(a, b)
      BY <2>2, Zenon DEF Known
    <3>2. \A t \in InTasks : Ahead(a, t.Att)
      BY <2>2, Zenon DEF Known
    <3>3. Sorted' /\ \A t \in InTasks : MayGo(t.Att)
      BY <1>1, <1>7, Zenon DEF VoteInv, OrderOK, Sorted, Ahead, Behind
    <3>4. QED
      BY <1>1, <1>4, <2>4, <3>1, <3>2, <3>3, Zenon DEF OrderOK, MayGo, Ahead, Behind
  <2>8. ASSUME crashes = 0 PROVE WritesOK' /\ SavedOK'
    <3>1. WritesOK /\ SavedOK
      BY <1>7, <2>8, Zenon DEF VoteInv
    <3>2. Behind(disk, a) /\ \A s \in Written : Behind(s.State, a)
      BY <2>2, Zenon DEF Known
    <3>3. WritesOK'
      BY <1>1, <1>4, <2>3, <2>4, <3>1, <3>2, Zenon DEF WritesOK, Behind
    <3>4. SavedOK'
      BY <1>1, <1>4, <2>4, <3>1, Zenon DEF SavedOK, Behind, Cleared
    <3>5. QED
      BY <3>3, <3>4, Zenon
  <2>9. QED
    BY <1>1, <2>6, <2>7, <2>8, Zenon DEF VoteInv
<1>8. QED
  BY <1>6, <1>7, Zenon

\* A certificate or a block of somebody else: the player enters a later round.
LEMMA NewRoundSteps ==
    ASSUME TypeInv, HandleCertificate \/ HandleInterruption
    PROVE  TypeInv' /\ (VoteInv => VoteInv')
<1>1. UNCHANGED <<persist, queue, tasks, pending, writing, events, disk, sent, ledger,
                  durable, running, quit, crashes>>
  BY Zenon DEF HandleCertificate, HandleInterruption, storage, chain, life
<1>2. act'.T \in {"none", "ensure"} /\ act'.Att = zero /\ act' \in Action
  <2>1. CASE HandleCertificate
    <3>1. act' = [T |-> "ensure", Att |-> zero, Err |-> FALSE] /\ zero \in State
      BY <2>1, Zenon DEF HandleCertificate, Do, State
    <3>2. QED
      BY <3>1, Zenon DEF Action
  <2>2. CASE HandleInterruption
    BY <2>2, NoopFacts, Zenon DEF HandleInterruption, Waiting
  <2>3. QED
    BY <2>1, <2>2, Zenon
<1>3. /\ status \in [Round : 1..MaxRound, Step : 0..MaxStep]
      /\ ledger \in 0..MaxRound /\ durable \in 0..ledger
  BY Zenon DEF TypeInv, TypeOK
<1>4. \E r \in 1..MaxRound : r > status.Round /\ status' = [Round |-> r, Step |-> 0]
  <2>1. CASE HandleCertificate
    BY <1>3, <2>1, BoundsAssumption DEF HandleCertificate
  <2>2. CASE HandleInterruption
    BY <1>3, <2>2, BoundsAssumption DEF HandleInterruption
  <2>3. QED
    BY <2>1, <2>2, Zenon
<1>5. /\ status' \in [Round : 1..MaxRound, Step : 0..MaxStep]
      /\ status'.Round > status.Round
  BY <1>4, BoundsAssumption
<1>6. TypeInv'
  BY <1>1, <1>2, <1>5, Zenon DEF TypeInv, TypeOK, ActOK, DiskWithinLedger
<1>7. ASSUME VoteInv PROVE VoteInv'
  <2>1. \A x \in Known \cup {zero} : x \in State
    BY KnownStates, Zenon DEF TypeInv, State
  <2>2. ASSUME NEW x \in Known \cup {zero}, Behind(x, status)
        PROVE  Behind(x, status')
    <3>1. x.Round \in Nat
      BY <2>1, StateFacts, Zenon
    <3>2. QED
      BY <1>3, <1>5, <2>2, <3>1 DEF Behind
  <2>3. Sorted' /\ InTasks' = InTasks
    BY <1>1, <1>7, Zenon DEF VoteInv, OrderOK, Sorted, InTasks, Ahead, Behind
  <2>4. QED
    BY <1>1, <1>2, <1>7, <2>2, <2>3, Frame, Zenon
<1>8. QED
  BY <1>6, <1>7, Zenon

-----------------------------------------------------------------------------
(* The loop executes an action for a vote.                                 *)

\* What follows from a smaller set of known votes and an unchanged player.
LEMMA StillKnown ==
    ASSUME TypeInv, VoteInv, Known' \subseteq Known \cup {zero}, status' = status
    PROVE  KnownOK'
BY KnownShrinks, Zenon DEF TypeInv, VoteInv

\* demux.next passes on a checkpoint event.
LEMMA TakeCheckpointStep ==
    ASSUME TypeInv, TakeCheckpoint
    PROVE  TypeInv' /\ (VoteInv => VoteInv')
<1>1. PICK e \in events : act' = Do("checkpoint", e.For, e.Err) /\ events' = events \ {e}
  BY Zenon DEF TakeCheckpoint
<1>2. /\ UNCHANGED <<status, persist, tasks, pending, writing, disk, sent, ledger, durable,
                     running, quit, crashes>>
      /\ queue' = Tail(queue) /\ queue # <<>>
  BY Zenon DEF TakeCheckpoint, chain, life
<1>3. e \in [For : Attestation, Err : BOOLEAN]
  BY Zenon DEF TypeInv, TypeOK
<1>4. act'.T = "checkpoint" /\ act'.Att = e.For /\ act'.Err = e.Err /\ act' \in Action
  BY <1>1, <1>3, Zenon DEF Do, Action, State
<1>5. queue' \in Seq(Channels)
  BY <1>2, SeqTail, Zenon DEF TypeInv, TypeOK
<1>6. TypeInv'
  BY <1>1, <1>2, <1>3, <1>4, <1>5, Zenon DEF TypeInv, TypeOK, ActOK, DiskWithinLedger
<1>7. ASSUME VoteInv PROVE VoteInv'
  <2>1. InTasks' = InTasks /\ Written' = Written /\ events' \subseteq events
    BY <1>1, <1>2, Zenon DEF InTasks, Written
  <2>2. Known' \subseteq Known \cup {zero}
    BY <1>1, <1>2, <1>4, <2>1, Zenon DEF Known
  <2>3. OrderOK'
    BY <1>2, <1>4, <1>7, <2>1, Zenon DEF VoteInv, OrderOK, Sorted, MayGo, Ahead, Behind
  <2>4. ASSUME crashes = 0 PROVE WritesOK' /\ SavedOK'
    <3>1. WritesOK'
      BY <1>2, <1>4, <1>7, <2>1, <2>4, Zenon DEF VoteInv, WritesOK, Behind
    <3>2. SavedOK'
      BY <1>1, <1>2, <1>4, <1>7, <2>1, <2>4, Zenon DEF VoteInv, SavedOK, Behind, Cleared
    <3>3. QED
      BY <3>1, <3>2, Zenon
  <2>5. QED
    BY <1>2, <1>7, <2>2, <2>3, <2>4, StillKnown, Zenon DEF VoteInv
<1>8. QED
  BY <1>6, <1>7, Zenon

\* demux.next passes on a vote: it is saved, and next in the order.
LEMMA TakeVoteStep ==
    ASSUME TypeInv, TakeVote
    PROVE  TypeInv' /\ (VoteInv => VoteInv')
<1> DEFINE h == Head(tasks)
<1>1. /\ UNCHANGED <<status, persist, pending, writing, events, disk, sent, ledger, durable,
                     running, quit, crashes>>
      /\ tasks # <<>> /\ tasks' = Tail(tasks) /\ h.St = "sending"
      /\ queue' = Tail(queue) /\ queue # <<>>
      /\ act' = Do("relay", h.Att, FALSE) \/ act' = noop
  BY Zenon DEF TakeVote, storage, chain, life
<1>2. /\ tasks' \in Seq(Tasks) /\ Len(tasks') <= Backlog + 1
      /\ InTasks' \subseteq InTasks /\ h \in InTasks
      /\ Sorted => Sorted' /\ \A t \in InTasks' : Ahead(t.Att, h.Att)
  BY <1>1, FirstEnds, Zenon DEF TypeInv
<1>3. h.Att \in Attestation
  BY <1>2, KnownStates, Zenon DEF TypeInv
<1> HIDE DEF h
<1>4. /\ act' \in Action
      /\ \/ act'.T = "relay" /\ act'.Att = h.Att /\ act'.Err = FALSE
         \/ act'.T = "none" /\ act'.Att = zero
  <2>1. CASE act' = Do("relay", h.Att, FALSE)
    BY <1>3, <2>1, Zenon DEF Do, Action, State
  <2>2. CASE act' = noop
    BY <2>2, NoopFacts, Zenon
  <2>3. QED
    BY <1>1, <2>1, <2>2, Zenon
<1>5. queue' \in Seq(Channels)
  BY <1>1, SeqTail, Zenon DEF TypeInv, TypeOK
<1>6. TypeInv'
  BY <1>1, <1>2, <1>3, <1>4, <1>5, Zenon DEF TypeInv, TypeOK, ActOK, DiskWithinLedger
<1>7. ASSUME VoteInv PROVE VoteInv'
  <2>1. Written' = Written
    BY <1>1, Zenon DEF Written
  <2>2. Known' \subseteq Known \cup {zero}
    BY <1>1, <1>2, <1>4, <2>1 DEF Known
  <2>3. OrderOK'
    BY <1>1, <1>2, <1>4, <1>7, Zenon DEF VoteInv, OrderOK, MayGo, Ahead, Behind
  <2>4. ASSUME crashes = 0 PROVE WritesOK' /\ SavedOK'
    <3>1. WritesOK /\ SavedOK
      BY <1>7, <2>4, Zenon DEF VoteInv
    <3>2. WritesOK'
      BY <1>1, <1>4, <2>1, <3>1, Zenon DEF WritesOK, Behind
    <3>3. Behind(h.Att, disk)
      BY <1>1, <1>2, <3>1, Zenon DEF SavedOK, Cleared
    <3>4. SavedOK'
      BY <1>1, <1>2, <1>4, <3>1, <3>3, Zenon DEF SavedOK, Behind, Cleared
    <3>5. QED
      BY <3>2, <3>4, Zenon
  <2>5. QED
    BY <1>1, <1>7, <2>2, <2>3, <2>4, StillKnown, Zenon DEF VoteInv
<1>8. QED
  BY <1>6, <1>7, Zenon

\* MakeVotes makes a task, the last one.
LEMMA MakeTaskStep ==
    ASSUME TypeInv, DoAttest, Len(tasks) <= Backlog,
           tasks' = Append(tasks, Queued(act.Att)), act' = [act EXCEPT !.T = "enqueue"]
    PROVE  TypeInv' /\ (VoteInv => VoteInv')
<1> DEFINE q == Queued(act.Att)
<1>1. /\ UNCHANGED <<status, persist, queue, pending, writing, events, disk, sent, ledger,
                     durable, running, quit, crashes>>
      /\ act.T = "attest"
  BY Zenon DEF DoAttest, storage, chain, life
<1>2. act \in Action /\ act.Att \in Attestation
  BY <1>1, Zenon DEF TypeInv, TypeOK, ActOK
<1>3. act' \in Action /\ act'.T = "enqueue" /\ act'.Att = act.Att
  BY <1>2, Zenon DEF Action
<1>4. q \in Tasks /\ q.Att = act.Att /\ ~Cleared(q)
  BY <1>2, Zenon DEF Queued, Tasks, Cleared
<1> HIDE DEF q
<1>5. tasks \in Seq(Tasks) /\ Len(tasks) \in Nat /\ tasks' = Append(tasks, q)
  BY DEF TypeInv, TypeOK, q
<1>6. /\ tasks' \in Seq(Tasks) /\ Len(tasks') = Len(tasks) + 1
      /\ \A i \in 1..Len(tasks) : tasks'[i] = tasks[i]
      /\ tasks'[Len(tasks) + 1] = q
  BY <1>4, <1>5, SeqAppend
<1>7. Len(tasks') <= Backlog + 1
  BY <1>5, <1>6, BoundsAssumption
<1>8. InTasks' = InTasks \cup {q}
  BY <1>5, <1>6 DEF InTasks
<1>9. TypeInv'
  BY <1>1, <1>2, <1>3, <1>6, <1>7, Zenon DEF TypeInv, TypeOK, ActOK, DiskWithinLedger
<1>10. ASSUME VoteInv PROVE VoteInv'
  <2>1. Written' = Written
    BY <1>1, Zenon DEF Written
  <2>2. Known' \subseteq Known \cup {zero}
    BY <1>1, <1>3, <1>4, <1>8, <2>1, Zenon DEF Known
  <2>3. Sorted'
    <3>1. ASSUME NEW i \in 1..Len(tasks'), NEW j \in 1..Len(tasks'), i < j
          PROVE  Ahead(tasks'[j].Att, tasks'[i].Att)
      <4>1. i \in 1..Len(tasks) /\ tasks'[i] = tasks[i] /\ tasks[i] \in InTasks
        BY <1>5, <1>6, <3>1 DEF InTasks
      <4>2. CASE j = Len(tasks) + 1
        BY <1>1, <1>4, <1>6, <1>10, <4>1, <4>2, Zenon DEF VoteInv, OrderOK
      <4>3. CASE j # Len(tasks) + 1
        <5>1. j \in 1..Len(tasks) /\ tasks'[j] = tasks[j]
          BY <1>5, <1>6, <4>3
        <5>2. QED
          BY <1>10, <3>1, <4>1, <5>1, Zenon DEF VoteInv, OrderOK, Sorted
      <4>4. QED
        BY <4>2, <4>3, Zenon
    <3>2. QED
      BY <3>1, Zenon DEF Sorted, Ahead, Behind
  <2>4. OrderOK'
    BY <1>1, <1>3, <1>4, <1>8, <1>10, <2>3 DEF VoteInv, OrderOK, MayGo, Ahead, Behind
  <2>5. ASSUME crashes = 0 PROVE WritesOK' /\ SavedOK'
    <3>1. WritesOK /\ SavedOK
      BY <1>10, <2>5, Zenon DEF VoteInv
    <3>2. WritesOK'
      BY <1>1, <1>3, <2>1, <3>1, Zenon DEF WritesOK, Behind
    <3>3. SavedOK'
      BY <1>1, <1>3, <1>4, <1>8, <3>1, Zenon DEF SavedOK, Behind, Cleared
    <3>4. QED
      BY <3>2, <3>3, Zenon
  <2>6. QED
    BY <1>1, <1>10, <2>2, <2>4, <2>5, StillKnown, Zenon DEF VoteInv
<1>11. QED
  BY <1>9, <1>10, Zenon

\* persistState hands the write over.
LEMMA EnqueueStep ==
    ASSUME TypeInv, DoEnqueue
    PROVE  TypeInv' /\ (VoteInv => VoteInv')
<1> DEFINE p == [State |-> persist, For |-> act.Att]
<1>1. /\ UNCHANGED <<status, persist, tasks, writing, events, disk, sent, ledger, durable,
                     running, quit, crashes>>
      /\ act.T = "enqueue" /\ pending = {} /\ pending' = {p} /\ act' = noop
  BY Zenon DEF DoEnqueue, chain, life
<1>2. act.Att \in Attestation /\ persist \in State
  BY <1>1, Zenon DEF TypeInv, TypeOK, ActOK
<1>3. p \in Requests /\ p.State = persist /\ p.For = act.Att
  BY <1>2, Zenon DEF Requests
<1> HIDE DEF p
<1>4. queue' \in Seq(Channels)
  <2>1. << [Kind |-> "checkpoint", Att |-> act.Att],
           [Kind |-> "votes", Att |-> act.Att] >> \in Seq(Channels)
    BY <1>2 DEF Channels
  <2>2. QED
    BY <2>1, SeqJoin, Zenon DEF DoEnqueue, TypeInv, TypeOK
<1>5. TypeInv'
  BY <1>1, <1>3, <1>4, NoopFacts, Zenon DEF TypeInv, TypeOK, ActOK, DiskWithinLedger
<1>6. ASSUME VoteInv PROVE VoteInv'
  <2>1. InTasks' = InTasks /\ Written = writing /\ Written' = writing \cup {p}
    BY <1>1, Zenon DEF InTasks, Written
  <2>2. Known' \subseteq Known \cup {zero}
    BY <1>1, <1>3, <2>1, NoopFacts DEF Known
  <2>3. OrderOK'
    BY <1>1, <1>6, <2>1, NoopFacts, Zenon DEF VoteInv, OrderOK, Sorted, MayGo, Ahead, Behind
  <2>4. ASSUME crashes = 0 PROVE WritesOK' /\ SavedOK'
    <3>1. WritesOK /\ SavedOK
      BY <1>6, <2>4 DEF VoteInv
    <3>2. /\ Behind(act.Att, persist) /\ Behind(disk, persist) /\ Behind(persist, persist)
          /\ \A s \in writing : /\ Behind(s.For, s.State) /\ Behind(disk, s.State)
                                /\ Behind(s.State, persist)
      BY <1>1, <1>2, <2>1, <3>1, StateOrder, Zenon DEF WritesOK
    <3>3. WritesOK'
      <4>1. act'.T = "none"
        BY <1>1, NoopFacts, Zenon
      <4>2. persist' = persist /\ disk' = disk /\ writing' = writing /\ pending' = {p}
        BY <1>1, Zenon
      <4>3. \A s \in writing \cup {p} : /\ Behind(s.For, s.State) /\ Behind(disk, s.State)
                                       /\ Behind(s.State, persist)
        BY <1>3, <3>2, Zenon
      <4>4. \A s \in writing, t \in {p} : Behind(s.State, t.State)
        BY <1>3, <3>2, Zenon
      <4>5. act'.T \notin {"attest", "enqueue"}
        BY <4>1, Zenon
      <4>6. QED
        BY <2>1, <3>2, <4>2, <4>3, <4>4, <4>5, Zenon DEF WritesOK, Behind
    <3>4. SavedOK'
      BY <1>1, <2>1, <3>1, NoopFacts, Zenon DEF SavedOK, Behind, Cleared
    <3>5. QED
      BY <3>3, <3>4
  <2>5. QED
    BY <1>1, <1>6, <2>2, <2>3, <2>4, StillKnown, Zenon DEF VoteInv
<1>7. QED
  BY <1>5, <1>6

\* A vote leaves the node.
LEMMA RelayStep ==
    ASSUME TypeInv, DoRelay
    PROVE  TypeInv' /\ (VoteInv => VoteInv')
<1>1. /\ UNCHANGED <<status, persist, queue, tasks, pending, writing, events, disk, ledger,
                     durable, running, quit, crashes>>
      /\ act.T = "relay" /\ sent' = sent \cup {act.Att} /\ act' = noop
  BY Zenon DEF DoRelay, storage, chain, life
<1>2. act.Att \in Attestation
  BY <1>1, Zenon DEF TypeInv, ActOK
<1>3. TypeInv'
  BY <1>1, <1>2, NoopFacts, Zenon DEF TypeInv, TypeOK, ActOK, DiskWithinLedger
<1>4. ASSUME VoteInv PROVE VoteInv'
  <2>1. InTasks' = InTasks /\ Written' = Written
    BY <1>1, Zenon DEF InTasks, Written
  <2>2. Known' \subseteq Known \cup {zero}
    BY <1>1, <2>1, NoopFacts, Zenon DEF Known
  <2>3. OrderOK'
    <3>1. /\ Sorted /\ ~act.Err
          /\ \A t \in InTasks : MayGo(t.Att) /\ Ahead(t.Att, act.Att)
      BY <1>1, <1>4, Zenon DEF VoteInv, OrderOK
    <3>2. QED
      BY <1>1, <2>1, <3>1, NoopFacts, Zenon DEF OrderOK, Sorted, MayGo, Ahead, Behind
  <2>4. ASSUME crashes = 0 PROVE WritesOK' /\ SavedOK'
    <3>1. WritesOK /\ SavedOK /\ Behind(act.Att, disk)
      BY <1>1, <1>4, <2>4, Zenon DEF VoteInv, SavedOK, OrderOK
    <3>2. WritesOK'
      BY <1>1, <2>1, <3>1, NoopFacts, Zenon DEF WritesOK, Behind
    <3>3. SavedOK'
      BY <1>1, <2>1, <3>1, NoopFacts, Zenon DEF SavedOK, Behind, Cleared
    <3>4. QED
      BY <3>2, <3>3
  <2>5. QED
    BY <1>1, <1>4, <2>2, <2>3, <2>4, StillKnown, Zenon DEF VoteInv
<1>5. QED
  BY <1>3, <1>4

-----------------------------------------------------------------------------
(* The persistence loop.                                                   *)

\* The loop takes a request: the channel has room again.
LEMMA WriterTakeStep ==
    ASSUME TypeInv, WriterTake
    PROVE  TypeInv' /\ (VoteInv => VoteInv')
<1>1. /\ UNCHANGED <<status, act, persist, queue, tasks, events, disk, sent, ledger,
                     durable, running, quit, crashes>>
      /\ writing = {} /\ writing' = pending /\ pending' = {}
  BY Zenon DEF WriterTake, loops, chain, life
<1>2. TypeInv'
  BY <1>1, Zenon DEF TypeInv, TypeOK, ActOK, DiskWithinLedger
<1>3. ASSUME VoteInv PROVE VoteInv'
  <2>1. InTasks' = InTasks /\ Written' = Written
    BY <1>1, Zenon DEF InTasks, Written
  <2>2. Known' \subseteq Known \cup {zero}
    BY <1>1, <2>1, Zenon DEF Known
  <2>3. OrderOK'
    BY <1>1, <1>3, <2>1, Zenon DEF VoteInv, OrderOK, Sorted, MayGo, Ahead, Behind
  <2>4. ASSUME crashes = 0 PROVE WritesOK' /\ SavedOK'
    <3>1. WritesOK'
      BY <1>1, <1>3, <2>1, <2>4, Zenon DEF VoteInv, WritesOK, Behind
    <3>2. SavedOK'
      BY <1>1, <1>3, <2>1, <2>4, Zenon DEF VoteInv, SavedOK, Behind, Cleared
    <3>3. QED
      BY <3>1, <3>2
  <2>5. QED
    BY <1>1, <1>3, <2>2, <2>3, <2>4, StillKnown, Zenon DEF VoteInv
<1>4. QED
  BY <1>2, <1>3

\* A write succeeds or fails.  The row never falls behind what it held.
LEMMA WriterWriteStep ==
    ASSUME TypeInv, WriterWrite
    PROVE  TypeInv' /\ (VoteInv => VoteInv')
<1>1. PICK s \in writing :
        /\ LedgerReady(s.State.Round) /\ writing' = {}
        /\ \/ /\ disk' = s.State
              /\ events' = events \cup {[For |-> s.For, Err |-> FALSE]}
           \/ /\ disk' = disk
              /\ events' = events \cup {[For |-> s.For, Err |-> TRUE]}
        /\ UNCHANGED <<loops, tasks, pending, sent, chain, life>>
  BY Zenon DEF WriterWrite
<1>2. UNCHANGED <<status, act, persist, queue, tasks, pending, sent, ledger, durable,
                  running, quit, crashes>>
  BY <1>1, Zenon DEF loops, chain, life
<1>3. s.State \in State /\ s.For \in Attestation /\ s \in Written /\ disk \in State
  BY KnownStates, Zenon DEF TypeInv, Written
<1>4. events' \subseteq [For : Attestation, Err : BOOLEAN] /\ disk' \in State
  <2>1. \A b \in BOOLEAN :
          [For |-> s.For, Err |-> b] \in [For : Attestation, Err : BOOLEAN]
    BY <1>3, Zenon
  <2>2. events \subseteq [For : Attestation, Err : BOOLEAN]
    BY Zenon DEF TypeInv, TypeOK
  <2>3. disk' \in State
    BY <1>1, <1>3, Zenon
  <2>4. QED
    BY <1>1, <2>1, <2>2, <2>3, Zenon
<1>5. DiskWithinLedger'
  <2>1. s.State.Round \in Nat /\ durable \in Int
    BY <1>3, StateFacts, BoundsAssumption DEF TypeInv, TypeOK
  <2>2. QED
    BY <1>1, <1>2, <2>1 DEF TypeInv, DiskWithinLedger, LedgerReady
<1>6. TypeInv'
  BY <1>1, <1>2, <1>4, <1>5, Zenon DEF TypeInv, TypeOK, ActOK
<1>7. ASSUME VoteInv PROVE VoteInv'
  <2>1. InTasks' = InTasks /\ Written' = pending /\ pending \subseteq Written
    BY <1>1, <1>2, Zenon DEF InTasks, Written
  <2>2. \A e \in events' : e \in events \/ e.For = s.For
    BY <1>1
  <2>3. Known' \subseteq Known \cup {zero}
    BY <1>1, <1>2, <1>3, <2>1, <2>2, ZenonT(30) DEF Known
  <2>4. OrderOK'
    BY <1>2, <1>7, <2>1, Zenon DEF VoteInv, OrderOK, Sorted, MayGo, Ahead, Behind
  <2>5. ASSUME crashes = 0 PROVE WritesOK' /\ SavedOK'
    <3>1. WritesOK /\ SavedOK
      BY <1>7, <2>5, Zenon DEF VoteInv
    <3>2. Behind(s.For, s.State) /\ Behind(disk, s.State) /\ Behind(s.State, persist)
      BY <1>3, <3>1, Zenon DEF WritesOK
    <3>3. \A t \in pending : Behind(s.State, t.State)
      BY <3>1, Zenon DEF WritesOK
    <3>0. disk' = s.State \/ disk' = disk
      BY <1>1, Zenon
    <3>4. WritesOK'
      <4>1. \A t \in pending : /\ Behind(t.For, t.State) /\ Behind(disk, t.State)
                               /\ Behind(t.State, persist)
        BY <2>1, <3>1, Zenon DEF WritesOK
      <4>2. \A t \in pending : Behind(disk', t.State)
        BY <3>0, <3>3, <4>1, Zenon
      <4>3. Behind(disk, persist)
        BY <3>1, Zenon DEF WritesOK
      <4>4. Behind(disk', persist)
        BY <3>0, <3>2, <4>3, Zenon
      <4>5. act.T \in {"attest", "enqueue"} => Behind(act.Att, persist)
        BY <3>1, Zenon DEF WritesOK
      <4>6. act' = act /\ persist' = persist /\ pending' = pending /\ writing' = {}
        BY <1>1, <1>2, Zenon
      <4>7. QED
        BY <2>1, <4>1, <4>2, <4>4, <4>5, <4>6, Zenon DEF WritesOK, Behind
    <3>5. ASSUME NEW x \in State, Behind(x, disk) PROVE Behind(x, disk')
      <4>1. Behind(x, s.State)
        BY <1>3, <3>2, <3>5, StateOrder, Zenon
      <4>2. QED
        BY <3>0, <3>5, <4>1, Zenon
    <3>6. \A e \in events' : ~e.Err => Behind(e.For, disk')
      <4>1. \A e \in events : ~e.Err => Behind(e.For, disk')
        BY <3>1, <3>5, KnownStates, Zenon DEF SavedOK, TypeInv
      <4>2. CASE disk' = s.State /\ events' = events \cup {[For |-> s.For, Err |-> FALSE]}
        <5>1. Behind(s.For, disk')
          BY <3>2, <4>2, Zenon
        <5>2. \A e \in events' : e \in events \/ e.For = s.For
          BY <4>2
        <5>3. QED
          BY <4>1, <5>1, <5>2, Zenon
      <4>3. CASE events' = events \cup {[For |-> s.For, Err |-> TRUE]}
        <5>1. \A e \in events' : e \in events \/ e.Err
          BY <4>3
        <5>2. QED
          BY <4>1, <5>1, Zenon
      <4>4. QED
        BY <1>1, <4>2, <4>3, Zenon
    <3>7. /\ \A a \in sent : Behind(a, disk')
          /\ act.T \in {"checkpoint", "relay"} /\ ~act.Err => Behind(act.Att, disk')
          /\ \A t \in InTasks : Cleared(t) => Behind(t.Att, disk')
      BY <3>1, <3>5, KnownStates, Zenon DEF SavedOK, TypeInv
    <3>8. SavedOK'
      BY <1>2, <2>1, <3>6, <3>7, Zenon DEF SavedOK, Cleared
    <3>9. QED
      BY <3>4, <3>8
  <2>6. QED
    BY <1>2, <1>7, <2>3, <2>4, <2>5, StillKnown, Zenon DEF VoteInv
<1>8. QED
  BY <1>6, <1>7

-----------------------------------------------------------------------------
(* The end of the process.                                                 *)

\* What has been sent is behind the row, so the restored player knows of it,
\* and the vote it repeats is the last that was sent or follows it.
LEMMA RestartStep ==
    ASSUME TypeInv, Restart
    PROVE  TypeInv' /\ (MaxCrashes <= 1 /\ VoteInv => VoteInv')
<1> DEFINE fresh == disk.Round < durable + 1
<1>1. /\ crashes < MaxCrashes /\ durable < MaxRound /\ crashes' = crashes + 1
      /\ status' = IF fresh THEN [Round |-> durable + 1, Step |-> 0]
                   ELSE [Round |-> disk.Round, Step |-> disk.Step]
      /\ act' = IF fresh THEN noop ELSE Do("attest", disk, FALSE)
      /\ persist' = zero /\ tasks' = <<>> /\ queue' = <<>>
      /\ pending' = {} /\ writing' = {} /\ events' = {} /\ ledger' = durable
      /\ UNCHANGED <<disk, sent, durable>>
  BY Zenon DEF Restart
<1>2. /\ crashes \in Nat /\ crashes <= MaxCrashes /\ durable \in 0..MaxRound
      /\ disk \in State /\ sent \subseteq Attestation /\ Attestation \subseteq State
  BY KnownStates, BoundsAssumption DEF TypeInv, TypeOK
<1>3. disk.Round \in Nat /\ disk.Step \in Nat
  BY <1>2, StateFacts, Zenon
<1>4. ~fresh => disk \in Attestation
  BY <1>2, BoundsAssumption DEF State, zero
<1>5. status' \in [Round : 1..MaxRound, Step : 0..MaxStep]
  BY <1>1, <1>2, <1>3, <1>4, BoundsAssumption DEF Attestation
<1>6. /\ act' \in Action /\ ActOK'
      /\ \/ fresh /\ act'.T = "none" /\ act'.Att = zero
         \/ ~fresh /\ act'.T = "attest" /\ act'.Att = disk
  <2>1. CASE fresh
    BY <1>1, <2>1, NoopFacts, Zenon DEF ActOK
  <2>2. CASE ~fresh
    BY <1>1, <1>2, <1>4, <2>2, Zenon DEF Do, Action, ActOK
  <2>3. QED
    BY <2>1, <2>2, Zenon
<1>7. TypeInv'
  <2>1. /\ tasks' \in Seq(Tasks) /\ Len(tasks') <= Backlog + 1 /\ queue' \in Seq(Channels)
    <3>1. tasks' = <<>> /\ queue' = <<>>
      BY <1>1, Zenon
    <3>2. QED
      BY <3>1, BoundsAssumption
  <2>2. ledger' \in 0..MaxRound /\ durable' \in 0..ledger' /\ crashes' \in 0..MaxCrashes
    <3>1. ledger' = durable /\ durable' = durable /\ crashes' = crashes + 1
      BY <1>1, Zenon
    <3>2. crashes < MaxCrashes
      BY <1>1, Zenon
    <3>3. QED
      BY <1>2, <3>1, <3>2, BoundsAssumption
  <2>3. running' \in BOOLEAN /\ quit' \in BOOLEAN
    BY Zenon DEF Restart
  <2>4. persist' \in State
    BY <1>1, Zenon DEF State
  <2>5. QED
    BY <1>1, <1>5, <1>6, <2>1, <2>2, <2>3, <2>4, Zenon DEF TypeInv, TypeOK, DiskWithinLedger
<1>8. ASSUME MaxCrashes <= 1, VoteInv PROVE VoteInv'
  <2>1. crashes = 0 /\ crashes' # 0
    BY <1>1, <1>2, <1>8, BoundsAssumption
  <2>2. KnownOK /\ SavedOK
    BY <1>8, <2>1, Zenon DEF VoteInv
  <2>3. \A b \in sent : b \in State /\ Behind(b, disk)
    BY <1>2, <2>2, Zenon DEF SavedOK
  <2>4. InTasks' = {}
    BY <1>1 DEF InTasks
  <2>5. Known' \subseteq sent \cup {disk, zero}
    BY <1>1, <1>6, <2>4, Zenon DEF Known, Written
  <2>6. sent \cup {disk} \subseteq Known
    BY Zenon DEF Known
  <2>7. ASSUME NEW x \in Known' PROVE Behind(x, status')
    <3>1. x \in State /\ Behind(x, disk)
      BY <1>2, <2>3, <2>5, StateOrder, Zenon DEF State
    <3>2. x.Round \in Nat /\ x.Step \in Nat
      BY <3>1, StateFacts, Zenon
    <3>3. CASE fresh
      BY <1>1, <1>2, <1>3, <3>1, <3>2, <3>3 DEF Behind
    <3>4. CASE ~fresh
      BY <1>1, <3>1, <3>4, Zenon DEF Behind
    <3>5. QED
      BY <3>3, <3>4, Zenon
  <2>8. ASSUME NEW x \in Known', NEW y \in Known', Behind(x, y), Behind(y, x)
        PROVE  x = y
    <3>1. CASE x \in Known /\ y \in Known
      BY <2>2, <2>8, <3>1, Zenon DEF KnownOK
    <3>2. CASE x = zero \/ y = zero
      <4>1. x \in State /\ y \in State
        BY <1>2, <2>5, Zenon DEF State
      <4>2. QED
        BY <2>8, <3>2, <4>1, StateFacts, Zenon
    <3>3. QED
      BY <2>5, <2>6, <2>8, <3>1, <3>2, Zenon
  <2>9. KnownOK'
    BY <2>7, <2>8, Zenon DEF KnownOK
  <2>10. disk \in sent \/ \A b \in sent : Ahead(disk, b)
    <3>1. ASSUME NEW b \in sent, Behind(disk, b) PROVE disk \in sent
      BY <2>2, <2>3, <2>6, <3>1, Zenon DEF KnownOK
    <3>2. QED
      BY <3>1, Zenon DEF Ahead
  <2>11. OrderOK'
    <3>1. Sorted'
      BY <1>1 DEF Sorted
    <3>2. QED
      BY <1>1, <1>6, <2>4, <2>10, <3>1, Zenon DEF OrderOK, MayGo, Ahead, Behind
  <2>12. QED
    BY <2>1, <2>9, <2>11, Zenon DEF VoteInv
<1>9. QED
  BY <1>7, <1>8, Zenon

\* The service starts with nothing to vote for.
LEMMA InitInv == Init => TypeInv /\ VoteInv
<1> SUFFICES ASSUME Init PROVE TypeInv /\ VoteInv
  BY Zenon
<1>1. /\ act = noop /\ persist = zero /\ disk = zero /\ sent = {} /\ tasks = <<>>
      /\ pending = {} /\ writing = {} /\ events = {} /\ queue = <<>>
  BY Zenon DEF Init
<1>2. zero \in State /\ zero.Round = 0 /\ zero.Step = 0
  BY Zenon DEF State, zero
<1>3. InTasks = {} /\ Written = {} /\ Known = {zero}
  <2>1. InTasks = {}
    <3>1. Len(tasks) = 0
      BY <1>1, Zenon
    <3>2. QED
      BY <3>1 DEF InTasks
  <2>2. Written = {}
    BY <1>1, Zenon DEF Written
  <2>3. act.Att = zero
    BY <1>1, NoopFacts, Zenon
  <2>4. Known = {zero}
    BY <1>1, <2>1, <2>2, <2>3, Zenon DEF Known
  <2>5. QED
    BY <2>1, <2>2, <2>4, Zenon
<1>4. Behind(zero, status) /\ Behind(zero, zero)
  BY <1>2 DEF Behind, Init
<1>5. VoteInv
  <2>1. act.T = "none" /\ act.Att = zero
    BY <1>1, NoopFacts, Zenon
  <2>2. KnownOK
    BY <1>3, <1>4, Zenon DEF KnownOK
  <2>3. Sorted
    BY <1>1 DEF Sorted
  <2>4. OrderOK
    BY <1>3, <2>1, <2>3, Zenon DEF OrderOK
  <2>5. WritesOK
    BY <1>1, <1>3, <1>4, <2>1, Zenon DEF WritesOK
  <2>6. SavedOK
    BY <1>1, <1>3, <2>1, Zenon DEF SavedOK
  <2>7. QED
    BY <2>2, <2>4, <2>5, <2>6, Zenon DEF VoteInv
<1>6. tasks \in Seq(Tasks) /\ Len(tasks) <= Backlog + 1 /\ queue \in Seq(Channels)
  BY <1>1, BoundsAssumption
<1>7. /\ status \in [Round : 1..MaxRound, Step : 0..MaxStep]
      /\ ledger \in 0..MaxRound /\ durable \in 0..ledger /\ crashes \in 0..MaxCrashes
  BY BoundsAssumption DEF Init
<1>8. running \in BOOLEAN /\ quit \in BOOLEAN
  BY Zenon DEF Init
<1>9. DiskWithinLedger
  BY <1>1, <1>2 DEF Init, DiskWithinLedger
<1>10. TypeOK /\ ActOK
  BY <1>1, <1>2, <1>6, <1>7, <1>8, NoopFacts, Zenon DEF TypeOK, ActOK
<1>11. QED
  BY <1>5, <1>9, <1>10, Zenon DEF TypeInv

-----------------------------------------------------------------------------
(* All steps together.  One death is enough to allow for: the votes of the *)
(* restored player are written with zero, so a second one could forget.    *)
LEMMA NextInv ==
    ASSUME TypeInv, [Next]_vars
    PROVE  TypeInv' /\ (MaxCrashes <= 1 /\ VoteInv => VoteInv')
<1>1. CASE UNCHANGED vars
  <2>1. UNCHANGED <<status, act, persist, tasks, queue, pending, writing, events, disk,
                    sent, ledger, durable, running, quit, crashes>>
    BY <1>1, Zenon DEF vars, loops, storage, chain, life
  <2>2. TypeInv'
    BY <2>1, Zenon DEF TypeInv, TypeOK, ActOK, DiskWithinLedger
  <2>3. InTasks' = InTasks /\ (VoteInv => Sorted')
    BY <2>1, Zenon DEF InTasks, VoteInv, OrderOK, Sorted, Ahead, Behind
  <2>4. VoteInv => VoteInv'
    BY <2>1, <2>3, Frame, Zenon
  <2>5. QED
    BY <2>2, <2>4, Zenon
<1>2. ASSUME NEW v \in Values, HandleAttest(v)
      PROVE  TypeInv' /\ (VoteInv => VoteInv')
  BY <1>2, HandleAttestStep, Zenon
<1>3. CASE \/ HandleCertificate \/ HandleInterruption \/ TakeCheckpoint \/ TakeVote
           \/ DoEnqueue \/ DoCheckpoint \/ DoRelay \/ WriterTake \/ WriterWrite
  BY <1>3, NewRoundSteps, TakeCheckpointStep, TakeVoteStep, EnqueueStep, CheckpointStep,
     RelayStep, WriterTakeStep, WriterWriteStep, Zenon
<1>4. CASE DoAttest
  <2>1. CASE act' = noop /\ tasks' = tasks
    BY <1>4, <2>1, QuietSteps, Zenon
  <2>2. CASE /\ Len(tasks) <= Backlog /\ tasks' = Append(tasks, Queued(act.Att))
             /\ act' = [act EXCEPT !.T = "enqueue"]
    BY <1>4, <2>2, MakeTaskStep, Zenon
  <2>3. QED
    BY <1>4, <2>1, <2>2, Zenon DEF DoAttest
<1>5. CASE SkipClosed \/ DoEnsure \/ Catchup \/ SyncBlocks \/ Shutdown
  BY <1>5, QuietSteps, Zenon
<1>6. CASE TaskMake \/ TaskRelease \/ TaskCancel \/ Exit
  BY <1>6, TaskSteps, Zenon
<1>7. CASE Restart
  BY <1>7, RestartStep, Zenon
<1>8. QED
  BY <1>1, <1>2, <1>3, <1>4, <1>5, <1>6, <1>7, Zenon DEF Next

(* Channels, backlog and rows of the service keep their types and bounds,  *)
(* however often the process dies (pseudonode.go, persistence.go).         *)
THEOREM ServiceTyped == Spec => []TypeOK
<1>1. TypeInv => TypeOK
  BY Zenon DEF TypeInv
<1>2. QED
  BY InitInv, NextInv, <1>1, PTL DEF Spec

(* The row of the crash database is never ahead of the ledger's blocks on  *)
(* disk, however often the process dies (persistence.go:289).              *)
THEOREM RowWithinLedger == Spec => []DiskWithinLedger
<1>1. TypeInv => DiskWithinLedger
  BY Zenon DEF TypeInv
<1>2. QED
  BY InitInv, NextInv, <1>1, PTL DEF Spec

(* A node whose process dies at most once never has a player that is       *)
(* behind a vote the node has sent (pseudonode.go:443).                    *)
THEOREM VotesAreKnown ==
    ASSUME MaxCrashes <= 1 PROVE Spec => []PlayerKnowsVotes
<1>1. VoteInv => PlayerKnowsVotes
  BY Zenon DEF VoteInv, KnownOK, Known, PlayerKnowsVotes
<1>2. TypeInv /\ VoteInv /\ [Next]_vars => TypeInv' /\ VoteInv'
  BY NextInv, Zenon
<1>3. QED
  BY InitInv, <1>1, <1>2, PTL DEF Spec

(* Its votes leave in the order in which the player cast them, and never   *)
(* two for one attest action.                                              *)
THEOREM VotesAreOrdered ==
    ASSUME MaxCrashes <= 1 PROVE Spec => VotesInOrder
<1>1. TypeInv /\ VoteInv /\ [Next]_vars => TypeInv' /\ VoteInv'
  BY NextInv
<1>2. TypeInv /\ VoteInv /\ [Next]_vars =>
        [\A a \in sent' \ sent, b \in sent : ~Behind(a, b)]_vars
  <2> SUFFICES ASSUME VoteInv, Next, NEW a \in sent' \ sent, NEW b \in sent
               PROVE  ~Behind(a, b)
    BY Zenon
  <2>1. sent' = sent \/ DoRelay
    BY Zenon DEF Next, HandleAttest, HandleCertificate, HandleInterruption, TakeCheckpoint,
           TakeVote, SkipClosed, DoAttest, DoEnqueue, DoEnsure, DoCheckpoint, WriterTake,
           WriterWrite, TaskMake, TaskRelease, TaskCancel, Catchup, SyncBlocks, Shutdown,
           Exit, Restart
  <2>2. a = act.Att /\ act.T = "relay"
    BY <2>1, Zenon DEF DoRelay
  <2>3. QED
    BY <2>2, Zenon DEF VoteInv, OrderOK, MayGo, Ahead
<1>3. QED
  BY InitInv, <1>1, <1>2, PTL DEF Spec, VotesInOrder
=============================================================================
