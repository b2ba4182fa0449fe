---------------------------- MODULE CatchupProofs ----------------------------
(***************************************************************************)
(* Proofs about the catchup service, for every length of the chain, every  *)
(* number of parallel requests, every lookback and retry limit.            *)
(*                                                                         *)
(* The argument for PipelineBounded: a task is made for each round from    *)
(* the first on, and the second loop makes one for round next only when    *)
(* it has seen round next - Requests, hence all rounds up to it.  So the   *)
(* tasks whose result nobody has received are at most those of the last    *)
(* Requests rounds.  For LookbackInLedger: a channel reports success only  *)
(* of a round the ledger has, and a task goes on only after it has read    *)
(* that from the channel of its lookback round.                            *)
(***************************************************************************)
EXTENDS Catchup, FiniteSetTheorems, TLAPS

\* Time enough for every leaf on a loaded machine.
USE SMTT(30), ZenonT(30)

-----------------------------------------------------------------------------
(* Sequences.                                                              *)

LEMMA SeqElement ==
    ASSUME NEW S, NEW s \in Seq(S), NEW n \in 1..Len(s)
    PROVE  s[n] \in S
OBVIOUS

LEMMA SeqEmpty ==
    ASSUME NEW S
    PROVE  /\ <<>> \in Seq(S) /\ Len(<<>>) = 0
           /\ \A s \in Seq(S) : s # <<>> => Len(s) \in Nat \ {0}
OBVIOUS

LEMMA SeqTail ==
    ASSUME NEW S, NEW s \in Seq(S), s # <<>>
    PROVE  /\ Head(s) \in S /\ Tail(s) \in Seq(S) /\ Len(Tail(s)) = Len(s) - 1
           /\ \A i \in 1..Len(Tail(s)) : Tail(s)[i] = s[i + 1]
OBVIOUS

LEMMA SeqAppend ==
    ASSUME NEW S, NEW s \in Seq(S), NEW e \in S
    PROVE  /\ Append(s, e) \in Seq(S) /\ Append(s, e) # <<>>
           /\ Len(Append(s, e)) = Len(s) + 1
           /\ \A i \in 1..Len(s) : Append(s, e)[i] = s[i]
           /\ Append(s, e)[Len(s) + 1] = e
OBVIOUS

-----------------------------------------------------------------------------
(* The inductive invariant and the steps of the workers.                   *)

\* Tasks, running or not, whose result has not been received.
Outstanding == Len(taskCh) + Cardinality(Running) + Len(completed)

TaskRecord == [at : Places, tries : 0..RetryLimit, back : BOOLEAN]

\* What the place of a task of round r tells of its attempts and of a ledger
\* whose last round is l.
GoodTask(r, t, l) ==
    /\ t.at \in {"lookback", "good", "forged"} => t.tries < RetryLimit
    /\ t.at \in {"good", "forged", "prev", "backlog", "add"} => r <= Goal
    /\ t.back \/ t.at \in {"prev", "backlog", "add"} => l >= r - SeedLookback
    /\ t.at = "written" => l >= r

TaskOK == \A r \in Running : GoodTask(r, task[r], last)

\* Channels that report success only of rounds the ledger has.
GoodChannels(cs, l) ==
    /\ cs \in [Rounds -> Seq(BOOLEAN)]
    /\ \A c \in Rounds : Len(cs[c]) <= 2
    /\ \A c \in Rounds : \A i \in 1..Len(cs[c]) : cs[c][i] => l >= c

ChanOK == GoodChannels(chan, last)

\* Every result is of a round the ledger has.
ResultOK ==
    /\ \A i \in 1..Len(completed) : completed[i] <= last
    /\ \A r \in seen : r <= last

\* syncStartNS is set while a pipeline exists.
SyncOK ==
    /\ pc \in {"fill", "rest", "drain"} => syncing
    /\ suspended => syncing

\* The rounds of a pipeline and the tasks made for them.
CountOK ==
    /\ pc \in {"off", "idle", "cert", "connect"} =>
         taskCh = <<>> /\ Running = {} /\ completed = <<>> /\ seen = {}
    /\ pc = "fill" =>
         /\ 1 <= from /\ from <= next /\ next < from + Requests
         /\ seen = {} /\ Outstanding <= next - from
    /\ pc = "rest" =>
         /\ from..(next - Requests - 1) \subseteq seen
         /\ Outstanding + Cardinality(seen) <= next - from
    /\ Outstanding <= Requests

IInv == TypeOK /\ TaskOK /\ ChanOK /\ ResultOK /\ SyncOK /\ CountOK

-----------------------------------------------------------------------------
(* Constants, finite sets, channels.                                       *)

\* The pipeline has room for a request, and the goal is a round of the
\* network.
LEMMA ConstantFacts ==
    /\ Requests \in Nat \ {0} /\ SeedLookback <= Requests
    /\ Goal \in Nat /\ Goal <= Tip
    /\ Tip \in Nat /\ SeedLookback \in Nat \ {0} /\ RetryLimit \in Nat \ {0}
    /\ MaxStarts \in Nat
BY PipelineAssumption DEF Requests, Larger, Goal

(* The tasks of the workers and the rounds seen are finitely many.         *)
LEMMA FiniteFacts ==
    ASSUME TypeOK
    PROVE  /\ IsFiniteSet(Running) /\ Cardinality(Running) \in Nat
           /\ IsFiniteSet(seen) /\ Cardinality(seen) \in Nat
<1>1. IsFiniteSet(1..(Goal + Requests)) /\ IsFiniteSet(1..Goal)
  BY FS_Interval, ConstantFacts
<1>2. IsFiniteSet(Running)
  BY <1>1, FS_Subset, Zenon DEF TypeOK
<1>3. IsFiniteSet(seen)
  BY <1>1, FS_Subset, Zenon DEF TypeOK
<1>4. QED
  BY <1>2, <1>3, FS_CardinalityType, Zenon

(* Reading from a channel leaves good channels.                            *)
LEMMA ReadGood ==
    ASSUME ChanOK, NEW c \in Rounds, chan[c] # <<>>
    PROVE  /\ GoodChannels(Read(c), last)
           /\ Head(chan[c]) \in BOOLEAN
           /\ last \in Int => (Head(chan[c]) => last >= c)
<1> DEFINE s == chan[c]
<1>1. s \in Seq(BOOLEAN) /\ Len(s) <= 2 /\ Len(s) \in Nat \ {0}
  BY SeqEmpty, Zenon DEF ChanOK, GoodChannels
<1>2. /\ Head(s) \in BOOLEAN /\ Tail(s) \in Seq(BOOLEAN) /\ Len(Tail(s)) = Len(s) - 1
      /\ \A i \in 1..Len(Tail(s)) : Tail(s)[i] = s[i + 1]
  BY <1>1, SeqTail, Zenon
<1>3. Head(s) = s[1]
  BY <1>1
<1>4. Head(s) => last >= c
  <2>1. 1 \in 1..Len(s)
    BY <1>1
  <2>2. s[1] => last >= c
    BY <2>1, Zenon DEF ChanOK, GoodChannels
  <2>3. QED
    BY <1>3, <2>2, Zenon
<1>5. GoodChannels(Read(c), last)
  <2>1. /\ Read(c) \in [Rounds -> Seq(BOOLEAN)]
        /\ \A d \in Rounds : Read(c)[d] = IF d = c THEN Tail(s) ELSE chan[d]
    BY <1>2, Zenon DEF ChanOK, GoodChannels, Read
  <2>2. \A d \in Rounds : Len(Read(c)[d]) <= 2
    BY <1>1, <1>2, <2>1 DEF ChanOK, GoodChannels
  <2>3. ASSUME NEW d \in Rounds, NEW i \in 1..Len(Read(c)[d]), Read(c)[d][i]
        PROVE  last >= d
    <3>1. CASE d = c
      BY <1>1, <1>2, <2>1, <2>3, <3>1 DEF ChanOK, GoodChannels
    <3>2. CASE d # c
      BY <2>1, <2>3, <3>2, Zenon DEF ChanOK, GoodChannels
    <3>3. QED
      BY <3>1, <3>2, Zenon
  <2>4. QED
    BY <2>1, <2>2, <2>3, Zenon DEF GoodChannels
<1>6. QED
  BY <1>2, <1>4, <1>5, Zenon

(* The result of a task leaves good channels if success means that the     *)
(* round is in the ledger.                                                 *)
LEMMA CompletesGood ==
    ASSUME NEW cs, NEW l \in Int, GoodChannels(cs, l), NEW r \in Rounds,
           NEW ok \in BOOLEAN, ok => l >= r
    PROVE  GoodChannels([cs EXCEPT ![r] = <<ok, ok>>], l)
<1> DEFINE ds == [cs EXCEPT ![r] = <<ok, ok>>]
<1>1. /\ <<ok, ok>> \in Seq(BOOLEAN) /\ Len(<<ok, ok>>) = 2
      /\ \A i \in 1..2 : <<ok, ok>>[i] = ok
  OBVIOUS
<1>2. /\ ds \in [Rounds -> Seq(BOOLEAN)]
      /\ \A d \in Rounds : ds[d] = IF d = r THEN <<ok, ok>> ELSE cs[d]
  BY <1>1, Zenon DEF GoodChannels
<1>3. QED
  BY <1>1, <1>2 DEF GoodChannels

(* The ledger only grows.                                                  *)
LEMMA ChannelsGrow ==
    ASSUME NEW cs, NEW l \in Int, NEW m \in Int, l <= m, GoodChannels(cs, l)
    PROVE  GoodChannels(cs, m)
BY ConstantFacts DEF GoodChannels, Rounds

\* So does what the place of a task tells of the ledger.
LEMMA TaskGrows ==
    ASSUME NEW r \in Int, NEW t \in TaskRecord, NEW l \in Int, NEW m \in Int,
           l <= m, GoodTask(r, t, l)
    PROVE  GoodTask(r, t, m)
BY ConstantFacts DEF GoodTask, TaskRecord

-----------------------------------------------------------------------------
(* The workers.                                                            *)

\* Where the task of a round is, and that a pipeline exists.
LEMMA RunningRounds ==
    ASSUME IInv, NEW r \in Running
    PROVE  /\ r \in Rounds /\ r \in 1..(Goal + Requests)
           /\ lookbackChan(r) \in Rounds /\ prevFetchCompleteChan(r) \in Rounds
           /\ task[r] \in TaskRecord /\ GoodTask(r, task[r], last)
           /\ pc \in {"fill", "rest", "drain"}
           /\ last \in Nat /\ last <= Goal
<1>1. r \in 1..(Goal + Requests)
  BY Zenon DEF IInv, TypeOK
<1>2. r \in Rounds /\ lookbackChan(r) \in Rounds /\ prevFetchCompleteChan(r) \in Rounds
  BY <1>1, ConstantFacts DEF Rounds, lookbackChan, prevFetchCompleteChan
<1>3. task[r] \in TaskRecord /\ GoodTask(r, task[r], last)
  BY Zenon DEF IInv, TypeOK, TaskOK, TaskRecord
<1>4. pc \in {"fill", "rest", "drain"}
  BY Zenon DEF IInv, TypeOK, CountOK
<1>5. last \in Nat /\ last <= Goal
  BY ConstantFacts DEF IInv, TypeOK
<1>6. QED
  BY <1>1, <1>2, <1>3, <1>4, <1>5, Zenon

(* A step of a worker that moves one task, to a place the ledger allows,   *)
(* and leaves good channels, preserves the invariant.                      *)
LEMMA WorkerStep ==
    ASSUME IInv, NEW r \in Running, NEW t \in TaskRecord,
           task' = [task EXCEPT ![r] = t], last' \in last..Goal,
           GoodTask(r, t, last'), GoodChannels(chan', last'),
           UNCHANGED <<taskCh, completed, outside>>
    PROVE  IInv'
<1>1. last \in 0..Goal /\ last' \in Int /\ last <= last' /\ flushed \in 0..last
  BY ConstantFacts DEF IInv, TypeOK
<1>2. /\ Running' = Running
      /\ task' \in [Running -> TaskRecord]
      /\ \A q \in Running : task'[q] = IF q = r THEN t ELSE task[q]
  BY Zenon DEF IInv, TypeOK, Running, TaskRecord
<1>3. TypeOK'
  <2>1. last' \in 0..Goal /\ flushed' \in 0..last'
    BY <1>1, ConstantFacts DEF outside
  <2>2. Running' \subseteq 1..(Goal + Requests) /\ task' \in [Running' -> TaskRecord]
    BY <1>2, Zenon DEF IInv, TypeOK
  <2>3. chan' \in [Rounds -> Seq(BOOLEAN)] /\ \A c \in Rounds : Len(chan'[c]) <= 2
    BY Zenon DEF GoodChannels
  <2>4. QED
    BY <2>1, <2>2, <2>3 DEF IInv, TypeOK, TaskRecord, outside, lifeVars, syncVars, waitVars
<1>4. TaskOK'
  <2>1. ASSUME NEW q \in Running
        PROVE  GoodTask(q, task'[q], last')
    <3>1. CASE q = r
      BY <3>1, <1>2, Zenon
    <3>2. CASE q # r
      <4>1. q \in Int /\ task[q] \in TaskRecord /\ GoodTask(q, task[q], last)
        BY RunningRounds, ConstantFacts
      <4>2. last \in Int
        BY <1>1, ConstantFacts
      <4>3. QED
        BY <3>2, <1>1, <1>2, <4>1, <4>2, TaskGrows, Zenon
    <3>3. QED
      BY <3>1, <3>2, Zenon
  <2>2. QED
    BY <2>1, <1>2, Zenon DEF TaskOK
<1>5. ChanOK'
  BY Zenon DEF ChanOK
<1>6. ResultOK'
  <2>1. completed \in Seq(0..Goal) /\ seen \subseteq 1..Goal
    BY Zenon DEF IInv, TypeOK
  <2>2. \A i \in 1..Len(completed) : completed[i] \in 0..Goal
    BY <2>1, SeqElement, Zenon
  <2>3. QED
    BY <2>1, <2>2, <1>1, ConstantFacts DEF IInv, ResultOK, outside
<1>7. SyncOK'
  BY Zenon DEF IInv, SyncOK, outside, syncVars
<1>8. Outstanding' = Outstanding
  BY <1>2, Zenon DEF Outstanding
<1>9. CountOK'
  BY <1>2, <1>8, Zenon DEF IInv, CountOK, outside
<1>10. QED
  BY <1>3, <1>4, <1>5, <1>6, <1>7, <1>9, Zenon DEF IInv

(* A task completes, after reading from a channel or not.                  *)
LEMMA CompletesStep ==
    ASSUME IInv, NEW r \in Running, NEW cs, NEW ok \in BOOLEAN,
           last' \in last..Goal, GoodChannels(cs, last), ok => last' >= r,
           Completes(cs, r, ok), UNCHANGED <<taskCh, completed, outside>>
    PROVE  IInv'
<1> DEFINE t == [task[r] EXCEPT !.at = IF ok THEN "written" ELSE "failed"]
<1>1. r \in Rounds /\ task[r] \in TaskRecord /\ last \in Int /\ GoodTask(r, task[r], last)
  BY RunningRounds
<1>2. last' \in Int /\ last <= last'
  BY <1>1, ConstantFacts
<1>3. task' = [task EXCEPT ![r] = t]
  BY Zenon DEF Completes, Goes
<1>4. t \in TaskRecord /\ t.back = task[r].back /\ t.at = IF ok THEN "written" ELSE "failed"
  BY <1>1, Zenon DEF TaskRecord, Places
<1>5. GoodTask(r, t, last')
  BY <1>1, <1>2, <1>4, ConstantFacts DEF GoodTask, Rounds
<1>6. GoodChannels(chan', last')
  <2>1. GoodChannels(cs, last')
    BY <1>1, <1>2, ChannelsGrow, Zenon
  <2>2. GoodChannels([cs EXCEPT ![r] = <<ok, ok>>], last')
    BY <1>1, <1>2, <2>1, CompletesGood, Zenon
  <2>3. QED
    BY <2>2, Zenon DEF Completes
<1> HIDE DEF t
<1>7. QED
  BY <1>3, <1>4, <1>5, <1>6, WorkerStep, Zenon

(* A task that gives up completes without success.                         *)
LEMMA GivesUp ==
    ASSUME IInv, NEW r \in Running, NEW cs, GoodChannels(cs, last),
           Completes(cs, r, FALSE), UNCHANGED <<last, taskCh, completed, outside>>
    PROVE  IInv'
<1>1. last' \in last..Goal
  BY RunningRounds, ConstantFacts
<1>2. QED
  BY <1>1, CompletesStep, Zenon

(* A task that stays in the ledger it knows moves or tries again.          *)
LEMMA MovesStep ==
    ASSUME IInv, NEW r \in Running, NEW t \in TaskRecord,
           task' = [task EXCEPT ![r] = t], GoodTask(r, t, last),
           GoodChannels(chan', last), UNCHANGED <<last, taskCh, completed, outside>>
    PROVE  IInv'
<1>1. last' \in last..Goal
  BY RunningRounds, ConstantFacts
<1>2. QED
  BY <1>1, WorkerStep, Zenon

(* One more attempt: the limit is not reached, and back is set only when   *)
(* the lookback round is in the ledger.                                    *)
LEMMA AgainStep ==
    ASSUME IInv, NEW r \in Running, NEW back \in BOOLEAN,
           task[r].tries < RetryLimit, back => last >= r - SeedLookback,
           task' = Again(r, back), GoodChannels(chan', last),
           UNCHANGED <<last, taskCh, completed, outside>>
    PROVE  IInv'
<1> DEFINE t == [at |-> "fetch", tries |-> task[r].tries + 1, back |-> back]
<1>1. task' = [task EXCEPT ![r] = t]
  BY Zenon DEF Again
<1>2. task[r] \in TaskRecord
  BY RunningRounds, Zenon
<1>3. t \in TaskRecord
  BY <1>2, ConstantFacts DEF TaskRecord, Places
<1>4. GoodTask(r, t, last)
  BY Zenon DEF GoodTask
<1> HIDE DEF t
<1>5. QED
  BY <1>1, <1>3, <1>4, MovesStep, Zenon

(* A task goes on to another place.                                        *)
LEMMA GoesStep ==
    ASSUME IInv, NEW r \in Running, NEW where \in Places, Goes(r, where),
           GoodTask(r, [task[r] EXCEPT !.at = where], last),
           GoodChannels(chan', last), UNCHANGED <<last, taskCh, completed, outside>>
    PROVE  IInv'
<1>1. task' = [task EXCEPT ![r] = [task[r] EXCEPT !.at = where]]
  BY Zenon DEF Goes
<1>2. [task[r] EXCEPT !.at = where] \in TaskRecord
  BY RunningRounds, Zenon DEF TaskRecord
<1>3. QED
  BY <1>1, <1>2, MovesStep, Zenon

\* The attempts of fetchAndWrite to download the block of a round.
LEMMA FetchSteps ==
    ASSUME IInv, NEW r \in Running,
           \/ FetchNothing(r) \/ FetchNobody(r) \/ FetchFails(r) \/ FetchMismatch(r)
           \/ \E kind \in {"good", "forged"} : FetchAnswer(r, kind)
    PROVE  IInv'
<1>1. GoodChannels(chan, last) /\ task[r] \in TaskRecord /\ GoodTask(r, task[r], last)
  BY RunningRounds, Zenon DEF IInv, ChanOK
<1>2. CASE FetchNothing(r)
  BY <1>1, <1>2, GivesUp, Zenon DEF FetchNothing
<1>3. CASE FetchNobody(r)
  BY <1>1, <1>3, GivesUp, Zenon DEF FetchNobody
<1>4. CASE FetchFails(r)
  <2>1. GoodChannels(chan', last) /\ task[r].tries < RetryLimit
    BY <1>1, <1>4, Zenon DEF FetchFails, Asking
  <2>2. CASE task[r].back
    <3>1. last >= r - SeedLookback
      BY <1>1, <2>2, Zenon DEF GoodTask
    <3>2. QED
      BY <1>4, <2>1, <2>2, <3>1, AgainStep, Zenon DEF FetchFails
  <2>3. CASE ~task[r].back
    <3>1. Goes(r, "lookback")
      BY <1>4, <2>3, Zenon DEF FetchFails, Goes
    <3>2. GoodTask(r, [task[r] EXCEPT !.at = "lookback"], last)
      BY <1>1, <2>1, <2>3, Zenon DEF GoodTask, TaskRecord
    <3>3. QED
      BY <1>4, <2>1, <3>1, <3>2, GoesStep, Zenon DEF FetchFails, Places
  <2>4. QED
    BY <2>2, <2>3, Zenon
<1>5. CASE FetchMismatch(r)
  <2>1. GoodChannels(chan', last) /\ task[r].tries < RetryLimit
    BY <1>1, <1>5, Zenon DEF FetchMismatch, Asking
  <2>2. task[r].back \in BOOLEAN /\ (task[r].back => last >= r - SeedLookback)
    BY <1>1, Zenon DEF GoodTask, TaskRecord
  <2>3. QED
    BY <1>5, <2>1, <2>2, AgainStep, Zenon DEF FetchMismatch
<1>6. ASSUME NEW kind \in {"good", "forged"}, FetchAnswer(r, kind)
      PROVE  IInv'
  <2>1. GoodTask(r, [task[r] EXCEPT !.at = kind], last)
    BY <1>1, <1>6, Zenon DEF FetchAnswer, Asking, GoodTask, TaskRecord
  <2>2. GoodChannels(chan', last) /\ kind \in Places
    BY <1>1, <1>6, Zenon DEF FetchAnswer, Places
  <2>3. QED
    BY <1>6, <2>1, <2>2, GoesStep, Zenon DEF FetchAnswer
<1>7. QED
  BY <1>2, <1>3, <1>4, <1>5, <1>6, Zenon

(* Reading from the channel of the lookback round and from that of the     *)
(* previous round.                                                         *)
LEMMA ChannelSteps ==
    ASSUME IInv, NEW r \in Running,
           \/ LookbackThere(r) \/ PrevComplete(r)
           \/ \E kind \in {"good", "forged"} : Authenticate(r, kind)
    PROVE  IInv'
<1> DEFINE c == lookbackChan(r)
           p == prevFetchCompleteChan(r)
<1>1. /\ GoodChannels(chan, last) /\ task[r] \in TaskRecord /\ GoodTask(r, task[r], last)
      /\ c \in Rounds /\ p \in Rounds /\ c = r - SeedLookback /\ last \in Int
  BY RunningRounds DEF IInv, ChanOK, lookbackChan
<1>2. ASSUME chan[c] # <<>>
      PROVE  /\ GoodChannels(Read(c), last) /\ Head(chan[c]) \in BOOLEAN
             /\ Head(chan[c]) => last >= r - SeedLookback
  BY <1>1, <1>2, ReadGood, Zenon DEF IInv
<1>3. CASE LookbackThere(r)
  <2>1. chan[c] # <<>> /\ task[r].tries < RetryLimit
    BY <1>1, <1>3, Zenon DEF LookbackThere, At, GoodTask
  <2>2. CASE Head(chan[c])
    <3>1. task' = Again(r, TRUE) /\ chan' = Read(c)
      BY <1>3, <2>2, Zenon DEF LookbackThere
    <3>2. QED
      BY <1>2, <1>3, <2>1, <2>2, <3>1, AgainStep, Zenon DEF LookbackThere
  <2>3. CASE ~Head(chan[c])
    <3>1. Completes(Read(c), r, FALSE)
      BY <1>3, <2>3, Zenon DEF LookbackThere
    <3>2. QED
      BY <1>2, <1>3, <2>1, <3>1, GivesUp, Zenon DEF LookbackThere
  <2>4. QED
    BY <2>2, <2>3, Zenon
<1>4. CASE PrevComplete(r)
  <2>1. chan[p] # <<>> /\ task[r].at = "prev"
    BY <1>4, Zenon DEF PrevComplete, At
  <2>2. GoodChannels(Read(p), last)
    BY <1>1, <2>1, ReadGood, Zenon DEF IInv
  <2>3. CASE Head(chan[p])
    <3>1. Goes(r, "backlog") /\ chan' = Read(p)
      BY <1>4, <2>3, Zenon DEF PrevComplete
    <3>2. GoodTask(r, [task[r] EXCEPT !.at = "backlog"], last)
      BY <1>1, <2>1, Zenon DEF GoodTask, TaskRecord
    <3>3. QED
      BY <1>4, <2>2, <3>1, <3>2, GoesStep, Zenon DEF PrevComplete, Places
  <2>4. CASE ~Head(chan[p])
    <3>1. Completes(Read(p), r, FALSE)
      BY <1>4, <2>4, Zenon DEF PrevComplete
    <3>2. QED
      BY <1>4, <2>2, <3>1, GivesUp, Zenon DEF PrevComplete
  <2>5. QED
    BY <2>3, <2>4, Zenon
<1>5. ASSUME NEW kind \in {"good", "forged"}, Authenticate(r, kind)
      PROVE  IInv'
  <2> DEFINE cs == IF task[r].back THEN chan ELSE Read(c)
  <2>1. task[r].at = kind /\ task[r].back \in BOOLEAN
    BY <1>1, <1>5, Zenon DEF Authenticate, At, TaskRecord
  <2>2. GoodChannels(cs, last) /\ task[r].tries < RetryLimit /\ r <= Goal
    BY <1>1, <1>2, <1>5, <2>1, Zenon DEF Authenticate, GoodTask
  <2>3. CASE ~task[r].back /\ ~Head(chan[c])
    <3>1. Completes(cs, r, FALSE)
      BY <1>5, <2>3, Zenon DEF Authenticate
    <3>2. QED
      BY <1>5, <2>2, <3>1, GivesUp, Zenon DEF Authenticate
  <2>4. CASE task[r].back \/ Head(chan[c])
    <3>1. last >= r - SeedLookback
      <4>1. CASE task[r].back
        BY <4>1, <1>1, Zenon DEF GoodTask
      <4>2. CASE ~task[r].back
        BY <4>2, <2>4, <1>2, <1>5, Zenon DEF Authenticate
      <4>3. QED
        BY <4>1, <4>2, Zenon
    <3>2. chan' = cs
      BY <1>5, <2>4, Zenon DEF Authenticate
    <3>3. CASE kind = "good"
      <4> DEFINE t == [task[r] EXCEPT !.at = "prev", !.back = TRUE]
      <4>1. task' = [task EXCEPT ![r].at = "prev", ![r].back = TRUE]
        BY <1>5, <2>4, <3>3, Zenon DEF Authenticate
      <4>2. task' = [task EXCEPT ![r] = t]
        BY <4>1, ZenonT(30) DEF IInv, TypeOK
      <4>3. t \in TaskRecord /\ t.at = "prev" /\ t.back = TRUE
        BY <1>1, Zenon DEF TaskRecord, Places
      <4>4. GoodTask(r, t, last)
        BY <2>2, <3>1, <4>3, Zenon DEF GoodTask
      <4> HIDE DEF t
      <4>5. QED
        BY <1>5, <2>2, <3>2, <4>2, <4>3, <4>4, MovesStep, Zenon DEF Authenticate
    <3>4. CASE kind = "forged"
      <4>1. task' = Again(r, TRUE)
        BY <1>5, <2>4, <3>4, Zenon DEF Authenticate
      <4>2. QED
        BY <1>5, <2>2, <3>1, <3>2, <4>1, AgainStep, Zenon DEF Authenticate
    <3>5. QED
      BY <3>3, <3>4, Zenon
  <2>5. QED
    BY <2>1, <2>3, <2>4, Zenon
<1>6. QED
  BY <1>3, <1>4, <1>5, Zenon

(* Evaluating and writing the block, and giving up.                        *)
LEMMA WriteSteps ==
    ASSUME IInv, NEW r \in Running, Evaluate(r) \/ Write(r) \/ Aborted(r)
    PROVE  IInv'
<1>1. /\ GoodChannels(chan, last) /\ task[r] \in TaskRecord /\ GoodTask(r, task[r], last)
      /\ last \in Nat /\ last <= Goal /\ r \in 1..(Goal + Requests)
  BY RunningRounds, Zenon DEF IInv, ChanOK
<1>2. CASE Evaluate(r)
  <2>1. CASE last = r - 1
    <3>1. Goes(r, "add") /\ GoodChannels(chan', last)
      BY <1>1, <1>2, <2>1, Zenon DEF Evaluate
    <3>2. GoodTask(r, [task[r] EXCEPT !.at = "add"], last)
      BY <1>1, <1>2, Zenon DEF Evaluate, At, GoodTask, TaskRecord
    <3>3. QED
      BY <1>2, <3>1, <3>2, GoesStep, Zenon DEF Evaluate, Places
  <2>2. CASE last # r - 1
    <3>1. Completes(chan, r, FALSE)
      BY <1>2, <2>2, Zenon DEF Evaluate
    <3>2. last' \in last..Goal /\ FALSE \in BOOLEAN
      BY <1>1, <1>2, ConstantFacts DEF Evaluate
    <3>3. QED
      BY <1>1, <1>2, <3>1, <3>2, CompletesStep, Zenon DEF Evaluate
  <2>3. QED
    BY <2>1, <2>2, Zenon
<1>3. CASE Write(r)
  <2> DEFINE ok == last = r - 1
  <2>1. Completes(chan, r, ok) /\ ok \in BOOLEAN
    BY <1>3, Zenon DEF Write
  <2>2. r <= Goal
    BY <1>1, <1>3, Zenon DEF Write, At, GoodTask
  <2>3. last' \in last..Goal /\ (ok => last' >= r)
    BY <1>1, <1>3, <2>2, ConstantFacts DEF Write, Larger
  <2> HIDE DEF ok
  <2>4. QED
    BY <1>1, <1>3, <2>1, <2>3, CompletesStep, Zenon DEF Write
<1>4. CASE Aborted(r)
  BY <1>1, <1>4, GivesUp, Zenon DEF Aborted
<1>5. QED
  BY <1>2, <1>3, <1>4, Zenon

(* A worker reports and leaves: one task less runs, one more result waits. *)
LEMMA ReportStep ==
    ASSUME IInv, NEW r \in Running, Report(r)
    PROVE  IInv'
<1> DEFINE v == IF task[r].at = "written" THEN r ELSE 0
<1>1. /\ task[r] \in TaskRecord /\ GoodTask(r, task[r], last)
      /\ last \in Nat /\ last <= Goal /\ r \in 1..(Goal + Requests)
      /\ pc \in {"fill", "rest", "drain"}
  BY RunningRounds, Zenon
<1>2. v \in 0..Goal /\ v <= last
  BY <1>1, ConstantFacts DEF GoodTask
<1>3. /\ completed \in Seq(0..Goal) /\ Len(completed) \in Nat /\ Len(completed) < Requests
      /\ completed' = Append(completed, v)
  BY DEF Report, IInv, TypeOK
<1>4. /\ completed' \in Seq(0..Goal) /\ Len(completed') = Len(completed) + 1
      /\ \A i \in 1..Len(completed) : completed'[i] = completed[i]
      /\ completed'[Len(completed) + 1] = v
  BY <1>2, <1>3, SeqAppend
<1>5. /\ Running' = Running \ {r} /\ task' \in [Running' -> TaskRecord]
      /\ \A q \in Running' : task'[q] = task[q]
  BY Zenon DEF Report, IInv, TypeOK, Running, TaskRecord
<1>6. Cardinality(Running') = Cardinality(Running) - 1 /\ Cardinality(Running) \in Nat
  BY <1>5, FiniteFacts, FS_RemoveElement, Zenon DEF IInv
<1>7. Outstanding' = Outstanding
  <2>1. Len(taskCh) \in Nat /\ taskCh' = taskCh
    BY DEF Report, IInv, TypeOK
  <2>2. Len(completed') = Len(completed) + 1 /\ Len(completed) \in Nat
    BY <1>3, <1>4, Zenon
  <2>3. QED
    BY <1>6, <2>1, <2>2 DEF Outstanding
<1>8. TypeOK'
  <2>1. Running' \subseteq 1..(Goal + Requests)
    BY <1>5, Zenon DEF IInv, TypeOK
  <2>2. Len(completed') <= Requests
    BY <1>3, <1>4, ConstantFacts
  <2>3. QED
    BY <1>4, <1>5, <2>1, <2>2
       DEF Report, IInv, TypeOK, TaskRecord, outside, lifeVars, syncVars, waitVars
<1>9. TaskOK'
  BY <1>5, Zenon DEF IInv, TaskOK, Report
<1>10. ChanOK'
  BY Zenon DEF IInv, ChanOK, Report
<1>11. ResultOK'
  <2>1. \A i \in 1..Len(completed') : completed'[i] <= last
    BY <1>2, <1>3, <1>4 DEF IInv, ResultOK
  <2>2. QED
    BY <2>1, Zenon DEF IInv, ResultOK, Report, outside
<1>12. SyncOK'
  BY Zenon DEF IInv, SyncOK, Report, outside, syncVars
<1>13. CountOK'
  BY <1>1, <1>7, Zenon DEF IInv, CountOK, Report, outside
<1>14. QED
  BY <1>8, <1>9, <1>10, <1>11, <1>12, <1>13, Zenon DEF IInv

(* A worker takes a task: at most one more runs, one less waits.           *)
LEMMA TakeStep ==
    ASSUME IInv, Take
    PROVE  IInv'
<1> DEFINE h == Head(taskCh)
           fresh == [at |-> "fetch", tries |-> 0, back |-> FALSE]
<1>1. taskCh \in Seq(1..(Goal + Requests)) /\ taskCh # <<>> /\ Len(taskCh) \in Nat
  BY DEF Take, IInv, TypeOK
<1>2. /\ h \in 1..(Goal + Requests) /\ taskCh' \in Seq(1..(Goal + Requests))
      /\ Len(taskCh') = Len(taskCh) - 1
  BY <1>1, SeqTail, Zenon DEF Take
<1>3. fresh \in TaskRecord /\ GoodTask(h, fresh, last)
  BY ConstantFacts DEF TaskRecord, Places, GoodTask
<1>4. /\ Running' = Running \cup {h}
      /\ \A q \in Running' : task'[q] = IF q \in Running THEN task[q] ELSE fresh
      /\ task' \in [Running' -> TaskRecord]
  <2>1. task' = [q \in Running \cup {h} |-> IF q \in Running THEN task[q] ELSE fresh]
    BY Zenon DEF Take
  <2>2. task \in [Running -> TaskRecord]
    BY Zenon DEF IInv, TypeOK, TaskRecord
  <2> HIDE DEF h, fresh
  <2>3. Running' = Running \cup {h}
    BY <2>1, Zenon DEF Running
  <2>4. QED
    BY <1>3, <2>1, <2>2, <2>3, Zenon
<1>5. /\ Cardinality(Running') \in Nat /\ Cardinality(Running) \in Nat
      /\ Cardinality(Running') <= Cardinality(Running) + 1
  <2>1. IsFiniteSet(Running) /\ Cardinality(Running) \in Nat
    BY FiniteFacts, Zenon DEF IInv
  <2>2. Cardinality(Running \cup {h}) = IF h \in Running THEN Cardinality(Running)
                                        ELSE Cardinality(Running) + 1
    BY <2>1, FS_AddElement, Zenon
  <2>3. QED
    BY <1>4, <2>1, <2>2
<1>6. pc \in {"fill", "rest", "drain"}
  BY <1>1, Zenon DEF IInv, CountOK, TypeOK
<1>7. Outstanding' <= Outstanding /\ Outstanding' \in Int /\ Outstanding \in Int
  <2>1. Len(completed) \in Nat /\ completed' = completed
    BY DEF Take, IInv, TypeOK
  <2>2. QED
    BY <1>1, <1>2, <1>5, <2>1 DEF Outstanding
<1>8. TypeOK'
  <2>1. Running' \subseteq 1..(Goal + Requests)
    BY <1>2, <1>4, Zenon DEF IInv, TypeOK
  <2>2. Len(taskCh') <= Requests
    BY <1>1, <1>2, ConstantFacts DEF IInv, TypeOK
  <2>3. QED
    BY <1>2, <1>4, <2>1, <2>2
       DEF Take, IInv, TypeOK, TaskRecord, outside, lifeVars, syncVars, waitVars
<1>9. TaskOK'
  <2>1. ASSUME NEW q \in Running' PROVE GoodTask(q, task'[q], last)
    BY <1>3, <1>4, Zenon DEF IInv, TaskOK
  <2>2. QED
    BY <2>1, Zenon DEF TaskOK, Take
<1>10. ChanOK' /\ ResultOK' /\ SyncOK'
  BY Zenon DEF IInv, ChanOK, ResultOK, SyncOK, Take, outside, syncVars
<1>11. CountOK'
  <2>1. Outstanding' <= Requests
    BY <1>7, ConstantFacts DEF IInv, CountOK
  <2>2. Cardinality(seen) \in Nat /\ next \in Int /\ from \in Int
    BY FiniteFacts, ConstantFacts DEF IInv, TypeOK
  <2>3. UNCHANGED <<pc, from, next, seen, completed>>
    BY Zenon DEF Take, outside
  <2>4. QED
    BY <1>6, <1>7, <2>1, <2>2, <2>3, ConstantFacts DEF IInv, CountOK
<1>12. QED
  BY <1>8, <1>9, <1>10, <1>11, Zenon DEF IInv

-----------------------------------------------------------------------------
(* The main goroutine of pipelinedFetch.                                   *)

(* One more task waits.                                                    *)
LEMMA SpawnFacts ==
    ASSUME IInv, Spawn, next \in 1..(Goal + Requests), UNCHANGED <<task, completed>>
    PROVE  /\ taskCh' \in Seq(1..(Goal + Requests)) /\ Len(taskCh') <= Requests
           /\ next' \in 0..(Goal + 1 + Requests) /\ next' = next + 1
           /\ Outstanding' = Outstanding + 1
<1>1. taskCh \in Seq(1..(Goal + Requests)) /\ Len(taskCh) \in Nat /\ Len(completed) \in Nat
  BY DEF IInv, TypeOK
<1>2. taskCh' \in Seq(1..(Goal + Requests)) /\ Len(taskCh') = Len(taskCh) + 1
  BY <1>1, SeqAppend, Zenon DEF Spawn
<1>3. Len(taskCh') <= Requests /\ next' \in 0..(Goal + 1 + Requests) /\ next' = next + 1
  BY <1>1, <1>2, ConstantFacts DEF Spawn
<1>4. Running' = Running /\ Cardinality(Running) \in Nat
  BY FiniteFacts, Zenon DEF Running, IInv
<1>5. Outstanding' = Outstanding + 1
  BY <1>1, <1>2, <1>4 DEF Outstanding
<1>6. QED
  BY <1>2, <1>3, <1>5, Zenon

\* The counts of tasks and rounds are natural numbers.
LEMMA OutstandingInt ==
    ASSUME IInv
    PROVE  Outstanding \in Nat /\ Cardinality(seen) \in Nat
<1>1. Len(taskCh) \in Nat /\ Len(completed) \in Nat
  BY DEF IInv, TypeOK
<1>2. Cardinality(Running) \in Nat /\ Cardinality(seen) \in Nat
  BY FiniteFacts, Zenon DEF IInv
<1>3. QED
  BY <1>1, <1>2 DEF Outstanding

\* The first loop of pipelinedFetch makes fewer than Requests tasks before
\* the last one.
LEMMA FillStep ==
    ASSUME IInv, Fill
    PROVE  IInv'
<1>1. /\ 1 <= from /\ from <= next /\ next < from + Requests /\ seen = {}
      /\ Outstanding <= next - from /\ Outstanding <= Requests
      /\ from \in 0..(Goal + 1) /\ next \in 0..(Goal + 1 + Requests) /\ pc = "fill"
  BY Zenon DEF IInv, CountOK, Fill, TypeOK
<1>2. Outstanding \in Nat /\ Cardinality(seen) = 0
  BY <1>1, OutstandingInt, FS_EmptySet, Zenon
<1>3. UNCHANGED <<last, flushed, writing, stopping, starts, notified, syncing, suspended,
                  current, short, from, seen, task, chan, completed>>
  BY Zenon DEF Fill, ledgerVars, syncVars, waitVars
<1>4. Running' = Running
  BY <1>3, Zenon DEF Running
<1>5. TaskOK' /\ ChanOK' /\ ResultOK'
  BY <1>3, <1>4, Zenon DEF IInv, TaskOK, ChanOK, ResultOK
<1>6. CASE nextRoundIsNotSupported(next)
  <2>1. cancelled' \in BOOLEAN /\ pc' = "rest" /\ taskCh' = taskCh /\ next' = next
    BY <1>6, Zenon DEF Fill, Unsupported, IInv, TypeOK
  <2>2. TypeOK' /\ SyncOK'
    BY <1>1, <1>3, <1>4, <2>1, Zenon DEF IInv, TypeOK, SyncOK
  <2>3. Outstanding' = Outstanding
    BY <1>3, <1>4, <2>1, Zenon DEF Outstanding
  <2>4. CountOK'
    BY <1>1, <1>2, <1>3, <2>1, <2>3, ConstantFacts DEF CountOK
  <2>5. QED
    BY <1>5, <2>2, <2>4, Zenon DEF IInv
<1>7. CASE ~nextRoundIsNotSupported(next)
  <2>1. /\ Spawn /\ cancelled' = cancelled
        /\ pc' = IF next' = from + Requests THEN "rest" ELSE "fill"
    BY <1>7, Zenon DEF Fill
  <2>2. next \in 1..(Goal + Requests)
    BY <1>1, ConstantFacts
  <2>3. /\ taskCh' \in Seq(1..(Goal + Requests)) /\ Len(taskCh') <= Requests
        /\ next' \in 0..(Goal + 1 + Requests) /\ next' = next + 1
        /\ Outstanding' = Outstanding + 1
    BY <1>3, <2>1, <2>2, SpawnFacts, Zenon
  <2>4. TypeOK' /\ SyncOK'
    BY <1>1, <1>3, <1>4, <2>1, <2>3, Zenon DEF IInv, TypeOK, SyncOK
  <2>5. CountOK'
    BY <1>1, <1>2, <1>3, <2>1, <2>3, ConstantFacts DEF CountOK
  <2>6. QED
    BY <1>5, <2>4, <2>5 DEF IInv
<1>8. QED
  BY <1>6, <1>7, Zenon

(* The step that could overfill the channels: the second loop has seen     *)
(* every round up to next - Requests, so one of the Requests tasks that    *)
(* may be outstanding is not.                                              *)
LEMMA ExtendStep ==
    ASSUME IInv, Extend
    PROVE  IInv'
<1>1. /\ from..(next - Requests - 1) \subseteq seen /\ next - Requests \in seen
      /\ Outstanding + Cardinality(seen) <= next - from /\ Outstanding <= Requests
      /\ from \in 0..(Goal + 1) /\ next \in 0..(Goal + 1 + Requests)
      /\ seen \subseteq 1..Goal /\ pc = "rest"
  BY Zenon DEF IInv, CountOK, Extend, TypeOK
<1>2. Outstanding \in Nat /\ Cardinality(seen) \in Nat /\ IsFiniteSet(seen)
  BY OutstandingInt, FiniteFacts, Zenon DEF IInv
<1>3. UNCHANGED <<last, flushed, writing, stopping, starts, notified, syncing, suspended,
                  current, short, from, seen, task, chan, completed>>
  BY Zenon DEF Extend, ledgerVars, syncVars, waitVars
<1>4. Running' = Running
  BY <1>3 DEF Running
<1>5. TaskOK' /\ ChanOK' /\ ResultOK'
  BY <1>3, <1>4 DEF IInv, TaskOK, ChanOK, ResultOK
<1>6. CASE nextRoundIsNotSupported(next)
  <2>1. cancelled' \in BOOLEAN /\ pc' = "drain" /\ taskCh' = taskCh /\ next' = next
    BY <1>6, Zenon DEF Extend, Unsupported, IInv, TypeOK
  <2>2. TypeOK' /\ SyncOK'
    BY <1>1, <1>3, <1>4, <2>1, Zenon DEF IInv, TypeOK, SyncOK
  <2>3. Outstanding' = Outstanding
    BY <1>3, <1>4, <2>1, Zenon DEF Outstanding
  <2>4. CountOK'
    BY <1>1, <1>2, <1>3, <2>1, <2>3, ConstantFacts, Zenon DEF CountOK
  <2>5. QED
    BY <1>5, <2>2, <2>4 DEF IInv
<1>7. CASE ~nextRoundIsNotSupported(next)
  <2>1. Spawn /\ cancelled' = cancelled /\ pc' = pc
    BY <1>7, Zenon DEF Extend
  <2>2. next \in 1..(Goal + Requests)
    BY <1>1, ConstantFacts
  <2>3. /\ taskCh' \in Seq(1..(Goal + Requests)) /\ Len(taskCh') <= Requests
        /\ next' \in 0..(Goal + 1 + Requests) /\ next' = next + 1
        /\ Outstanding' = Outstanding + 1
    BY <1>3, <2>1, <2>2, SpawnFacts, Zenon
  <2>4. TypeOK' /\ SyncOK'
    BY <1>1, <1>3, <1>4, <2>1, <2>3 DEF IInv, TypeOK, SyncOK
  <2>5. from..(next - Requests) \subseteq seen
    BY <1>1, ConstantFacts
  <2>6. Outstanding + 1 <= Requests
    <3>1. CASE next - Requests < from
      BY <3>1, <1>1, <1>2, ConstantFacts
    <3>2. CASE next - Requests >= from
      <4>1. Cardinality(from..(next - Requests)) = next - Requests - from + 1
        BY <3>2, <1>1, ConstantFacts, FS_Interval
      <4>2. Cardinality(from..(next - Requests)) <= Cardinality(seen)
        BY <1>2, <2>5, FS_Subset, Zenon
      <4>3. QED
        BY <4>1, <4>2, <1>1, <1>2, ConstantFacts
    <3>3. QED
      BY <3>1, <3>2, <1>1, ConstantFacts
  <2>7. CountOK'
    BY <1>1, <1>2, <1>3, <2>1, <2>3, <2>5, <2>6, ConstantFacts DEF CountOK
  <2>8. QED
    BY <1>5, <2>4, <2>7 DEF IInv
<1>8. QED
  BY <1>6, <1>7

\* The second loop receives a result: one task less is outstanding, at most
\* one round more has been seen.
LEMMA ReceiveStep ==
    ASSUME IInv, Receive
    PROVE  IInv'
<1> DEFINE r == Head(completed)
<1>1. completed \in Seq(0..Goal) /\ completed # <<>> /\ Len(completed) \in Nat
  BY DEF Receive, IInv, TypeOK
<1>2. /\ r \in 0..Goal /\ completed' \in Seq(0..Goal)
      /\ Len(completed') = Len(completed) - 1
      /\ \A i \in 1..Len(completed') : completed'[i] = completed[i + 1]
  BY <1>1, SeqTail, Zenon DEF Receive
<1>3. r = completed[1]
  BY <1>1
<1>4. Len(completed) > 0
  BY <1>1, SeqEmpty
<1>5. r <= last
  <2>1. 1 \in 1..Len(completed)
    BY <1>1, <1>4
  <2>2. QED
    BY <1>3, <2>1, Zenon DEF IInv, ResultOK
<1>6. UNCHANGED <<last, flushed, writing, cancelled, stopping, starts, notified, syncing,
                  current, short, from, next, taskCh, task, chan>>
  BY Zenon DEF Receive, ledgerVars, lifeVars, waitVars
<1>7. /\ pc = "rest" /\ seen \subseteq 1..Goal /\ from \in 0..(Goal + 1)
      /\ next \in 0..(Goal + 1 + Requests) /\ last \in 0..Goal /\ syncing
      /\ suspended \in BOOLEAN /\ Len(completed) <= Requests
  BY Zenon DEF Receive, IInv, TypeOK, SyncOK
<1>8. \/ pc' = "drain" /\ seen' = seen /\ suspended' \in BOOLEAN
      \/ pc' = "rest" /\ seen' = seen \cup {r} /\ r > 0 /\ suspended' = suspended
  BY <1>7, Zenon DEF Receive
<1> HIDE DEF r
<1>9. seen' \subseteq 1..Goal
  <2>1. r > 0 => r \in 1..Goal
    BY <1>2, ConstantFacts
  <2>2. QED
    BY <1>7, <1>8, <2>1, Zenon
<1>10. Running' = Running
  BY <1>6, Zenon DEF Running
<1>11. Len(completed') <= Requests
  BY <1>1, <1>2, <1>7, ConstantFacts
<1>12. pc' \in {"rest", "drain"} /\ suspended' \in BOOLEAN
  BY <1>7, <1>8, ZenonT(30)
<1>13. TypeOK'
  BY <1>2, <1>6, <1>9, <1>10, <1>11, <1>12 DEF IInv, TypeOK
<1>14. TaskOK' /\ ChanOK'
  BY <1>6, <1>10, Zenon DEF IInv, TaskOK, ChanOK
<1>15. ResultOK'
  <2>1. \A i \in 1..Len(completed') : completed'[i] <= last
    BY <1>1, <1>2 DEF IInv, ResultOK
  <2>2. \A q \in seen' : q <= last
    BY <1>5, <1>8, Zenon DEF IInv, ResultOK
  <2>3. QED
    BY <2>1, <2>2, <1>6, Zenon DEF ResultOK
<1>16. SyncOK'
  BY <1>6, <1>7, Zenon DEF SyncOK
<1>17. Outstanding' = Outstanding - 1 /\ Outstanding \in Nat
  <2>1. Cardinality(Running) \in Nat /\ Len(taskCh) \in Nat
    BY FiniteFacts DEF IInv, TypeOK
  <2>2. QED
    BY <2>1, <1>1, <1>2, <1>6, <1>10 DEF Outstanding
<1>18. CountOK'
  <2>1. /\ from..(next - Requests - 1) \subseteq seen
        /\ Outstanding + Cardinality(seen) <= next - from /\ Outstanding <= Requests
    BY <1>7, Zenon DEF IInv, CountOK
  <2>2. IsFiniteSet(seen) /\ Cardinality(seen) \in Nat
    BY FiniteFacts, Zenon DEF IInv
  <2>3. CASE pc' = "drain"
    BY <2>1, <2>3, <1>17, ConstantFacts DEF CountOK
  <2>4. CASE pc' = "rest"
    <3>1. seen' = seen \cup {r}
      BY <1>8, <2>4, Zenon
    <3>2. Cardinality(seen \cup {r}) = IF r \in seen THEN Cardinality(seen)
                                       ELSE Cardinality(seen) + 1
      BY <2>2, FS_AddElement, Zenon
    <3>3. Cardinality(seen') \in Nat /\ Cardinality(seen') <= Cardinality(seen) + 1
      BY <2>2, <3>1, <3>2
    <3>4. Outstanding' + Cardinality(seen') <= next - from /\ Outstanding' <= Requests
      BY <1>7, <1>17, <2>1, <2>2, <3>3, ConstantFacts
    <3>5. QED
      BY <1>6, <2>1, <2>4, <3>1, <3>4, Zenon DEF CountOK
  <2>5. QED
    BY <1>12, <2>3, <2>4, Zenon
<1>19. QED
  BY <1>13, <1>14, <1>15, <1>16, <1>18, Zenon DEF IInv

(* A step that touches neither the pipeline nor, except by a move between  *)
(* places with the same obligations, periodicSync.                         *)
LEMMA OuterStep ==
    ASSUME IInv, TypeOK', UNCHANGED <<pipeVars, syncVars>>, last <= last',
           \/ pc' = pc
           \/ /\ pc \in {"off", "idle", "cert", "connect"}
              /\ pc' \in {"off", "idle", "cert", "connect"}
           \/ pc' = "drain" /\ pc \in {"fill", "rest"}
    PROVE  IInv'
<1>1. last \in Int /\ last' \in Int
  BY ConstantFacts DEF IInv, TypeOK
<1>2. /\ UNCHANGED <<from, next, seen, taskCh, task, chan, completed, syncing, suspended>>
      /\ Running' = Running /\ Outstanding' = Outstanding
  BY Zenon DEF pipeVars, syncVars, Running, Outstanding
<1>3. TaskOK'
  <2>1. ASSUME NEW q \in Running PROVE GoodTask(q, task[q], last')
    <3>1. q \in Int /\ task[q] \in TaskRecord /\ GoodTask(q, task[q], last)
      BY RunningRounds, ConstantFacts
    <3>2. QED
      BY <1>1, <3>1, TaskGrows, Zenon
  <2>2. QED
    BY <1>2, <2>1, Zenon DEF TaskOK
<1>4. ChanOK'
  BY <1>1, <1>2, ChannelsGrow, Zenon DEF IInv, ChanOK
<1>5. ResultOK'
  <2>1. completed \in Seq(0..Goal) /\ seen \subseteq 1..Goal
    BY Zenon DEF IInv, TypeOK
  <2>2. \A i \in 1..Len(completed) : completed[i] \in 0..Goal
    BY <2>1, SeqElement, Zenon
  <2>3. QED
    BY <2>1, <2>2, <1>1, <1>2, ConstantFacts DEF IInv, ResultOK
<1>6. SyncOK' /\ CountOK'
  BY <1>2, Zenon DEF IInv, SyncOK, CountOK
<1>7. QED
  BY <1>3, <1>4, <1>5, <1>6, Zenon DEF IInv

\* The ledger's other users and periodicSync outside of sync.
LEMMA OuterSteps ==
    ASSUME IInv,
           \/ AgreementAdds \/ Flush \/ FileWritten \/ Stop \/ StopReturn \/ Leave
           \/ LedgerMoved \/ TimerAgain \/ TakeCertificate \/ CertFetched
           \/ CertDropped \/ CertNobody \/ CertAgain \/ NoPeers \/ Abandon
    PROVE  IInv'
<1> DEFINE Alike == \/ pc' = pc
                    \/ /\ pc \in {"off", "idle", "cert", "connect"}
                       /\ pc' \in {"off", "idle", "cert", "connect"}
                    \/ pc' = "drain" /\ pc \in {"fill", "rest"}
<1>1. TypeOK /\ last \in 0..Goal /\ flushed \in 0..last /\ current \in 0..Tip
  BY Zenon DEF IInv, TypeOK
<1>2. CASE AgreementAdds
  <2>1. last' \in 0..Goal /\ flushed' \in 0..last' /\ last <= last'
    BY <1>1, <1>2, ConstantFacts DEF AgreementAdds
  <2>2. TypeOK' /\ Alike
    BY <1>1, <1>2, <2>1 DEF AgreementAdds, TypeOK, Running, lifeVars, syncVars, waitVars, pipeVars
  <2>3. QED
    BY <1>2, <2>1, <2>2, OuterStep, Zenon DEF AgreementAdds
<1>3. CASE Flush
  <2>1. flushed' \in 0..last' /\ last' = last /\ last <= last' /\ writing' \in BOOLEAN
    BY <1>1, <1>3, ConstantFacts DEF Flush
  <2>2. TypeOK' /\ Alike
    BY <1>1, <1>3, <2>1 DEF Flush, TypeOK, Running, lifeVars, syncVars, waitVars, pipeVars
  <2>3. QED
    BY <1>3, <2>1, <2>2, OuterStep, Zenon DEF Flush
<1>4. CASE \/ FileWritten \/ Stop \/ StopReturn \/ Leave \/ NoPeers \/ Abandon
           \/ CertNobody \/ CertAgain
  <2>1. last' = last /\ last <= last' /\ UNCHANGED <<pipeVars, syncVars>>
    BY <1>1, <1>4, ConstantFacts
       DEF FileWritten, Stop, StopReturn, Leave, NoPeers, Abandon, CertNobody,
           CertAgain, ledgerVars
  <2>2. TypeOK'
    <3>1. CASE FileWritten
      BY <1>1, <2>1, <3>1, ZenonT(30) DEF FileWritten, TypeOK, Running, lifeVars, waitVars, syncVars, pipeVars
    <3>2. CASE Stop \/ StopReturn
      BY <1>1, <2>1, <3>2, ZenonT(30)
         DEF Stop, StopReturn, TypeOK, Running, ledgerVars, waitVars, syncVars, pipeVars
    <3>3. CASE Leave
      <4>1. current' \in 0..Tip
        BY <3>3, ConstantFacts DEF Leave
      <4>2. QED
        BY <1>1, <2>1, <3>3, <4>1, ZenonT(30) DEF Leave, TypeOK, Running, ledgerVars, lifeVars, syncVars, pipeVars
    <3>4. CASE NoPeers \/ Abandon \/ CertNobody \/ CertAgain
      BY <1>1, <2>1, <3>4
         DEF NoPeers, Abandon, CertNobody, CertAgain, TypeOK, Running, ledgerVars, lifeVars, waitVars, syncVars, pipeVars
    <3>5. QED
      BY <1>4, <3>1, <3>2, <3>3, <3>4, Zenon
  <2>3. Alike
    BY <1>4, Zenon DEF FileWritten, Stop, StopReturn, Leave, NoPeers, Abandon,
         CertNobody, CertAgain
  <2>4. QED
    BY <2>1, <2>2, <2>3, OuterStep, ZenonT(30)
<1>5. CASE LedgerMoved \/ TimerAgain \/ CertDropped
  <2>1. /\ last' = last /\ last <= last' /\ UNCHANGED <<pipeVars, syncVars>>
        /\ current' \in 0..Tip
    BY <1>1, <1>5, ConstantFacts DEF LedgerMoved, TimerAgain, CertDropped, ledgerVars
  <2>2. TypeOK' /\ Alike
    BY <1>1, <1>5, <2>1, ZenonT(30)
       DEF LedgerMoved, TimerAgain, CertDropped, TypeOK, Running,
           ledgerVars, lifeVars, syncVars, waitVars, pipeVars
  <2>3. QED
    BY <2>1, <2>2, OuterStep, Zenon
<1>6. CASE TakeCertificate
  <2>1. /\ last' = last /\ last <= last' /\ UNCHANGED <<pipeVars, syncVars>>
        /\ pc' \in {"idle", "cert"} /\ pc = "idle" /\ last < Tip
    BY <1>1, <1>6, ConstantFacts DEF TakeCertificate, ledgerVars
  <2>2. current' = last \/ current' = last + 1
    BY <1>6, Zenon DEF TakeCertificate
  <2>3. current' \in 0..Tip
    BY <1>1, <2>1, <2>2, ConstantFacts
  <2>4. cancelled' \in BOOLEAN
    BY <1>1, <1>6, ZenonT(30) DEF TakeCertificate, Unsupported, TypeOK
  <2>5. TypeOK' /\ Alike
    BY <1>1, <1>6, <2>1, <2>3, <2>4
       DEF TakeCertificate, TypeOK, Running, ledgerVars, syncVars, pipeVars
  <2>6. QED
    BY <2>1, <2>5, OuterStep, Zenon
<1>7. CASE CertFetched
  <2>1. /\ last' \in 0..Goal /\ flushed' \in 0..last' /\ last <= last' /\ current' \in 0..Tip
        /\ UNCHANGED <<pipeVars, syncVars>>
    BY <1>1, <1>7, ConstantFacts DEF CertFetched, Larger
  <2>2. TypeOK' /\ Alike
    BY <1>1, <1>7, <2>1 DEF CertFetched, TypeOK, Running, lifeVars, syncVars, pipeVars
  <2>3. QED
    BY <2>1, <2>2, OuterStep, Zenon
<1>8. QED
  BY <1>2, <1>3, <1>4, <1>5, <1>6, <1>7, Zenon

-----------------------------------------------------------------------------
(* A pipeline begins and ends.                                             *)

(* The channels a pipeline starts with report success of rounds before its *)
(* first.                                                                  *)
LEMMA SyncStep ==
    ASSUME IInv, Sync, pc \in {"off", "idle"},
           UNCHANGED <<last, flushed, writing, stopping, notified>>,
           starts' \in 0..MaxStarts, cancelled' \in BOOLEAN, suspended' \in BOOLEAN,
           current' \in 0..Tip, short' \in BOOLEAN
    PROVE  IInv'
<1>1. /\ last \in 0..Goal /\ taskCh = <<>> /\ Running = {} /\ completed = <<>> /\ seen = {}
      /\ UNCHANGED <<seen, taskCh, task, completed>> /\ Running' = Running
  BY Zenon DEF IInv, TypeOK, CountOK, Sync, Running
<1>2. GoodChannels(chan', last)
  <2> DEFINE vs(c) == IF c \in (last + 1 - SeedLookback)..last
                      THEN <<TRUE, TRUE>> ELSE <<>>
  <2>1. chan' = [c \in Rounds |-> vs(c)]
    BY <1>1, ConstantFacts DEF Sync, FreshChannels
  <2>2. \A c \in Rounds : /\ vs(c) \in Seq(BOOLEAN) /\ Len(vs(c)) <= 2
                          /\ \A i \in 1..Len(vs(c)) : c <= last
    <3>1. /\ <<TRUE, TRUE>> \in Seq(BOOLEAN) /\ Len(<<TRUE, TRUE>>) = 2
          /\ <<>> \in Seq(BOOLEAN) /\ Len(<<>>) = 0
      OBVIOUS
    <3>2. ASSUME NEW c \in Rounds, c \in (last + 1 - SeedLookback)..last
          PROVE  c <= last
      BY <1>1, <3>2, ConstantFacts DEF Rounds
    <3>3. ASSUME NEW c \in Rounds
          PROVE  /\ vs(c) \in Seq(BOOLEAN) /\ Len(vs(c)) <= 2
                 /\ \A i \in 1..Len(vs(c)) : c <= last
      <4>1. CASE c \in (last + 1 - SeedLookback)..last
        <5>1. vs(c) = <<TRUE, TRUE>>
          BY <4>1, Zenon
        <5> HIDE DEF vs
        <5>2. QED
          BY <3>1, <3>2, <4>1, <5>1
      <4>2. CASE c \notin (last + 1 - SeedLookback)..last
        <5>1. vs(c) = <<>>
          BY <4>2, Zenon
        <5> HIDE DEF vs
        <5>2. QED
          BY <3>1, <5>1
      <4>3. QED
        BY <4>1, <4>2, Zenon
    <3> HIDE DEF vs
    <3>4. QED
      BY <3>3, Zenon
  <2> HIDE DEF vs
  <2>3. QED
    BY <1>1, <2>1, <2>2, ConstantFacts, Zenon DEF GoodChannels, Rounds
<1>3. from' = last + 1 /\ next' = last + 1 /\ syncing' = TRUE /\ pc' = "fill"
  BY Zenon DEF Sync
<1>4. from' \in 0..(Goal + 1) /\ next' \in 0..(Goal + 1 + Requests)
  BY <1>1, <1>3, ConstantFacts
<1>5. TypeOK'
  BY <1>1, <1>2, <1>3, <1>4, Zenon DEF IInv, TypeOK, GoodChannels
<1>6. TaskOK' /\ ChanOK' /\ ResultOK' /\ SyncOK'
  BY <1>1, <1>2, <1>3, Zenon DEF IInv, TaskOK, ChanOK, ResultOK, SyncOK
<1>7. Outstanding' = 0
  BY <1>1, FS_EmptySet DEF Outstanding
<1>8. CountOK'
  BY <1>1, <1>3, <1>7, ConstantFacts DEF CountOK
<1>9. QED
  BY <1>5, <1>6, <1>8, Zenon DEF IInv

\* Start and the timer begin a pipeline.
LEMMA StartStep ==
    ASSUME IInv, Start \/ TimerSync
    PROVE  IInv'
<1>1. CASE Start
  <2>1. starts' \in 0..MaxStarts
    BY <1>1, ConstantFacts DEF Start, IInv, TypeOK
  <2>2. cancelled' \in BOOLEAN
    BY <1>1, Zenon DEF Start
  <2>3. QED
    BY <1>1, <2>1, <2>2, SyncStep, Zenon DEF Start, IInv, TypeOK, ledgerVars, waitVars
<1>2. CASE TimerSync
  <2>1. current' \in 0..Tip
    BY <1>2, ConstantFacts DEF TimerSync
  <2>2. suspended' \in BOOLEAN
    BY <1>2, Zenon DEF TimerSync
  <2>3. QED
    BY <1>2, <2>1, <2>2, SyncStep, Zenon DEF TimerSync, IInv, TypeOK, ledgerVars, lifeVars
<1>3. QED
  BY <1>1, <1>2, Zenon

\* Empty channels report nothing.
LEMMA NoChannelsGood ==
    ASSUME NEW l
    PROVE  GoodChannels(NoChannels, l)
<1>1. <<>> \in Seq(BOOLEAN) /\ Len(<<>>) = 0
  OBVIOUS
<1>2. QED
  BY <1>1 DEF GoodChannels, NoChannels

\* The deferred function of pipelinedFetch leaves nothing behind.
LEMMA DrainedStep ==
    ASSUME IInv, Drained
    PROVE  IInv'
<1>1. /\ taskCh = <<>> /\ Running = {} /\ taskCh' = taskCh /\ task' = task
      /\ completed' = <<>> /\ seen' = {} /\ chan' = NoChannels /\ pc' = "idle"
      /\ from' = 0 /\ next' = 0 /\ current' = last /\ last' = last
      /\ Running' = Running /\ suspended' = suspended /\ syncing' = suspended
  BY Zenon DEF Drained, SyncEnd, Running, ledgerVars
<1>2. GoodChannels(chan', last')
  BY <1>1, NoChannelsGood, Zenon
<1>3. notified' \in BOOLEAN
  BY Zenon DEF Drained, SyncEnd, IInv, TypeOK
<1>4. current' \in 0..Tip /\ from' \in 0..(Goal + 1) /\ next' \in 0..(Goal + 1 + Requests)
  BY <1>1, ConstantFacts DEF IInv, TypeOK
<1>5. completed' \in Seq(0..Goal) /\ Len(completed') = 0 /\ Len(completed') <= Requests
  BY <1>1, ConstantFacts
<1>6. TypeOK'
  BY <1>1, <1>2, <1>3, <1>4, <1>5, ZenonT(30) DEF Drained, IInv, TypeOK, GoodChannels, ledgerVars
<1>7. TaskOK' /\ ChanOK' /\ ResultOK' /\ SyncOK'
  BY <1>1, <1>2, <1>5 DEF TaskOK, ChanOK, ResultOK, SyncOK
<1>8. Outstanding' = 0
  BY <1>1, FS_EmptySet DEF Outstanding
<1>9. CountOK'
  BY <1>1, <1>8, ConstantFacts DEF CountOK
<1>10. QED
  BY <1>6, <1>7, <1>9, Zenon DEF IInv

-----------------------------------------------------------------------------
\* A service that was never started has no pipeline.
LEMMA InitInv == Init => IInv
<1> SUFFICES ASSUME Init PROVE IInv
  BY Zenon
<1>1. /\ Running = {} /\ task \in [{} -> TaskRecord] /\ taskCh = <<>> /\ completed = <<>>
      /\ seen = {} /\ chan = NoChannels /\ pc = "off" /\ ~suspended
  BY Zenon DEF Init, Running, NoTask
<1>2. GoodChannels(chan, last)
  BY <1>1, NoChannelsGood, Zenon
<1>3. /\ last \in 0..Goal /\ flushed \in 0..last /\ current \in 0..Tip
      /\ starts \in 0..MaxStarts /\ from \in 0..(Goal + 1)
      /\ next \in 0..(Goal + 1 + Requests)
  BY ConstantFacts DEF Init
<1>4. /\ writing \in BOOLEAN /\ cancelled \in BOOLEAN /\ stopping \in BOOLEAN
      /\ syncing \in BOOLEAN /\ suspended \in BOOLEAN /\ notified \in BOOLEAN
      /\ short \in BOOLEAN
  BY Zenon DEF Init
<1>5. /\ taskCh \in Seq(1..(Goal + Requests)) /\ Len(taskCh) <= Requests
      /\ completed \in Seq(0..Goal) /\ Len(completed) <= Requests
  BY <1>1, ConstantFacts
<1>6. TypeOK
  BY <1>1, <1>2, <1>3, <1>4, <1>5, Zenon DEF TypeOK, GoodChannels, TaskRecord
<1>7. TaskOK /\ ChanOK /\ ResultOK /\ SyncOK
  BY <1>1, <1>2 DEF TaskOK, ChanOK, ResultOK, SyncOK
<1>8. Outstanding = 0
  BY <1>1, FS_EmptySet DEF Outstanding
<1>9. CountOK
  BY <1>1, <1>8, ConstantFacts DEF CountOK
<1>10. QED
  BY <1>6, <1>7, <1>9, Zenon DEF IInv

(* Every step of the service, its workers and the ledger preserves the     *)
(* invariant.                                                              *)
LEMMA NextInv == IInv /\ [Next]_vars => IInv'
<1> SUFFICES ASSUME IInv, [Next]_vars PROVE IInv'
  BY Zenon
<1>1. CASE UNCHANGED vars
  <2>1. /\ UNCHANGED <<pipeVars, syncVars>> /\ pc' = pc /\ last' = last
        /\ last \in 0..Goal
    BY <1>1, Zenon DEF vars, pipeVars, syncVars, IInv, TypeOK
  <2>2. last <= last'
    BY <2>1, ConstantFacts
  <2>3. TypeOK'
    BY <1>1 DEF IInv, TypeOK, Running, vars
  <2>4. QED
    BY <2>1, <2>2, <2>3, OuterStep, Zenon
<1>2. CASE \/ AgreementAdds \/ Flush \/ FileWritten \/ Stop \/ StopReturn \/ Leave
           \/ LedgerMoved \/ TimerAgain \/ TakeCertificate \/ CertFetched
           \/ CertDropped \/ CertNobody \/ CertAgain \/ NoPeers \/ Abandon
  BY <1>2, OuterSteps, Zenon
<1>3. CASE Start \/ TimerSync
  BY <1>3, StartStep, Zenon
<1>4. CASE Fill \/ Extend \/ Receive \/ Drained \/ Take
  BY <1>4, FillStep, ExtendStep, ReceiveStep, DrainedStep, TakeStep, Zenon
<1>5. ASSUME NEW r \in Running, Worker(r) \/ FetchNobody(r)
      PROVE  IInv'
  BY <1>5, FetchSteps, ChannelSteps, WriteSteps, ReportStep, Zenon DEF Worker
<1>6. QED
  BY <1>1, <1>2, <1>3, <1>4, <1>5, Zenon DEF Next, Periodic, fetchRound, Pipeline

(* The catchup service's state is well typed and no channel is overfull:   *)
(* pipelinedFetch and its workers keep the capacities of their channels.   *)
THEOREM CatchupTyped == Spec => []TypeOK
<1>1. IInv => TypeOK
  BY Zenon DEF IInv
<1>2. QED
  BY InitInv, NextInv, <1>1, PTL DEF Spec

(* fetchAndWrite authenticates a block and goes on only when the ledger    *)
(* has the block's lookback round.                                         *)
THEOREM LookbackAvailable == Spec => []LookbackInLedger
<1>1. IInv => LookbackInLedger
  <2> SUFFICES ASSUME IInv PROVE LookbackInLedger
    BY Zenon
  <2>1. last \in 0..Goal /\ seen \subseteq 1..Goal
    BY Zenon DEF IInv, TypeOK
  <2>2. \A r \in seen : last >= r
    BY <2>1, ConstantFacts, Zenon DEF IInv, ResultOK
  <2>3. QED
    BY <2>2, Zenon DEF IInv, TaskOK, GoodTask, LookbackInLedger
<1>2. QED
  BY InitInv, NextInv, <1>1, PTL DEF Spec

(* The invariant pipelinedFetch states: outstanding tasks never exceed     *)
(* parallelRequests, whatever the order in which the tasks complete.       *)
THEOREM PipelineNeverOverfull == Spec => []PipelineBounded
<1>1. IInv => PipelineBounded
  BY Zenon DEF IInv, CountOK, Outstanding, PipelineBounded
<1>2. QED
  BY InitInv, NextInv, <1>1, PTL DEF Spec

(* A sync that a catchpoint file cut short still counts as under way.      *)
THEOREM SuspensionKeepsTimer == Spec => []SuspendedStillSyncing
<1>1. IInv => SuspendedStillSyncing
  BY Zenon DEF IInv, SyncOK, SuspendedStillSyncing
<1>2. QED
  BY InitInv, NextInv, <1>1, PTL DEF Spec
=============================================================================
