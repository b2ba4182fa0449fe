---------------------------- MODULE LedgerProofs ----------------------------
(***************************************************************************)
(* For every set of accounts and blocks, and all lookbacks: the process    *)
(* can always load its state again, the accounts of the lookback stay in   *)
(* reach, and the ledger implements the log of BlockLog.                   *)
(***************************************************************************)
EXTENDS LedgerInv, TLAPS

\* Time enough for every leaf on a loaded machine.
USE SMTT(30), ZenonT(30)

-----------------------------------------------------------------------------
(* Operators.                                                              *)

\* What evaluating a block of the chain yields is an effect.
LEMMA EffectType ==
    ASSUME NEW r \in 1..MaxRound, NEW v \in Payees \cup {none}
    PROVE  Effect(r, v) \in Effects /\ Effect(r, v).round = r
<1>1. Agreed[r] \in SUBSET Addr
  BY PayeesAssumption, Zenon
<1>2. (IF v = none THEN sink ELSE v) \in Payees \cup {sink}
  BY Zenon
<1>3. QED
  BY <1>1, <1>2, Zenon DEF Effect, Effects

\* Max and Min pick a bound among what they are given.
LEMMA MaxFacts ==
    ASSUME NEW a \in Nat, NEW b \in Nat
    PROVE  Max({a, b}) = IF a <= b THEN b ELSE a
<1> DEFINE m == IF a <= b THEN b ELSE a
<1>1. m \in {a, b} /\ \A y \in {a, b} : m >= y
  OBVIOUS
<1>2. \A x \in {a, b} : (\A y \in {a, b} : x >= y) => x = m
  OBVIOUS
<1>3. QED
  BY <1>1, <1>2, Zenon DEF Max

\* So does Min.
LEMMA MinFacts ==
    ASSUME NEW a \in Nat, NEW b \in Nat, NEW c \in Nat
    PROVE  /\ Min({a, b, c}) \in {a, b, c}
           /\ Min({a, b, c}) <= b /\ Min({a, b, c}) <= c
<1>1. \E x \in {a, b, c} : \A y \in {a, b, c} : x <= y
  <2>1. CASE a <= b /\ a <= c
    BY <2>1
  <2>2. CASE b <= a /\ b <= c
    BY <2>2
  <2>3. CASE c <= a /\ c <= b
    BY <2>3
  <2>4. QED
    BY <2>1, <2>2, <2>3
<1>2. Min({a, b, c}) \in {a, b, c} /\ \A y \in {a, b, c} : Min({a, b, c}) <= y
  BY <1>1, Zenon DEF Min
<1>3. QED
  BY <1>2, Zenon

\* The round the trackers let go of is in the database, and the transaction
\* tail does not reach it.
LEMMA RetainedIsMin ==
    ASSUME Rounds
    PROVE  Retained(committed) \in Mins
<1> DEFINE accts == IF committed < MaxBalLookback THEN 0 ELSE dbRound
           tail == IF committed + 1 < MaxTxnLife THEN 0 ELSE committed + 1 - MaxTxnLife
           m == Min({committed, accts, tail})
<1>1. committed \in Nat /\ dbRound \in Nat /\ MaxTxnLife \in Nat \ {0} /\ MaxBalLookback \in Nat
  BY LookbackAssumption DEF Rounds
<1>2. accts \in Nat /\ accts <= dbRound
  BY <1>1
<1>3. tail \in Nat /\ (tail = 0 \/ tail + MaxTxnLife = committed + 1)
  BY <1>1
<1>4. m \in {committed, accts, tail} /\ m <= accts /\ m <= tail
  <2> HIDE DEF accts, tail
  <2> QED
    BY <1>1, <1>2, <1>3, MinFacts, Zenon
<1>5. m \in 0..dbRound /\ (m = 0 \/ m + MaxTxnLife <= committed + 1)
  <2> HIDE DEF accts, tail, m
  <2> QED
    BY <1>1, <1>2, <1>3, <1>4
<1>6. Retained(committed) = m
  BY Zenon DEF Retained
<1>7. QED
  <2> HIDE DEF m
  <2> QED
    BY <1>5, <1>6, Zenon DEF Mins

-----------------------------------------------------------------------------
(* The block queue.                                                        *)

\* Steps that leave the rounds and the two goroutines alone.
LEMMA QuietStep ==
    ASSUME IInv, AddOK', DownOK', WaitOK',
           UNCHANGED <<up, latest, committed, earliest, syncer, deltas, dbRound, db,
                       deferred, commit, notified>>
    PROVE  IInv'
<1>1. Rounds' /\ Recoverable' /\ LookbackKept'
  BY Zenon DEF IInv, Rounds, Recoverable, CanLoad, LookbackKept
<1>2. SyncOK' /\ CommitOK'
  BY Zenon DEF IInv, SyncOK, CommitOK, Mins, OldTasks
<1>3. QED
  BY <1>1, <1>2, Zenon DEF IInv

\* A service that evaluates a block is about to add the next one.
LEMMA EvalStep ==
    ASSUME IInv, NEW w \in Writers, Eval(w) \/ Validate(w)
    PROVE  IInv'
<1>1. /\ up /\ latest + 1 \in Offered[w]
      /\ UNCHANGED <<up, latest, committed, earliest, syncer, deltas, dbRound, db,
                     deferred, commit, notified, waits>>
  BY Zenon DEF Eval, Validate, acctVars, dbVars, waitVars
<1>2. PICK v \in Payees \cup {none} : adding' = [adding EXCEPT ![w] = Effect(latest + 1, v)]
  BY PayeesAssumption, Zenon DEF Eval, Validate
<1>3. latest + 1 \in 1..MaxRound
  BY <1>1, PayeesAssumption, Zenon
<1>4. AddOK'
  <2>1. Effect(latest + 1, v) \in Effects /\ Effect(latest + 1, v).round = latest + 1
    BY <1>3, EffectType, Zenon
  <2> DEFINE e == Effect(latest + 1, v)
  <2> HIDE DEF e
  <2>2. adding \in [Writers -> Effects \cup {none}]
    BY Zenon DEF IInv, AddOK
  <2>3. adding' \in [Writers -> Effects \cup {none}]
    BY <1>2, <2>1, <2>2, Zenon
  <2>4. latest \in Nat
    BY DEF IInv, Rounds
  <2>5. ASSUME NEW u \in Writers, adding'[u] # none PROVE adding'[u].round <= latest + 1
    BY <1>2, <2>1, <2>2, <2>4, <2>5 DEF IInv, AddOK
  <2>6. QED
    BY <1>1, <2>3, <2>5, Zenon DEF AddOK
<1>5. DownOK' /\ WaitOK'
  BY <1>1, Zenon DEF IInv, DownOK, WaitOK
<1>6. QED
  BY <1>1, <1>4, <1>5, QuietStep, Zenon

\* The block a service adds follows the last one, unless it is there already.
LEMMA AddStep ==
    ASSUME IInv, NEW w \in Writers, AddValidatedBlock(w)
    PROVE  /\ IInv'
           /\ latest' \in {latest, latest + 1} /\ latest' <= MaxRound
           /\ UNCHANGED <<committed, waits>>
<1> DEFINE e == adding[w]
<1>1. /\ up /\ e # none /\ adding' = [adding EXCEPT ![w] = none]
      /\ UNCHANGED <<up, committed, earliest, syncer, dbRound, db, deferred, commit,
                     notified, waits>>
      /\ \/ UNCHANGED <<latest, deltas>>
         \/ latest' = e.round /\ deltas' = Append(deltas, e) /\ ~(e.round <= latest)
  BY Zenon DEF AddValidatedBlock, InLedger, acctVars, dbVars, waitVars
<1>2. e \in Effects /\ e.round <= latest + 1 /\ e.round \in 1..MaxRound
  BY <1>1, Zenon DEF IInv, AddOK, Effects
<1> HIDE DEF e
<1>3. latest \in 0..MaxRound /\ committed \in 0..latest /\ deltas \in Seq(Effects)
  BY Zenon DEF IInv, Rounds
<1>4. latest' \in {latest, latest + 1} /\ latest' \in 0..MaxRound
  BY <1>1, <1>2, <1>3, LookbackAssumption
<1>5. /\ deltas' \in Seq(Effects)
      /\ Len(deltas') - Len(deltas) = latest' - latest
  <2>1. CASE UNCHANGED <<latest, deltas>>
    BY <1>3, <2>1
  <2>2. CASE latest' = e.round /\ deltas' = Append(deltas, e) /\ ~(e.round <= latest)
    BY <1>2, <1>3, <2>2
  <2>3. QED
    BY <1>1, <2>1, <2>2, Zenon
<1>6. Rounds'
  <2>1. up => dbRound + Len(deltas) = latest
    BY Zenon DEF IInv, Rounds
  <2>2. up => dbRound' + Len(deltas') = latest'
    BY <1>1, <1>3, <1>4, <1>5, <2>1 DEF IInv, Rounds
  <2>3. committed' \in 0..latest'
    BY <1>1, <1>3, <1>4
  <2>4. QED
    BY <1>1, <1>4, <1>5, <2>2, <2>3, Zenon DEF IInv, Rounds
<1>7. AddOK'
  <2>1. adding' \in [Writers -> Effects \cup {none}]
    BY <1>1, Zenon DEF IInv, AddOK
  <2>2. ASSUME NEW u \in Writers, adding'[u] # none PROVE adding'[u].round <= latest' + 1
    <3>1. adding[u] # none /\ adding'[u] = adding[u]
      BY <1>1, <2>2, Zenon DEF IInv, AddOK
    <3>2. adding[u].round <= latest + 1 /\ adding[u].round \in Nat
      BY <3>1, LookbackAssumption DEF IInv, AddOK, Effects
    <3>3. QED
      BY <1>3, <1>4, <3>1, <3>2
  <2>3. QED
    BY <2>1, <2>2, Zenon DEF AddOK
<1>8. SyncOK'
  <2>1. Mins' = Mins /\ OldTasks' = OldTasks
    BY <1>1, Zenon DEF Mins, OldTasks
  <2>2. \A n \in committed..latest : n \in committed'..latest'
    BY <1>1, <1>3, <1>4
  <2>3. QED
    BY <1>1, <2>1, <2>2, Zenon DEF IInv, SyncOK
<1>9. CommitOK' /\ DownOK' /\ WaitOK' /\ Recoverable' /\ LookbackKept'
  BY <1>1, Zenon DEF IInv, CommitOK, OldTasks, DownOK, WaitOK, Recoverable, CanLoad, LookbackKept
<1>10. QED
  BY <1>1, <1>4, <1>6, <1>7, <1>8, <1>9, LookbackAssumption DEF IInv

\* What committing more blocks leaves true of the stale values.
LEMMA LaterCommitted ==
    ASSUME IInv, committed' \in committed..MaxRound, dbRound' = dbRound
    PROVE  Mins \subseteq Mins' /\ OldTasks \subseteq OldTasks'
<1>1. committed \in Nat /\ MaxTxnLife \in Nat /\ MaxBalLookback \in Nat /\ MaxRound \in Nat
  BY LookbackAssumption DEF IInv, Rounds
<1>2. committed' \in Nat /\ committed <= committed'
  BY <1>1
<1>3. Mins \subseteq Mins'
  <2>1. \A m \in Nat : m + MaxTxnLife <= committed + 1 => m + MaxTxnLife <= committed' + 1
    <3>1. \A a, b, c, m \in Nat : a <= b /\ m + c <= a + 1 => m + c <= b + 1
      OBVIOUS
    <3>2. QED
      BY <1>1, <1>2, <3>1, Zenon
  <2>2. 0..dbRound \subseteq Nat
    BY DEF IInv, Rounds
  <2>3. QED
    BY <2>1, <2>2, Zenon DEF Mins
<1>4. ASSUME NEW t \in OldTasks PROVE t \in OldTasks'
  <2>1. /\ t \in [oldBase : 0..MaxRound, offset : 0..MaxRound]
        /\ t.oldBase + t.offset + MaxBalLookback <= committed
        /\ t.oldBase \in Nat /\ t.offset \in Nat
    BY <1>1 DEF OldTasks
  <2>2. t.oldBase + t.offset + MaxBalLookback <= committed'
    BY <1>1, <1>2, <2>1
  <2>3. QED
    BY <2>1, <2>2, Zenon DEF OldTasks
<1>5. QED
  BY <1>3, <1>4, Zenon

\* The syncer writes the blocks of the queue it has seen, and no others.
LEMMA SyncPutStep ==
    ASSUME IInv, SyncPut
    PROVE  IInv' /\ committed' \in committed..latest /\ UNCHANGED <<latest, waits>>
<1>1. /\ up /\ syncer.pc = "put" /\ committed' = syncer.upto
      /\ syncer' = [pc |-> "notify", upto |-> syncer.upto]
      /\ UNCHANGED <<up, latest, earliest, adding, deltas, dbRound, db, deferred, commit,
                     notified, waits>>
  BY Zenon DEF SyncPut, acctVars, dbVars, waitVars
<1>2. committed' \in committed..latest
  BY <1>1, Zenon DEF IInv, SyncOK
<1>3. /\ latest \in 0..MaxRound /\ committed \in 0..latest /\ notified \in 0..committed
      /\ earliest \in Nat /\ db.round \in Nat /\ dbRound \in Nat
      /\ MaxTxnLife \in Nat /\ MaxBalLookback \in Nat /\ MaxRound \in Nat
  BY LookbackAssumption, Zenon DEF IInv, Rounds
<1>4. Rounds'
  <2>1. committed' \in 0..latest /\ notified \in 0..committed'
    BY <1>2, <1>3
  <2>2. QED
    BY <1>1, <2>1, Zenon DEF IInv, Rounds
<1>5. Recoverable' /\ LookbackKept'
  BY <1>1, <1>2, <1>3 DEF IInv, Recoverable, CanLoad, LookbackKept
<1>6. AddOK' /\ DownOK' /\ WaitOK'
  BY <1>1, Zenon DEF IInv, AddOK, DownOK, WaitOK
<1>7. Mins \subseteq Mins' /\ OldTasks \subseteq OldTasks'
  BY <1>1, <1>2, <1>3, LaterCommitted
<1>8. SyncOK'
  BY <1>1, <1>7, Zenon DEF SyncOK
<1>9. CommitOK'
  <2>1. commit.pc \in {"write", "post"} => dbRound + Len(commit.es) + MaxBalLookback <= committed'
    <3>1. CASE commit.pc \in {"write", "post"}
      <4>1. Len(commit.es) \in Nat /\ dbRound + Len(commit.es) + MaxBalLookback <= committed
        BY <3>1 DEF IInv, CommitOK
      <4>2. QED
        BY <1>2, <1>3, <4>1
    <3>2. QED
      BY <3>1, Zenon
  <2>2. QED
    BY <1>1, <1>7, <2>1, Zenon DEF IInv, CommitOK
<1>10. QED
  BY <1>1, <1>2, <1>4, <1>5, <1>6, <1>8, <1>9, Zenon DEF IInv

\* Steps of the syncer that neither commit nor forget.
LEMMA SyncerStep ==
    ASSUME IInv, up, SyncOK', deferred' # <<>> => deferred'[1] \in OldTasks,
           UNCHANGED <<up, latest, committed, earliest, adding, deltas, dbRound, db, commit>>,
           notified' \in 0..committed, WaitOK'
    PROVE  IInv'
<1>1. Rounds' /\ Recoverable' /\ LookbackKept'
  BY Zenon DEF IInv, Rounds, Recoverable, CanLoad, LookbackKept
<1>2. AddOK' /\ DownOK'
  BY Zenon DEF IInv, AddOK, DownOK
<1>3. CommitOK'
  BY Zenon DEF IInv, CommitOK, OldTasks
<1>4. QED
  BY <1>1, <1>2, <1>3, Zenon DEF IInv

\* The syncer takes the queue, or gives up on a transaction that failed.
LEMMA SyncTakeStep ==
    ASSUME IInv, SyncTake \/ SyncFail
    PROVE  IInv'
<1>1. /\ up
      /\ UNCHANGED <<up, latest, committed, earliest, adding, deltas, dbRound, db, deferred,
                     commit, notified, waits>>
  BY Zenon DEF SyncTake, SyncFail, acctVars, dbVars, waitVars
<1>2. SyncOK'
  <2>1. latest \in committed..latest
    BY DEF IInv, Rounds
  <2>2. syncer' = Idle \/ syncer' = [pc |-> "put", upto |-> latest]
    BY Zenon DEF SyncTake, SyncFail
  <2>3. QED
    BY <1>1, <2>1, <2>2 DEF SyncOK, Idle
<1>3. WaitOK' /\ notified \in 0..committed /\ (deferred # <<>> => deferred[1] \in OldTasks)
  BY <1>1, Zenon DEF IInv, WaitOK, Rounds, CommitOK
<1>4. QED
  BY <1>1, <1>2, <1>3, SyncerStep, Zenon

\* The trackers are told of the round that was committed, and so are those who
\* wait for it.
LEMMA NotifyStep ==
    ASSUME IInv, Notify
    PROVE  /\ IInv' /\ UNCHANGED <<latest, committed>>
           /\ \A r \in Waits : /\ waits[r] = "told" => waits'[r] = "told"
                               /\ waits'[r] = "told" => waits[r] = "told" \/ r <= committed
<1>1. /\ up /\ syncer.pc = "notify" /\ notified' = syncer.upto
      /\ waits' = [r \in Waits |-> IF waits[r] = "waiting" /\ Wakes(syncer.upto, r)
                                   THEN "told" ELSE waits[r]]
      /\ syncer' = [pc |-> "produce", upto |-> syncer.upto,
                    min |-> Retained(syncer.upto), seen |-> dbRound]
      /\ UNCHANGED <<up, latest, committed, earliest, adding, deltas, dbRound, db, deferred,
                     commit>>
  BY Zenon DEF Notify, acctVars, dbVars
<1>2. syncer.upto = committed
  BY <1>1, Zenon DEF IInv, SyncOK
<1>3. SyncOK'
  <2>1. Retained(committed) \in Mins /\ Mins' = Mins
    BY <1>1, RetainedIsMin, Zenon DEF IInv, Mins
  <2>2. dbRound \in 0..dbRound
    BY DEF IInv, Rounds
  <2>3. QED
    BY <1>1, <1>2, <2>1, <2>2, Zenon DEF SyncOK
<1>4. /\ WaitOK'
      /\ \A r \in Waits : /\ waits[r] = "told" => waits'[r] = "told"
                          /\ waits'[r] = "told" => waits[r] = "told" \/ r <= committed
  BY <1>1, <1>2, Zenon DEF IInv, WaitOK, Wakes
<1>5. /\ notified' \in 0..committed
      /\ deferred' # <<>> => deferred'[1] \in OldTasks
  BY <1>1, <1>2 DEF IInv, Rounds, CommitOK
<1>6. QED
  BY <1>1, <1>3, <1>4, <1>5, SyncerStep, Zenon

\* A task reaches no further than the lookback allows, whatever was committed
\* since the round of the database was read.
LEMMA ProduceStep ==
    ASSUME IInv, Produce
    PROVE  IInv'
<1>1. /\ up /\ syncer.pc = "produce"
      /\ UNCHANGED <<up, latest, committed, earliest, adding, deltas, dbRound, db, deferred,
                     commit, notified, waits>>
      /\ \/ syncer' = Forgetting
         \/ /\ ~(syncer.upto <= syncer.seen + MaxBalLookback)
            /\ syncer' = [pc |-> "send", min |-> syncer.min, task |-> Task]
  BY Zenon DEF Produce, acctVars, dbVars, waitVars
<1>2. /\ syncer.upto = committed /\ syncer.min \in Mins /\ syncer.seen \in 0..dbRound
      /\ Mins' = Mins /\ OldTasks' = OldTasks
  BY <1>1, Zenon DEF IInv, SyncOK, Mins, OldTasks
<1>3. ASSUME ~(syncer.upto <= syncer.seen + MaxBalLookback) PROVE Task \in OldTasks
  <2> DEFINE s == syncer.seen
             n == committed - MaxBalLookback - s
  <2>1. s \in Nat /\ committed \in 0..MaxRound /\ MaxBalLookback \in Nat /\ MaxRound \in Nat
    BY <1>2, LookbackAssumption DEF IInv, Rounds
  <2>2. ~(committed <= s + MaxBalLookback)
    BY <1>2, <1>3, Zenon
  <2>3. Task = [oldBase |-> s, offset |-> n]
    BY <1>2, Zenon DEF Task
  <2> HIDE DEF s
  <2>4. /\ s \in 0..MaxRound /\ n \in 0..MaxRound
        /\ s + n + MaxBalLookback <= committed
    BY <2>1, <2>2
  <2> HIDE DEF n
  <2>5. QED
    BY <2>3, <2>4, Zenon DEF OldTasks
<1>4. SyncOK'
  BY <1>1, <1>2, <1>3 DEF SyncOK, Forgetting
<1>5. WaitOK' /\ notified \in 0..committed /\ (deferred # <<>> => deferred[1] \in OldTasks)
  BY <1>1, Zenon DEF IInv, WaitOK, Rounds, CommitOK
<1>6. QED
  BY <1>1, <1>4, <1>5, SyncerStep, Zenon

\* The task goes to the other goroutine.
LEMMA SendStep ==
    ASSUME IInv, Send
    PROVE  IInv'
<1>1. /\ up /\ syncer.pc = "send" /\ deferred' = <<syncer.task>> /\ syncer' = Forgetting
      /\ UNCHANGED <<up, latest, committed, earliest, adding, deltas, dbRound, db, commit,
                     notified, waits>>
  BY Zenon DEF Send, acctVars, waitVars
<1>2. syncer.task \in OldTasks /\ syncer.min \in Mins /\ Mins' = Mins
  BY <1>1, Zenon DEF IInv, SyncOK, Mins
<1>3. SyncOK'
  BY <1>1, <1>2, Zenon DEF SyncOK, Forgetting
<1>4. WaitOK' /\ notified \in 0..committed /\ deferred'[1] \in OldTasks
  BY <1>1, <1>2, Zenon DEF IInv, WaitOK, Rounds
<1>5. QED
  BY <1>1, <1>3, <1>4, SyncerStep, Zenon

\* Only blocks that are in the database, and behind the transaction tail, are
\* forgotten.
LEMMA ForgetStep ==
    ASSUME IInv, Forget
    PROVE  IInv'
<1>1. /\ up /\ syncer.pc = "forget" /\ earliest' \in {earliest, Max({earliest, syncer.min})}
      /\ syncer' = Idle
      /\ UNCHANGED <<up, latest, committed, adding, deltas, dbRound, db, deferred, commit,
                     notified, waits>>
  BY Zenon DEF Forget, acctVars, dbVars, waitVars
<1> DEFINE m == syncer.min
<1>2. m \in 0..dbRound /\ (m = 0 \/ m + MaxTxnLife <= committed + 1)
  BY <1>1, Zenon DEF IInv, SyncOK, Mins
<1> HIDE DEF m
<1>3. /\ earliest \in Nat /\ dbRound \in Nat /\ db.round \in Nat /\ committed \in Nat
      /\ MaxTxnLife \in Nat /\ m \in Nat
  BY <1>2, LookbackAssumption DEF IInv, Rounds
<1>4. earliest' = earliest \/ (earliest' = m /\ earliest <= m)
  BY <1>1, <1>3, MaxFacts, Zenon DEF m
<1>5. dbRound <= db.round
  <2>1. CASE commit.pc = "post"
    <3>1. Len(commit.es) \in Nat /\ db.round = dbRound + Len(commit.es)
      BY <2>1 DEF IInv, CommitOK
    <3>2. QED
      BY <1>3, <3>1
  <2>2. CASE commit.pc # "post"
    BY <1>3, <2>2 DEF IInv, CommitOK
  <2>3. QED
    BY <2>1, <2>2, Zenon
<1>6. CanLoad
  BY Zenon DEF IInv, Recoverable
<1>7. CASE earliest' = earliest
  <2>1. Rounds' /\ Recoverable'
    BY <1>1, <1>7, Zenon DEF IInv, Rounds, Recoverable, CanLoad
  <2>2. QED
    BY <1>1, <2>1, Zenon DEF IInv, AddOK, SyncOK, CommitOK, DownOK, WaitOK, LookbackKept, Idle, OldTasks
<1>8. CASE earliest' = m /\ earliest <= m
  <2>1. m <= db.round /\ db.round <= committed
    BY <1>2, <1>3, <1>5, <1>6 DEF CanLoad
  <2>2. m + MaxTxnLife <= committed + 1 \/ m = 0
    BY <1>2, Zenon
  <2>3. Rounds' /\ Recoverable'
    BY <1>1, <1>3, <1>8, <2>1, <2>2, Zenon DEF IInv, Rounds, Recoverable, CanLoad
  <2>4. QED
    BY <1>1, <2>3 DEF IInv, AddOK, SyncOK, CommitOK, DownOK, WaitOK, LookbackKept, Idle, OldTasks
<1>9. QED
  BY <1>4, <1>7, <1>8, Zenon

-----------------------------------------------------------------------------
(* The commits.                                                            *)

\* What is left of a task fits in the deltas and leaves the lookback, even if
\* an earlier commit has moved the database since it was made.
LEMMA RemainingFits ==
    ASSUME IInv, up, NEW t \in OldTasks, Remaining(t) # 0
    PROVE  /\ Remaining(t) \in 1..Len(deltas)
           /\ dbRound + Remaining(t) + MaxBalLookback <= committed
<1> DEFINE n == t.oldBase + t.offset - dbRound
<1>1. /\ t.oldBase \in Nat /\ t.offset \in Nat /\ MaxBalLookback \in Nat
      /\ t.oldBase + t.offset + MaxBalLookback <= committed
  BY LookbackAssumption DEF OldTasks
<1>2. /\ dbRound \in Nat /\ committed \in Nat /\ latest \in Nat /\ committed <= latest
      /\ Len(deltas) \in Nat /\ dbRound + Len(deltas) = latest
  BY LookbackAssumption DEF IInv, Rounds
<1>3. dbRound <= t.oldBase + t.offset /\ Remaining(t) = n /\ n # 0
  BY Zenon DEF Remaining
<1>4. n \in Nat /\ n # 0 /\ dbRound + n = t.oldBase + t.offset
  BY <1>1, <1>2, <1>3
<1> HIDE DEF n
<1>5. dbRound + n + MaxBalLookback <= committed
  BY <1>1, <1>4, Zenon
<1>6. n <= Len(deltas)
  BY <1>1, <1>2, <1>4, <1>5
<1>7. QED
  BY <1>2, <1>3, <1>4, <1>5, <1>6

\* A commit that is taken up covers deltas that are old enough.
LEMMA CommitTakeStep ==
    ASSUME IInv, CommitTake
    PROVE  IInv'
<1> DEFINE n == Remaining(deferred[1])
<1>1. /\ up /\ commit = Idle /\ deferred # <<>> /\ deferred' = <<>>
      /\ commit' = IF n = 0 THEN Idle ELSE [pc |-> "write", es |-> SubSeq(deltas, 1, n)]
      /\ UNCHANGED <<up, latest, committed, earliest, syncer, adding, deltas, dbRound, db,
                     notified, waits>>
  BY Zenon DEF CommitTake, acctVars, waitVars
<1>2. deferred[1] \in OldTasks /\ db.round = dbRound
  BY <1>1, Zenon DEF IInv, CommitOK, Idle
<1>3. CommitOK'
  <2>1. CASE n = 0
    BY <1>1, <1>2, <2>1, Zenon DEF CommitOK, Idle
  <2>2. CASE n # 0
    <3>1. n \in 1..Len(deltas) /\ dbRound + n + MaxBalLookback <= committed
      BY <1>1, <1>2, <2>2, RemainingFits, Zenon
    <3> HIDE DEF n
    <3>2. deltas \in Seq(Effects)
      BY Zenon DEF IInv, Rounds
    <3>3. SubSeq(deltas, 1, n) \in Seq(Effects) /\ Len(SubSeq(deltas, 1, n)) = n
      BY <3>1, <3>2
    <3> DEFINE es == SubSeq(deltas, 1, n)
    <3>4. commit' = [pc |-> "write", es |-> es]
      BY <1>1, <2>2, Zenon
    <3> HIDE DEF es
    <3>5. /\ commit' \in [pc : {"write", "post"}, es : Seq(Effects)]
          /\ commit'.pc = "write" /\ commit'.es = es
      BY <3>3, <3>4, Zenon DEF es
    <3>6. QED
      BY <1>1, <1>2, <3>1, <3>3, <3>5, Zenon DEF CommitOK, es
  <2>3. QED
    BY <2>1, <2>2, Zenon
<1>4. Rounds' /\ AddOK' /\ WaitOK' /\ Recoverable' /\ LookbackKept'
  BY <1>1, Zenon DEF IInv, Rounds, AddOK, WaitOK, Recoverable, CanLoad, LookbackKept
<1>5. SyncOK' /\ DownOK'
  BY <1>1, Zenon DEF IInv, SyncOK, DownOK, Mins, OldTasks
<1>6. QED
  BY <1>3, <1>4, <1>5, Zenon DEF IInv

\* The database moves by the deltas of the commit, and stays behind the lookback.
LEMMA CommitWriteStep ==
    ASSUME IInv, CommitWrite
    PROVE  IInv'
<1>1. /\ up /\ commit.pc = "write" /\ db' = Stored(db, commit.es)
      /\ commit' = [commit EXCEPT !.pc = "post"]
      /\ UNCHANGED <<up, latest, committed, earliest, syncer, adding, deltas, dbRound,
                     deferred, notified, waits>>
  BY Zenon DEF CommitWrite, acctVars, waitVars
<1> DEFINE es == commit.es
<1>2. /\ commit \in [pc : {"write", "post"}, es : Seq(Effects)] /\ es \in Seq(Effects)
      /\ dbRound + Len(es) + MaxBalLookback <= committed /\ db.round = dbRound
  BY <1>1, Zenon DEF IInv, CommitOK
<1>3. commit' = [pc |-> "post", es |-> es]
  BY <1>1, <1>2, Zenon
<1>4. db'.round = db.round + Len(es)
  BY <1>1, Zenon DEF Stored
<1> HIDE DEF es
<1>5. /\ dbRound \in Nat /\ committed \in Nat /\ earliest \in Nat /\ MaxBalLookback \in Nat
      /\ Len(es) \in Nat
  BY <1>2, LookbackAssumption DEF IInv, Rounds
<1>6. /\ db'.round \in Nat /\ db.round <= db'.round
      /\ db'.round <= committed /\ db'.round + MaxBalLookback <= committed
  BY <1>2, <1>4, <1>5
<1>7. Rounds'
  BY <1>1, <1>6, Zenon DEF IInv, Rounds
<1>8. Recoverable' /\ LookbackKept'
  <2>1. earliest <= db.round
    BY Zenon DEF IInv, Recoverable, CanLoad
  <2>2. earliest <= db'.round
    BY <1>2, <1>5, <1>6, <2>1
  <2>3. QED
    BY <1>1, <1>6, <2>2, Zenon DEF IInv, Recoverable, CanLoad, LookbackKept
<1>9. CommitOK'
  <2>1. commit' \in [pc : {"write", "post"}, es : Seq(Effects)] /\ commit'.pc = "post" /\ commit'.es = es
    BY <1>2, <1>3, Zenon
  <2>2. QED
    BY <1>1, <1>2, <1>4, <2>1, Zenon DEF IInv, CommitOK, OldTasks
<1>10. AddOK' /\ SyncOK' /\ DownOK' /\ WaitOK'
  BY <1>1, Zenon DEF IInv, AddOK, SyncOK, DownOK, WaitOK, Mins, OldTasks
<1>11. QED
  BY <1>7, <1>8, <1>9, <1>10, Zenon DEF IInv

\* A commit that fails leaves the database where it was.
LEMMA CommitFailStep ==
    ASSUME IInv, CommitFail
    PROVE  IInv'
<1>1. /\ up /\ commit.pc = "write" /\ commit' = Idle
      /\ UNCHANGED <<up, latest, committed, earliest, syncer, adding, deltas, dbRound, db,
                     deferred, notified, waits>>
  BY Zenon DEF CommitFail, acctVars, waitVars
<1>2. Rounds' /\ AddOK' /\ WaitOK' /\ Recoverable' /\ LookbackKept'
  BY <1>1, Zenon DEF IInv, Rounds, AddOK, WaitOK, Recoverable, CanLoad, LookbackKept
<1>3. SyncOK' /\ DownOK' /\ CommitOK'
  BY <1>1, Zenon DEF IInv, SyncOK, DownOK, CommitOK, Mins, OldTasks, Idle
<1>4. QED
  BY <1>2, <1>3, Zenon DEF IInv

\* The deltas of the commit leave memory, and dbRound catches up.
LEMMA CommitPostStep ==
    ASSUME IInv, CommitPost
    PROVE  IInv'
<1> DEFINE n == Len(commit.es)
<1>1. /\ up /\ commit.pc = "post" /\ commit' = Idle
      /\ deltas' = SubSeq(deltas, n + 1, Len(deltas)) /\ dbRound' = dbRound + n
      /\ UNCHANGED <<up, latest, committed, earliest, syncer, adding, db, deferred, notified,
                     waits>>
  BY Zenon DEF CommitPost, waitVars
<1>2. n \in Nat /\ dbRound + n + MaxBalLookback <= committed /\ db.round = dbRound + n
  BY <1>1 DEF IInv, CommitOK
<1> HIDE DEF n
<1>3. /\ dbRound \in Nat /\ committed \in Nat /\ latest \in Nat /\ committed <= latest
      /\ deltas \in Seq(Effects) /\ Len(deltas) \in Nat /\ dbRound + Len(deltas) = latest
      /\ MaxBalLookback \in Nat
  BY <1>1, LookbackAssumption DEF IInv, Rounds
<1>4. n + 1 \in 1..(Len(deltas) + 1) /\ n <= Len(deltas)
  BY <1>2, <1>3
<1>5. deltas' \in Seq(Effects) /\ Len(deltas') = Len(deltas) - n
  BY <1>1, <1>2, <1>3, <1>4
<1>6. Rounds'
  <2>1. dbRound' \in Nat /\ dbRound' + Len(deltas') = latest
    <3>1. dbRound' = dbRound + n /\ Len(deltas') = Len(deltas) - n
      BY <1>1, <1>5, Zenon
    <3>2. QED
      BY <1>2, <1>3, <3>1
  <2>2. QED
    BY <1>1, <1>5, <2>1, Zenon DEF IInv, Rounds
<1>7. SyncOK'
  <2>1. \A x \in 0..dbRound : x \in 0..dbRound'
    BY <1>1, <1>2, <1>3
  <2>2. Mins \subseteq Mins' /\ OldTasks' = OldTasks
    BY <1>1, <2>1, Zenon DEF Mins, OldTasks
  <2>3. QED
    BY <1>1, <2>1, <2>2, Zenon DEF IInv, SyncOK
<1>8. CommitOK' /\ DownOK'
  BY <1>1, <1>2, Zenon DEF IInv, CommitOK, DownOK, OldTasks, Idle
<1>9. AddOK' /\ WaitOK' /\ Recoverable' /\ LookbackKept'
  BY <1>1, Zenon DEF IInv, AddOK, WaitOK, Recoverable, CanLoad, LookbackKept
<1>10. QED
  BY <1>6, <1>7, <1>8, <1>9, Zenon DEF IInv

-----------------------------------------------------------------------------
(* Clients.                                                                *)

\* A lookup changes nothing but the cache and its own state.
LEMMA LookupStep ==
    ASSUME IInv,
           \/ \E x \in Addr, r \in 0..latest, rewards \in BOOLEAN : Lookup(x, r, rewards)
           \/ LookupDatabase \/ LookupCompare \/ LookupAgain
    PROVE  IInv' /\ UNCHANGED <<latest, committed, waits>>
<1>1. UNCHANGED lookupKept
  BY Zenon DEF Lookup, LookupDatabase, LookupCompare, LookupAgain
<1>2. UNCHANGED <<up, latest, committed, earliest, syncer, adding, deltas, dbRound, db,
                  deferred, commit, notified, waits>>
  BY <1>1, Zenon DEF lookupKept, dbVars, waitVars
<1>3. AddOK' /\ DownOK' /\ WaitOK'
  BY <1>2, Zenon DEF IInv, AddOK, DownOK, WaitOK
<1>4. QED
  BY <1>2, <1>3, QuietStep, Zenon

\* Who asks for a round that was committed is told at once.
LEMMA WaitStep ==
    ASSUME IInv, NEW q \in Waits, Wait(q)
    PROVE  /\ IInv' /\ UNCHANGED <<latest, committed>>
           /\ \A r \in Waits : /\ waits[r] = "told" => waits'[r] = "told"
                               /\ waits'[r] = "told" => waits[r] = "told" \/ r <= committed
<1>1. /\ waits[q] = "no"
      /\ waits' = [waits EXCEPT ![q] = IF HasRound(q) THEN "told" ELSE "waiting"]
      /\ UNCHANGED <<up, latest, committed, earliest, syncer, adding, deltas, dbRound, db,
                     deferred, commit, notified>>
  BY Zenon DEF Wait, acctVars, dbVars
<1>2. HasRound(q) => q <= committed
  BY LookbackAssumption DEF HasRound, IInv, Rounds
<1>3. waits \in [Waits -> {"no", "waiting", "told"}]
  BY Zenon DEF IInv, WaitOK
<1>4. /\ WaitOK'
      /\ \A r \in Waits : /\ waits[r] = "told" => waits'[r] = "told"
                          /\ waits'[r] = "told" => waits[r] = "told" \/ r <= committed
  BY <1>1, <1>2, <1>3, Zenon DEF WaitOK
<1>5. AddOK' /\ DownOK'
  BY <1>1, Zenon DEF IInv, AddOK, DownOK
<1>6. QED
  BY <1>1, <1>4, <1>5, QuietStep, Zenon

-----------------------------------------------------------------------------
(* The end of the process.                                                 *)

\* What is lost is what was not committed.
LEMMA DieStep ==
    ASSUME IInv, Die
    PROVE  /\ IInv' /\ latest' = committed /\ committed' = committed
           /\ \A r \in Waits : waits'[r] = "told" <=> waits[r] = "told"
<1>1. /\ up' = FALSE /\ latest' = committed /\ committed' = committed /\ earliest' = earliest
      /\ syncer' = Idle /\ adding' = [w \in Writers |-> none] /\ deltas' = <<>>
      /\ dbRound' = db.round /\ db' = db /\ deferred' = <<>> /\ commit' = Idle
      /\ notified' = committed
      /\ waits' = [r \in Waits |-> IF waits[r] = "waiting" THEN "no" ELSE waits[r]]
  BY Zenon DEF Die
<1>2. Rounds'
  <2>1. /\ latest' \in 0..MaxRound /\ committed' \in 0..latest' /\ notified' \in 0..committed'
    BY <1>1, LookbackAssumption DEF IInv, Rounds
  <2>2. deltas' \in Seq(Effects)
    BY <1>1
  <2>3. QED
    BY <1>1, <2>1, <2>2, Zenon DEF IInv, Rounds
<1>3. AddOK' /\ SyncOK' /\ CommitOK' /\ DownOK'
  BY <1>1, Zenon DEF AddOK, SyncOK, CommitOK, DownOK, Idle
<1>4. Recoverable' /\ LookbackKept'
  BY <1>1, Zenon DEF IInv, Recoverable, CanLoad, LookbackKept
<1>5. WaitOK' /\ \A r \in Waits : waits'[r] = "told" <=> waits[r] = "told"
  BY <1>1, Zenon DEF IInv, WaitOK
<1>6. QED
  BY <1>1, <1>2, <1>3, <1>4, <1>5, Zenon DEF IInv

\* The blocks the database lacks, evaluated again.
LEMMA ReplayedFacts ==
    ASSUME IInv
    PROVE  Replayed \in Seq(Effects) /\ Len(Replayed) = committed - db.round
<1>1. db.round \in Nat /\ committed \in 0..MaxRound /\ db.round <= committed
  BY LookbackAssumption DEF IInv, Rounds, Recoverable, CanLoad
<1> DEFINE k == committed - db.round
<1>2. k \in Nat
  BY <1>1
<1>3. \A i \in 1..k : Effect(db.round + i, none) \in Effects
  <2>1. \A i \in 1..k : db.round + i \in 1..MaxRound
    BY <1>1, LookbackAssumption
  <2>2. QED
    BY <2>1, EffectType, Zenon
<1>4. Replayed = [i \in 1..k |-> Effect(db.round + i, none)]
  BY Zenon DEF Replayed
<1>5. Replayed \in [1..k -> Effects]
  BY <1>3, <1>4, Zenon
<1> HIDE DEF k
<1>6. Replayed \in Seq(Effects) /\ Len(Replayed) = k
  BY <1>2, <1>5
<1>7. QED
  BY <1>6, Zenon DEF k

\* The restarted process is where the blocks on disk left it, and what it
\* flushes at once leaves the lookback.
LEMMA RestartStep ==
    ASSUME IInv, Restart
    PROVE  IInv' /\ UNCHANGED <<latest, committed, waits>>
<1>1. /\ ~up /\ up' = TRUE
      /\ UNCHANGED <<latest, committed, earliest, syncer, adding, deferred, commit, notified,
                     waits>>
  BY Zenon DEF Restart, waitVars
<1>2. PICK n \in Flushable :
        /\ db' = Stored(db, SubSeq(Replayed, 1, n)) /\ dbRound' = db.round + n
        /\ deltas' = SubSeq(Replayed, n + 1, Len(Replayed))
  BY Zenon DEF Restart
<1>3. latest = committed /\ syncer = Idle /\ commit = Idle /\ deferred = <<>>
  BY <1>1, Zenon DEF IInv, DownOK
<1> DEFINE d == db.round
<1>4. /\ d \in Nat /\ committed \in Nat /\ d <= committed /\ MaxBalLookback \in Nat \ {0}
      /\ earliest \in Nat /\ earliest <= d
  BY LookbackAssumption DEF IInv, Rounds, Recoverable, CanLoad
<1>5. /\ n \in Nat
      /\ n = 0 \/ (n = committed - d - MaxBalLookback /\ committed > d + MaxBalLookback)
  BY <1>4 DEF Flushable
<1> HIDE DEF d
<1>6. n <= committed - d /\ (n = 0 \/ d + n + MaxBalLookback <= committed)
  BY <1>4, <1>5
<1>7. Replayed \in Seq(Effects) /\ Len(Replayed) = committed - d
  BY ReplayedFacts, Zenon DEF d
<1>8. Len(SubSeq(Replayed, 1, n)) = n
  BY <1>4, <1>5, <1>6, <1>7
<1>9. deltas' \in Seq(Effects) /\ Len(deltas') = committed - d - n
  <2>1. n + 1 \in 1..(Len(Replayed) + 1) /\ Len(Replayed) \in Nat
    BY <1>4, <1>5, <1>6, <1>7
  <2>2. /\ SubSeq(Replayed, n + 1, Len(Replayed)) \in Seq(Effects)
        /\ Len(SubSeq(Replayed, n + 1, Len(Replayed))) = Len(Replayed) - n
    BY <1>5, <1>7, <2>1
  <2>3. QED
    BY <1>2, <1>7, <2>2, Zenon
<1>10. db'.round = d + n /\ dbRound' = d + n
  BY <1>2, <1>8, Zenon DEF Stored, d
<1>11. dbRound' \in Nat /\ dbRound' + Len(deltas') = committed
  BY <1>4, <1>5, <1>9, <1>10
<1>12. Rounds'
  BY <1>1, <1>3, <1>9, <1>10, <1>11, Zenon DEF IInv, Rounds
<1>13. Recoverable'
  <2>1. earliest <= d + n /\ d + n <= committed
    BY <1>4, <1>5, <1>6
  <2>2. QED
    BY <1>1, <1>10, <2>1, Zenon DEF IInv, Recoverable, CanLoad
<1>14. LookbackKept'
  <2>1. CASE n = 0
    BY <1>1, <1>4, <1>10, <2>1 DEF IInv, LookbackKept, d
  <2>2. CASE n # 0
    BY <1>1, <1>6, <1>10, <2>2, Zenon DEF LookbackKept
  <2>3. QED
    BY <2>1, <2>2, Zenon
<1>15. SyncOK' /\ CommitOK' /\ DownOK'
  BY <1>1, <1>3, <1>10, Zenon DEF SyncOK, CommitOK, DownOK, Idle
<1>16. AddOK' /\ WaitOK'
  BY <1>1, Zenon DEF IInv, AddOK, WaitOK
<1>17. QED
  BY <1>1, <1>12, <1>13, <1>14, <1>15, <1>16, Zenon DEF IInv

-----------------------------------------------------------------------------
(* The ledger as a whole.                                                  *)

\* A new ledger is empty.
LEMMA InitInv == Init => IInv
<1> SUFFICES ASSUME Init PROVE IInv
  BY Zenon
<1>1. Rounds
  <2>1. deltas \in Seq(Effects) /\ Len(deltas) = 0
    BY DEF Init
  <2>2. QED
    BY <2>1, LookbackAssumption DEF Init, Rounds
<1>2. AddOK /\ DownOK /\ WaitOK
  BY Zenon DEF Init, AddOK, DownOK, WaitOK
<1>3. SyncOK /\ CommitOK
  BY Zenon DEF Init, SyncOK, CommitOK, Idle
<1>4. Recoverable /\ LookbackKept
  BY DEF Init, Recoverable, CanLoad, LookbackKept
<1>5. QED
  BY <1>1, <1>2, <1>3, <1>4, Zenon DEF IInv

\* The log with one more block.
LEMMA AppendLog ==
    ASSUME NEW n \in Nat, n + 1 <= MaxRound
    PROVE  [r \in 1..(n + 1) |-> Agreed[r]] = Append([r \in 1..n |-> Agreed[r]], Agreed[n + 1])
<1> DEFINE s == [r \in 1..n |-> Agreed[r]]
           t == [r \in 1..(n + 1) |-> Agreed[r]]
<1>1. \A r \in 1..(n + 1) : Agreed[r] \in SUBSET Addr
  BY PayeesAssumption, LookbackAssumption
<1>2. s \in Seq(SUBSET Addr) /\ Len(s) = n
  <2>1. s \in [1..n -> SUBSET Addr]
    BY <1>1
  <2>2. QED
    BY <2>1
<1>3. t \in Seq(SUBSET Addr) /\ Len(t) = n + 1
  <2>1. t \in [1..(n + 1) -> SUBSET Addr]
    BY <1>1, Zenon
  <2>2. QED
    BY <2>1
<1> DEFINE a == Append(s, Agreed[n + 1])
<1>4. /\ a \in Seq(SUBSET Addr) /\ Len(a) = n + 1 /\ a[n + 1] = Agreed[n + 1]
      /\ \A i \in 1..n : a[i] = s[i]
  BY <1>1, <1>2
<1>5. \A i \in 1..(n + 1) : t[i] = a[i]
  BY <1>4
<1>6. QED
  <2> HIDE DEF s, t, a
  <2>1. t = a
    BY <1>3, <1>4, <1>5
  <2>2. QED
    BY <2>1, Zenon DEF s, t, a

\* A prefix of the log.
LEMMA CutLog ==
    ASSUME NEW n \in Nat, NEW m \in 0..n, n <= MaxRound
    PROVE  /\ SubSeq([r \in 1..n |-> Agreed[r]], 1, m) = [r \in 1..m |-> Agreed[r]]
           /\ Len([r \in 1..n |-> Agreed[r]]) = n
<1> DEFINE s == [r \in 1..n |-> Agreed[r]]
           t == [r \in 1..m |-> Agreed[r]]
<1>1. \A r \in 1..n : Agreed[r] \in SUBSET Addr
  BY PayeesAssumption, LookbackAssumption
<1>2. s \in Seq(SUBSET Addr) /\ Len(s) = n
  <2>1. s \in [1..n -> SUBSET Addr]
    BY <1>1, Zenon
  <2>2. QED
    BY <2>1
<1>3. t \in Seq(SUBSET Addr) /\ Len(t) = m
  <2>1. t \in [1..m -> SUBSET Addr]
    BY <1>1
  <2>2. QED
    BY <2>1
<1> DEFINE a == SubSeq(s, 1, m)
<1>4. a \in Seq(SUBSET Addr) /\ Len(a) = m /\ \A i \in 1..m : a[i] = s[i]
  BY <1>2
<1>5. \A i \in 1..m : t[i] = a[i]
  BY <1>4
<1>6. QED
  <2> HIDE DEF s, t, a
  <2>1. t = a
    BY <1>3, <1>4, <1>5
  <2>2. QED
    BY <1>2, <2>1, Zenon DEF s, t, a

\* Steps the log does not see.
LEMMA LogQuiet ==
    ASSUME UNCHANGED <<latest, committed, waits>>
    PROVE  UNCHANGED Log!vars
BY Zenon DEF Log!vars

\* A block that is added is appended to the log.
LEMMA LogAdd ==
    ASSUME IInv, latest' \in {latest, latest + 1}, latest' <= MaxRound,
           UNCHANGED <<committed, waits>>
    PROVE  [Log!Next]_Log!vars
<1>1. CASE latest' = latest
  BY <1>1, LogQuiet, Zenon
<1>2. CASE latest' = latest + 1
  <2>1. latest \in Nat /\ latest + 1 \in 1..MaxRound
    BY <1>2, LookbackAssumption DEF IInv, Rounds
  <2>2. [r \in 1..latest' |-> Agreed[r]] = Append([r \in 1..latest |-> Agreed[r]], Agreed[latest + 1])
    BY <1>2, <2>1, AppendLog, Zenon
  <2>3. Agreed[latest + 1] \in SUBSET Addr
    BY <2>1, PayeesAssumption, Zenon
  <2>4. \E b \in SUBSET Addr : Log!Add(b)
    BY <2>2, <2>3, Zenon DEF Log!Add
  <2>5. QED
    BY <2>4, Zenon DEF Log!Next
<1>3. QED
  BY <1>1, <1>2, Zenon

\* What is committed is flushed.
LEMMA LogFlush ==
    ASSUME IInv, committed' \in committed..latest, UNCHANGED <<latest, waits>>
    PROVE  [Log!Next]_Log!vars
<1>1. latest \in Nat /\ latest <= MaxRound /\ latest \in 0..latest
  BY LookbackAssumption DEF IInv, Rounds
<1>2. Len([r \in 1..latest |-> Agreed[r]]) = latest
  BY <1>1, CutLog, Zenon
<1>3. Log!Flush
  BY <1>2, Zenon DEF Log!Flush
<1>4. QED
  BY <1>3, Zenon DEF Log!Next

\* Who is told is told of a round that was committed.
LEMMA LogTell ==
    ASSUME IInv, UNCHANGED <<latest, committed>>,
           \A r \in Waits : /\ waits[r] = "told" => waits'[r] = "told"
                            /\ waits'[r] = "told" => waits[r] = "told" \/ r <= committed
    PROVE  [Log!Next]_Log!vars
<1>1. Log!Tell
  BY Zenon DEF Log!Tell
<1>2. QED
  BY <1>1, Zenon DEF Log!Next

\* A crash loses what was not committed.
LEMMA LogLose ==
    ASSUME IInv, latest' = committed, committed' = committed,
           \A r \in Waits : waits'[r] = "told" <=> waits[r] = "told"
    PROVE  [Log!Next]_Log!vars
<1>1. latest \in Nat /\ latest <= MaxRound /\ committed \in 0..latest
  BY LookbackAssumption DEF IInv, Rounds
<1>2. [r \in 1..latest' |-> Agreed[r]] = SubSeq([r \in 1..latest |-> Agreed[r]], 1, committed)
  BY <1>1, CutLog, Zenon
<1>3. {r \in Waits : waits'[r] = "told"} = {r \in Waits : waits[r] = "told"}
  BY Zenon
<1>4. Log!Lose
  BY <1>2, <1>3, Zenon DEF Log!Lose
<1>5. QED
  BY <1>4, Zenon DEF Log!Next

\* Every step keeps the invariant and is a step of the log, or none.
LEMMA NextStep ==
    ASSUME IInv, [Next]_vars
    PROVE  IInv' /\ [Log!Next]_Log!vars
<1>1. ASSUME NEW w \in Writers, Eval(w) \/ Validate(w) PROVE IInv' /\ [Log!Next]_Log!vars
  <2>1. UNCHANGED <<latest, committed, waits>>
    BY <1>1, Zenon DEF Eval, Validate, waitVars
  <2>2. QED
    BY <1>1, <2>1, EvalStep, LogQuiet, Zenon
<1>2. ASSUME NEW w \in Writers, AddValidatedBlock(w) PROVE IInv' /\ [Log!Next]_Log!vars
  BY <1>2, AddStep, LogAdd, Zenon
<1>3. CASE SyncTake \/ SyncFail
  <2>1. UNCHANGED <<latest, committed, waits>>
    BY <1>3, Zenon DEF SyncTake, SyncFail, waitVars
  <2>2. QED
    BY <1>3, <2>1, SyncTakeStep, LogQuiet, Zenon
<1>4. CASE SyncPut
  BY <1>4, SyncPutStep, LogFlush, Zenon
<1>5. CASE Notify
  BY <1>5, NotifyStep, LogTell, Zenon
<1>6. CASE Produce \/ Send \/ Forget
  <2>1. UNCHANGED <<latest, committed, waits>>
    BY <1>6, Zenon DEF Produce, Send, Forget, waitVars
  <2>2. QED
    BY <1>6, <2>1, ProduceStep, SendStep, ForgetStep, LogQuiet, Zenon
<1>7. CASE CommitTake \/ CommitWrite \/ CommitFail \/ CommitPost
  <2>1. UNCHANGED <<latest, committed, waits>>
    BY <1>7, Zenon DEF CommitTake, CommitWrite, CommitFail, CommitPost, waitVars
  <2>2. QED
    BY <1>7, <2>1, CommitTakeStep, CommitWriteStep, CommitFailStep, CommitPostStep, LogQuiet, Zenon
<1>8. CASE \/ \E x \in Addr, r \in 0..latest, rewards \in BOOLEAN : Lookup(x, r, rewards)
           \/ LookupDatabase \/ LookupCompare \/ LookupAgain
  BY <1>8, LookupStep, LogQuiet, Zenon
<1>9. ASSUME NEW r \in Waits, Wait(r) PROVE IInv' /\ [Log!Next]_Log!vars
  BY <1>9, WaitStep, LogTell, Zenon
<1>10. CASE Crash \/ Panic
  <2>1. Die
    BY <1>10, Zenon DEF Crash, Panic
  <2>2. QED
    BY <2>1, DieStep, LogLose, Zenon
<1>11. CASE Restart
  BY <1>11, RestartStep, LogQuiet, Zenon
<1>12. CASE UNCHANGED vars
  <2>1. UNCHANGED <<up, latest, committed, earliest, syncer, adding, deltas, dbRound, db,
                    deferred, commit, notified, waits>>
    BY <1>12, Zenon DEF vars
  <2>2. AddOK' /\ DownOK' /\ WaitOK'
    BY <2>1, Zenon DEF IInv, AddOK, DownOK, WaitOK
  <2>3. QED
    BY <2>1, <2>2, QuietStep, LogQuiet, Zenon
<1>13. QED
  BY <1>1, <1>2, <1>3, <1>4, <1>5, <1>6, <1>7, <1>8, <1>9, <1>10, <1>11, <1>12, Zenon DEF Next

\* IInv holds throughout.
LEMMA Invariance == Spec => []IInv
BY InitInv, NextStep, PTL DEF Spec

\* Whenever the process dies it can load its state again: the syncer forgets no
\* block that the accounts or the transaction tail are rebuilt from, although it
\* decides with a round of the database it read before (notifyCommit,
\* blockForgetBefore, loadFromDisk).
THEOREM AlwaysRecoverable == Spec => []Recoverable
<1>1. IInv => Recoverable
  BY Zenon DEF IInv
<1>2. QED
  BY <1>1, Invariance, PTL

\* The database never runs into the lookback: a task that is out of date is cut
\* down to what is left of it, or dropped (produceCommittingTask, roundOffset,
\* initializeTrackerCaches).
THEOREM LookbackStays == Spec => []LookbackKept
<1>1. IInv => LookbackKept
  BY Zenon DEF IInv
<1>2. QED
  BY <1>1, Invariance, PTL

\* The ledger is a log with a durable prefix, and nobody is told of a round a
\* crash can lose (putBlock, blockQueue.syncer, bulletin, Ledger.Wait).
THEOREM LedgerIsLog == Spec => ImplementsBlockLog
<1>1. Init => Log!Init
  <2> SUFFICES ASSUME Init PROVE Log!Init
    OBVIOUS
  <2>1. latest = 0 /\ committed = 0 /\ \A r \in Waits : waits[r] # "told"
    BY Zenon DEF Init
  <2>2. [r \in 1..latest |-> Agreed[r]] = <<>>
    BY <2>1
  <2>3. QED
    BY <2>1, <2>2, Zenon DEF Log!Init
<1>2. IInv /\ [Next]_vars => [Log!Next]_Log!vars
  BY NextStep, Zenon
<1>3. QED
  BY <1>1, <1>2, Invariance, PTL DEF Spec, ImplementsBlockLog, Log!Spec
=============================================================================
