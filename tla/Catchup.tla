------------------------------ MODULE Catchup ------------------------------
(***************************************************************************)
(* The catchup service of one node (catchup/service.go): the goroutine of  *)
(* periodicSync, the pipeline of workers that fetch and write rounds in    *)
(* parallel, the certificates agreement hands over, Start and Stop.        *)
(*                                                                         *)
(* Around it are the ledger, which the agreement service extends as well   *)
(* and which writes its blocks to disk later; peers, which answer with the *)
(* block, with something else or not at all; the writer of catchpoint      *)
(* files; and a protocol upgrade this node does not know, announced by the *)
(* blocks from round Notice on and in force from round SwitchOn on.        *)
(*                                                                         *)
(* A completion channel is named after its round.  Its two buffered values *)
(* are read by the task of the next round and by that of the round         *)
(* SeedLookback later.                                                     *)
(***************************************************************************)
EXTENDS Integers, FiniteSets, Sequences

CONSTANTS
    Tip,             \* the last round of the network
    ParallelBlocks,  \* config.CatchupParallelBlocks
    SeedLookback,    \* rounds between a block and the seed it is checked with
    MaxBalLookback,  \* rounds the ledger may keep off the disk
    RetryLimit,      \* catchupRetryLimit (500)
    Notice,          \* the first round that announces the upgrade
    SwitchOn,        \* the round of the upgrade, 0 if there is none
    CatchpointRound, \* the round a catchpoint file is written for
    MaxStarts        \* bound: times the service is started

ASSUME PipelineAssumption ==
    /\ {Tip, ParallelBlocks, SeedLookback, RetryLimit, MaxStarts} \subseteq Nat \ {0}
    /\ {MaxBalLookback, Notice, SwitchOn, CatchpointRound} \subseteq Nat

VARIABLES
    last,       \* the last round of the ledger
    flushed,    \* the last round the ledger has written to disk
    writing,    \* the ledger is writing a catchpoint file
    pc,         \* where periodicSync is
    cancelled,  \* Service.ctx is done
    stopping,   \* Stop waits for periodicSync
    starts,     \* calls of Start so far
    syncing,    \* syncStartNS # 0
    suspended,  \* suspendForCatchpointWriting
    notified,   \* initialSyncNotified
    current,    \* currBlock of periodicSync, or the round of a certificate
    short,      \* sleepDuration < deadlineTimeout
    from, next, \* from and nextRound of pipelinedFetch
    seen,       \* completedRounds
    taskCh,     \* the tasks no worker has taken
    task,       \* the tasks of the workers, by round
    chan,       \* the values left in the completion channels
    completed   \* the channel of completed rounds

ledgerVars == <<last, flushed, writing>>
lifeVars == <<cancelled, stopping, starts, notified>>
syncVars == <<syncing, suspended>>
waitVars == <<current, short>>
pipeVars == <<from, next, seen, taskCh, task, chan, completed>>
vars == <<last, flushed, writing, pc, cancelled, stopping, starts, syncing,
          suspended, notified, current, short, from, next, seen, taskCh, task,
          chan, completed>>

-----------------------------------------------------------------------------
Larger(a, b) == IF a < b THEN b ELSE a

\* parallelRequests.
Requests == Larger(ParallelBlocks, SeedLookback)

\* The last round this node can execute.
Goal == IF SwitchOn \in 1..Tip THEN SwitchOn - 1 ELSE Tip

\* Rounds of completion channels.
Rounds == (1 - SeedLookback)..(Goal + Requests)

Running == DOMAIN task

NoTask == [r \in {} |-> 0]
NoChannels == [r \in Rounds |-> <<>>]

\* Fault: one channel too many reports success.
FreshChannelsInclusive(first) ==
    [r \in Rounds |-> IF r \in (first - SeedLookback)..first
                      THEN <<TRUE, TRUE>> ELSE <<>>]

\* Every pipeline starts with channels that report success.
FreshChannels(first) ==
    [r \in Rounds |-> IF r \in (first - SeedLookback)..(first - 1)
                      THEN <<TRUE, TRUE>> ELSE <<>>]

\* nextRoundIsNotSupported, from the header of the last block.
nextRoundIsNotSupported(r) ==
    SwitchOn > 0 /\ last >= Notice /\ r >= SwitchOn

\* Fault: the last supported round is taken for the first unsupported one.
UnsupportedLate == cancelled' = (cancelled \/ last >= SwitchOn)

\* handleUnsupportedRound
Unsupported == cancelled' = (cancelled \/ last >= SwitchOn - 1)

-----------------------------------------------------------------------------
Init ==
    /\ last \in 0..Goal /\ flushed = last
    /\ writing = FALSE
    /\ pc = "off"
    /\ cancelled = FALSE /\ stopping = FALSE /\ starts = 0
    /\ syncing = FALSE /\ suspended = FALSE /\ notified = FALSE
    /\ current = 0 /\ short = FALSE
    /\ from = 0 /\ next = 0 /\ seen = {}
    /\ taskCh = <<>> /\ task = NoTask /\ chan = NoChannels /\ completed = <<>>

-----------------------------------------------------------------------------
(* The ledger and its other users.                                         *)

\* Agreement adds the next block.
AgreementAdds ==
    /\ last < Goal
    /\ last' = last + 1
    /\ UNCHANGED <<flushed, writing, pc, lifeVars, syncVars, waitVars, pipeVars>>

\* The ledger writes a block to disk, and starts with the catchpoint file.
Flush ==
    /\ flushed < last
    /\ flushed' = flushed + 1
    /\ writing' = (writing \/ flushed' = CatchpointRound)
    /\ UNCHANGED <<last, pc, lifeVars, syncVars, waitVars, pipeVars>>

FileWritten ==
    /\ writing
    /\ writing' = FALSE
    /\ UNCHANGED <<last, flushed, pc, lifeVars, syncVars, waitVars, pipeVars>>

-----------------------------------------------------------------------------
(* Start, Stop and periodicSync.                                           *)

\* sync, up to the first loop of pipelinedFetch.
Sync ==
    /\ syncing' = TRUE
    /\ from' = last + 1 /\ next' = last + 1
    /\ chan' = FreshChannels(last + 1)
    /\ pc' = "fill"
    /\ UNCHANGED <<seen, taskCh, task, completed>>

Start ==
    /\ pc = "off" /\ ~stopping /\ starts < MaxStarts
    /\ starts' = starts + 1
    /\ cancelled' = FALSE
    /\ Sync
    /\ UNCHANGED <<ledgerVars, stopping, suspended, notified, waitVars>>

Stop ==
    /\ pc # "off" /\ ~stopping
    /\ stopping' = TRUE
    /\ cancelled' = TRUE
    /\ UNCHANGED <<ledgerVars, pc, starts, notified, syncVars, waitVars, pipeVars>>

StopReturn ==
    /\ stopping /\ pc = "off"
    /\ stopping' = FALSE
    /\ notified' = TRUE
    /\ UNCHANGED <<ledgerVars, pc, cancelled, starts, syncVars, waitVars, pipeVars>>

\* The service has been cancelled.
Leave ==
    /\ pc = "idle" /\ cancelled
    /\ pc' = "off"
    /\ current' = 0 /\ short' = FALSE
    /\ UNCHANGED <<ledgerVars, lifeVars, syncVars, pipeVars>>

\* The ledger moved forward.
LedgerMoved ==
    /\ pc = "idle" /\ flushed > current
    /\ current' = last
    /\ short' = TRUE
    /\ UNCHANGED <<ledgerVars, pc, lifeVars, syncVars, pipeVars>>

\* The timer fires too early, or while a catchpoint file is written.
TimerAgain ==
    /\ pc = "idle" /\ (short \/ writing)
    /\ current' = last
    /\ short' = FALSE
    /\ UNCHANGED <<ledgerVars, pc, lifeVars, syncVars, pipeVars>>

\* The timer fires: resync.
TimerSync ==
    /\ pc = "idle" /\ ~short /\ ~writing
    /\ suspended' = FALSE
    /\ Sync
    /\ current' = 0
    /\ UNCHANGED <<ledgerVars, lifeVars, short>>

\* Fault: every sync that returns stops the timer.
SyncEndAlways ==
    /\ syncing' = FALSE
    /\ notified' = (notified \/ ~suspended)
    /\ UNCHANGED suspended

\* The rest of sync once pipelinedFetch has returned: the timer goes on if
\* a catchpoint file made it return.
SyncEnd ==
    /\ syncing' = suspended
    /\ notified' = (notified \/ ~suspended)
    /\ UNCHANGED suspended

\* The deferred function of pipelinedFetch returns once every worker has.
Drained ==
    /\ pc = "drain" /\ taskCh = <<>> /\ Running = {}
    /\ SyncEnd
    /\ pc' = "idle"
    /\ current' = last
    /\ completed' = <<>> /\ chan' = NoChannels /\ seen' = {}
    /\ from' = 0 /\ next' = 0
    /\ UNCHANGED <<ledgerVars, cancelled, stopping, starts, short, taskCh, task>>

\* Agreement has a certificate for a block it lacks: fetchRound, which does
\* not try a round of the unsupported protocol.
TakeCertificate ==
    /\ pc = "idle" /\ last < Tip
    /\ IF nextRoundIsNotSupported(last + 1)
       THEN Unsupported /\ current' = last /\ UNCHANGED pc
       ELSE pc' = "cert" /\ current' = last + 1 /\ UNCHANGED cancelled
    /\ UNCHANGED <<ledgerVars, stopping, starts, notified, syncVars, short, pipeVars>>

\* The block of the certificate arrives, EnsureBlock writes it.
CertFetched ==
    /\ pc = "cert" /\ current <= Goal
    /\ last' = Larger(last, current)
    /\ pc' = "idle" /\ current' = last'
    /\ UNCHANGED <<flushed, writing, lifeVars, syncVars, short, pipeVars>>

\* The round got into the ledger otherwise, or a peer was asked and the fetch
\* failed because the service is cancelled.
CertDropped ==
    /\ pc = "cert" /\ (last >= current \/ cancelled)
    /\ pc' = "idle" /\ current' = last
    /\ UNCHANGED <<ledgerVars, lifeVars, syncVars, short, pipeVars>>

\* There is no peer to ask: RequestConnectOutgoing, and the loop goes on,
\* whether or not the service is cancelled.
CertNobody ==
    /\ pc = "cert" /\ last < current
    /\ pc' = "connect"
    /\ UNCHANGED <<ledgerVars, lifeVars, syncVars, waitVars, pipeVars>>

CertAgain ==
    /\ pc = "connect"
    /\ pc' = "cert"
    /\ UNCHANGED <<ledgerVars, lifeVars, syncVars, waitVars, pipeVars>>

-----------------------------------------------------------------------------
(* pipelinedFetch: the main goroutine.                                     *)

\* A task for the next round.
Spawn ==
    /\ Len(taskCh) < Requests
    /\ taskCh' = Append(taskCh, next)
    /\ next' = next + 1

\* No peer at all: there is nothing to do.
NoPeers ==
    /\ pc = "fill" /\ next = from
    /\ pc' = "drain"
    /\ UNCHANGED <<ledgerVars, lifeVars, syncVars, waitVars, pipeVars>>

\* Fault: the first loop runs once too often.
FillInclusive ==
    /\ pc = "fill"
    /\ IF nextRoundIsNotSupported(next)
       THEN Unsupported /\ pc' = "rest" /\ UNCHANGED <<taskCh, next>>
       ELSE /\ Spawn
            /\ pc' = IF next' > from + Requests THEN "rest" ELSE "fill"
            /\ UNCHANGED cancelled
    /\ UNCHANGED <<ledgerVars, stopping, starts, notified, syncVars, waitVars,
                   from, seen, task, chan, completed>>

\* The first loop.
Fill ==
    /\ pc = "fill"
    /\ IF nextRoundIsNotSupported(next)
       THEN Unsupported /\ pc' = "rest" /\ UNCHANGED <<taskCh, next>>
       ELSE /\ Spawn
            /\ pc' = IF next' = from + Requests THEN "rest" ELSE "fill"
            /\ UNCHANGED cancelled
    /\ UNCHANGED <<ledgerVars, stopping, starts, notified, syncVars, waitVars,
                   from, seen, task, chan, completed>>

\* The second loop: one more task when the oldest one is complete.
Extend ==
    /\ pc = "rest" /\ next - Requests \in seen
    /\ IF nextRoundIsNotSupported(next)
       THEN Unsupported /\ pc' = "drain" /\ UNCHANGED <<taskCh, next>>
       ELSE Spawn /\ UNCHANGED <<pc, cancelled>>
    /\ UNCHANGED <<ledgerVars, stopping, starts, notified, syncVars, waitVars,
                   from, seen, task, chan, completed>>

\* The second loop receives the result of a task.
Receive ==
    /\ pc = "rest" /\ next - Requests \notin seen /\ completed # <<>>
    /\ completed' = Tail(completed)
    /\ LET r == Head(completed) IN
       \/ /\ r = 0
          /\ pc' = "drain" /\ UNCHANGED <<seen, suspended>>
       \/ /\ r > 0 /\ writing
          /\ pc' = "drain" /\ suspended' = TRUE /\ UNCHANGED seen
       \/ /\ r > 0 /\ ~writing
          /\ seen' = seen \cup {r} /\ UNCHANGED <<pc, suspended>>
    /\ UNCHANGED <<ledgerVars, lifeVars, syncing, waitVars, from, next, taskCh,
                   task, chan>>

\* The second loop sees that the service is cancelled.
Abandon ==
    /\ pc = "rest" /\ next - Requests \notin seen /\ cancelled
    /\ pc' = "drain"
    /\ UNCHANGED <<ledgerVars, lifeVars, syncVars, waitVars, pipeVars>>

-----------------------------------------------------------------------------
(* pipelineCallback and fetchAndWrite: one task in a worker.               *)

outside == <<flushed, writing, pc, lifeVars, syncVars, waitVars, from, next, seen>>

\* A worker takes a task.
Take ==
    /\ taskCh # <<>> /\ Cardinality(Running) < Requests
    /\ taskCh' = Tail(taskCh)
    /\ task' = [r \in Running \cup {Head(taskCh)} |->
                  IF r \in Running THEN task[r]
                  ELSE [at |-> "fetch", tries |-> 0, back |-> FALSE]]
    /\ UNCHANGED <<last, chan, completed, outside>>

At(r, where) == r \in Running /\ task[r].at = where

Goes(r, where) == task' = [task EXCEPT ![r].at = where]

\* The completion channels of the two rounds a task depends on.
lookbackChan(r) == r - SeedLookback
prevFetchCompleteChan(r) == r - 1

\* One value is read from a channel, or none.
Read(c) == [chan EXCEPT ![c] = Tail(@)]

\* Fault: the result is written once.
CompletesOnce(cs, r, ok) ==
    /\ Goes(r, IF ok THEN "written" ELSE "failed")
    /\ chan' = [cs EXCEPT ![r] = <<ok>>]

\* The result of fetchAndWrite goes into the channel of its round, twice.
Completes(cs, r, ok) ==
    /\ Goes(r, IF ok THEN "written" ELSE "failed")
    /\ chan' = [cs EXCEPT ![r] = <<ok, ok>>]

\* Give up: cancelled, too many attempts, the round is in the ledger
\* already, or its block is of a protocol this node does not know.
FetchNothing(r) ==
    /\ At(r, "fetch")
    /\ \/ cancelled
       \/ task[r].tries = RetryLimit
       \/ flushed >= r
       \/ SwitchOn > 0 /\ r \in SwitchOn..Tip
    /\ Completes(chan, r, FALSE)
    /\ UNCHANGED <<last, taskCh, completed, outside>>

\* There is no peer to ask.
FetchNobody(r) ==
    /\ At(r, "fetch")
    /\ Completes(chan, r, FALSE)
    /\ UNCHANGED <<last, taskCh, completed, outside>>

Asking(r) == At(r, "fetch") /\ ~cancelled /\ task[r].tries < RetryLimit

\* One more attempt has been made in vain.
Again(r, back) ==
    [task EXCEPT ![r] = [at |-> "fetch", tries |-> @.tries + 1, back |-> back]]

\* The download fails: the next attempt waits for the lookback round.
FetchFails(r) ==
    /\ Asking(r) /\ flushed < r
    /\ task' = IF task[r].back THEN Again(r, TRUE)
               ELSE [task EXCEPT ![r].at = "lookback"]
    /\ UNCHANGED <<last, taskCh, chan, completed, outside>>

\* A block whose contents do not match its header.
FetchMismatch(r) ==
    /\ Asking(r)
    /\ task' = Again(r, task[r].back)
    /\ UNCHANGED <<last, taskCh, chan, completed, outside>>

\* A block with its certificate, or with one that does not certify it.
FetchAnswer(r, kind) ==
    /\ Asking(r) /\ r <= Goal
    /\ Goes(r, kind)
    /\ UNCHANGED <<last, taskCh, chan, completed, outside>>

\* After a failed download: the lookback round is there, try again.
LookbackThere(r) ==
    /\ At(r, "lookback") /\ chan[lookbackChan(r)] # <<>>
    /\ IF Head(chan[lookbackChan(r)])
       THEN task' = Again(r, TRUE) /\ chan' = Read(lookbackChan(r))
       ELSE Completes(Read(lookbackChan(r)), r, FALSE)
    /\ UNCHANGED <<last, taskCh, completed, outside>>

\* The lookback round is there: the certificate can be checked.
Authenticate(r, kind) ==
    /\ At(r, kind)
    /\ task[r].back \/ chan[lookbackChan(r)] # <<>>
    /\ LET cs == IF task[r].back THEN chan ELSE Read(lookbackChan(r)) IN
       IF ~task[r].back /\ ~Head(chan[lookbackChan(r)])
       THEN Completes(cs, r, FALSE)
       ELSE /\ task' = IF kind = "good"
                       THEN [task EXCEPT ![r].at = "prev", ![r].back = TRUE]
                       ELSE Again(r, TRUE)
            /\ chan' = cs
    /\ UNCHANGED <<last, taskCh, completed, outside>>

\* The previous round is complete.
PrevComplete(r) ==
    /\ At(r, "prev") /\ chan[prevFetchCompleteChan(r)] # <<>>
    /\ LET cs == Read(prevFetchCompleteChan(r)) IN
       IF Head(chan[prevFetchCompleteChan(r)])
       THEN Goes(r, "backlog") /\ chan' = cs
       ELSE Completes(cs, r, FALSE)
    /\ UNCHANGED <<last, taskCh, completed, outside>>

\* The ledger has little enough to write: evaluate the block, which fails if
\* it is not the next one: Validate reports a block out of sequence, AddBlock
\* a block that is in the ledger already, and both end the pipeline.
Evaluate(r) ==
    /\ At(r, "backlog") /\ flushed >= r - MaxBalLookback
    /\ IF last = r - 1
       THEN Goes(r, "add") /\ UNCHANGED chan
       ELSE Completes(chan, r, FALSE)
    /\ UNCHANGED <<last, taskCh, completed, outside>>

\* Fault: a round that is already there is written again.
WriteBlind(r) ==
    /\ At(r, "add")
    /\ Completes(chan, r, TRUE)
    /\ last' = r
    /\ UNCHANGED <<taskCh, completed, outside>>

\* Add the evaluated block, unless agreement has just done so.
Write(r) ==
    /\ At(r, "add")
    /\ Completes(chan, r, last = r - 1)
    /\ last' = Larger(last, r)
    /\ UNCHANGED <<taskCh, completed, outside>>

\* A task that waits is cancelled.
Aborted(r) ==
    /\ cancelled
    /\ r \in Running /\ task[r].at \in {"lookback", "good", "forged", "prev", "backlog"}
    /\ task[r].at \in {"good", "forged"} => ~task[r].back
    /\ Completes(chan, r, FALSE)
    /\ UNCHANGED <<last, taskCh, completed, outside>>

\* Fault: the channel of results is one shorter.
ReportShort(r) ==
    /\ r \in Running /\ task[r].at \in {"written", "failed"}
    /\ Len(completed) < Requests - 1
    /\ completed' = Append(completed, IF task[r].at = "written" THEN r ELSE 0)
    /\ task' = [q \in Running \ {r} |-> task[q]]
    /\ UNCHANGED <<last, taskCh, chan, outside>>

\* The worker sends the round, or 0, and is free for another task.
Report(r) ==
    /\ r \in Running /\ task[r].at \in {"written", "failed"}
    /\ Len(completed) < Requests
    /\ completed' = Append(completed, IF task[r].at = "written" THEN r ELSE 0)
    /\ task' = [q \in Running \ {r} |-> task[q]]
    /\ UNCHANGED <<last, taskCh, chan, outside>>

Worker(r) ==
    \/ FetchNothing(r) \/ FetchFails(r) \/ FetchMismatch(r)
    \/ \E kind \in {"good", "forged"} : FetchAnswer(r, kind) \/ Authenticate(r, kind)
    \/ LookbackThere(r) \/ PrevComplete(r) \/ Evaluate(r) \/ Write(r)
    \/ Aborted(r) \/ Report(r)

Pipeline ==
    \/ Fill \/ Extend \/ Receive \/ Abandon \/ Drained
    \/ Take \/ \E r \in Running : Worker(r)

fetchRound == CertFetched \/ CertDropped \/ CertNobody \/ CertAgain

Periodic ==
    \/ Leave \/ LedgerMoved \/ TimerAgain \/ TimerSync
    \/ TakeCertificate \/ fetchRound

Next ==
    \/ AgreementAdds \/ Flush \/ FileWritten
    \/ Start \/ Stop \/ StopReturn
    \/ Periodic \/ NoPeers \/ Pipeline
    \/ \E r \in Running : FetchNobody(r)

Spec == Init /\ [][Next]_vars

\* The goroutines run.  Go's select takes every case that is ready again and
\* again, the timer of periodicSync fires, and some peer has the blocks: a
\* round that is asked for again and again arrives.
Fairness ==
    /\ WF_vars(Flush \/ FileWritten \/ StopReturn)
    /\ WF_vars(Pipeline)
    /\ WF_vars(TimerAgain)
    /\ WF_vars(fetchRound)
    /\ SF_vars(Leave) /\ SF_vars(TimerSync) /\ SF_vars(Fill)
    /\ \A r \in 1..Goal : SF_vars(FetchAnswer(r, "good"))

FairSpec == Spec /\ Fairness

-----------------------------------------------------------------------------
(* Properties.                                                             *)

Places == {"fetch", "lookback", "good", "forged", "prev", "backlog", "add",
           "written", "failed"}

\* Type correctness, and what Go's channels guarantee: no channel holds more
\* values than its capacity.
TypeOK ==
    /\ last \in 0..Goal /\ flushed \in 0..last /\ writing \in BOOLEAN
    /\ pc \in {"off", "idle", "cert", "connect", "fill", "rest", "drain"}
    /\ cancelled \in BOOLEAN /\ stopping \in BOOLEAN /\ starts \in 0..MaxStarts
    /\ syncing \in BOOLEAN /\ suspended \in BOOLEAN /\ notified \in BOOLEAN
    /\ current \in 0..Tip /\ short \in BOOLEAN
    /\ from \in 0..(Goal + 1) /\ next \in 0..(Goal + 1 + Requests)
    /\ seen \subseteq 1..Goal
    /\ taskCh \in Seq(1..(Goal + Requests)) /\ Len(taskCh) <= Requests
    /\ Running \subseteq 1..(Goal + Requests)
    /\ task \in [Running -> [at : Places, tries : 0..RetryLimit, back : BOOLEAN]]
    /\ chan \in [Rounds -> Seq(BOOLEAN)] /\ \A c \in Rounds : Len(chan[c]) <= 2
    /\ completed \in Seq(0..Goal) /\ Len(completed) <= Requests

\* A block is authenticated, and what comes after that is done, only when the
\* ledger has the round SeedLookback before it, whose seed and balances the
\* check reads: the lookback channel of pipelinedFetch is that round's, also
\* while agreement extends the ledger, and a round that counts as complete is
\* in the ledger (fetchAndWrite, catchup/service.go:329-350).
LookbackInLedger ==
    /\ \A r \in Running :
         task[r].back \/ task[r].at \in {"prev", "backlog", "add"} =>
           last >= r - SeedLookback
    /\ \A r \in seen : last >= r

\* The invariant stated in pipelinedFetch (catchup/service.go:478): tasks that
\* wait, run or have results nobody read are never more than the channels
\* hold, so a worker never blocks on its result.
PipelineBounded ==
    Len(taskCh) + Cardinality(Running) + Len(completed) <= Requests

\* While the service is suspended for a catchpoint file the catchup timer keeps
\* running (catchup/service.go:83-84): a sync that was cut short still counts
\* as under way, also after the ledger moved or a certificate came.
SuspendedStillSyncing ==
    suspended => syncing

\* fetchRound finds a peer in the end, whenever it looks for one.
PeersFound == <>[](pc # "connect")

\* The service ensures that the ledger is up to date with the network
\* (catchup/service.go:67): unless it is stopped, the ledger gets every round
\* the network has and this node supports, although downloads fail, rounds
\* complete out of order, agreement writes the same rounds, which ends the
\* pipeline, and catchpoint files interrupt it.
CatchesUp ==
    PeersFound => (pc # "off" ~> cancelled \/ last = Goal)

\* Stop returns, whatever the pipeline and its workers wait for
\* (catchup/service.go:142-150), unless fetchRound looks for a peer for ever:
\* that loop does not read the context (catchup/service.go:723-728).
StopReturns ==
    PeersFound => (stopping ~> ~stopping)

\* The second loop waits for a result that no task will send: the first loop
\* met the upgrade before it had made Requests tasks.
Stranded ==
    /\ pc = "rest" /\ from < SwitchOn /\ next - Requests < from
    /\ taskCh = <<>> /\ Running = {} /\ completed = <<>>

\* The service stops once the last supported round is in the ledger
\* (handleUnsupportedRound, catchup/service.go:811-832), unless the second
\* loop of pipelinedFetch is left without a task.
UnsupportedStops ==
    PeersFound => (last = SwitchOn - 1 /\ pc # "off" ~> cancelled \/ pc = "off" \/ Stranded)
=============================================================================
