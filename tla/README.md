# Novarand in TLA+

Novarand is a proof-of-stake blockchain node in Go, a fork of go-algorand. This
directory holds TLA+ models of the node, the TLC configurations that check them
on small instances, and TLAPS proofs about them. `PROJECT.json` is the index: it
gives, for every definition that models code, the lines it models, and lists
runs, mutants, findings, hazards and theorems.

    tlc -workers 2 -config MCAgreementCrash.cfg MCAgreement     # one run
    tlapm AgreementProofs.tla                                   # one proof module

Paths below are relative to `src/`.

## 1. The system

| part | state | operations | what makes it hard |
|---|---|---|---|
| agreement: player (`agreement/player.go`) | round, period, step, nap, deadlines, pending blocks | timeouts, fast timeouts, verified votes, bundles and blocks, round interruption, checkpoint | every node runs it at its own speed; messages are lost and reordered; the process may die after any step |
| agreement: vote machines (`voteTracker.go`, `voteAuxiliary.go`, `voteAggregator.go`) | votes and weights per step, cached next thresholds per period, freshest event per round | vote accepted, vote filtered, bundle verified, freshest bundle asked for | equivocation changes counts after the fact; thresholds arrive in any order |
| agreement: proposal machines (`proposalTracker.go`, `proposalStore.go`, `proposalManager.go`) | lowest proposal and staged value per period, relevant values, pinned value, blocks | proposal-vote, block received, block validated, soft/cert threshold, new period, new round | only a few blocks are kept; the right ones must be; the next round is pipelined |
| agreement: router (`router.go`) | tree of round, period and step machines | dispatch, update (creation and collection) | collects state that late messages still refer to |
| agreement: service (`service.go`, `actions.go`, `persistence.go`, `pseudonode.go`, `demux.go`, `cryptoVerifier.go`) | crash database, queues of events, tasks and verifications | main loop, demux loop, persistence loop, vote and proposal tasks, restore | a vote must not leave before the state is durable; bounded channels between goroutines |
| ledger (`ledger/`, `data/ledger.go`) | block queue, block and tracker databases, deltas | add block, flush, notify, wait, look up, evaluate | blocks are visible before they are durable; the trackers lag behind the blocks |
| catchup (`catchup/`) | pipeline of fetched blocks, peer ranks | fetch, retry, pipeline, sync to a certificate | races with agreement for the same round |
| transaction pool (`data/pools`, `data/txHandler.go`) | pending and remembered groups, pending evaluator | remember, new block, assemble | recomputation races with assembly deadlines |
| network (`network/`) | peers, phonebook, filters, queues | connect, broadcast, filter, prune | rate limits and provisional reservations |
| participation keys, compact certificates, utilities, node, RPC, tools | see `PROJECT.json` | | |

**How the parts of agreement interact.** The demux loop takes one external event
at a time (a message, a verification result, a timeout, a checkpoint, a new
ledger round) and hands it to the main loop. There the root router passes it to
the player, which dispatches queries and events through the router to the vote
and proposal machines, changes its state and returns a list of actions. The demux
loop executes them: relay, verify, ensure the block in the ledger, make proposals
or votes. So one event is one atomic step of a node, which is the grain of action
in these models. The exceptions are the asynchronous ones: the state is encoded
when an attest action is executed and written by the persistence loop while
further events are handled; the vote waits for that write.

**How the other parts meet agreement.** The block of a round is written by
agreement (`EnsureBlock`) or, when a certificate came without its block or the node
is behind, by catchup (`AddBlock`); both may write the same round. The block queue
makes it durable later and tells those who wait, among them agreement's
persistence loop, which writes the player's state only after the blocks it builds
on. A second goroutine of the ledger moves the accounts to the tracker database,
some rounds behind, so that agreement can look up balances of the past.

**What must hold.** No two blocks are certified for a round (safety). Everyone
gets the block of a round that has a certificate (availability, liveness). An
honest node does not equivocate, whatever crashes. The stores keep what safety
needs and little else. A lookup answers for exactly the round it was asked. What a
node was told is durable is still there after a crash, and the node can load it.
Services can be stopped. The panics in the code, which guard these facts, are not
reached.

## 2. Modules

| module | models | kind |
|---|---|---|
| `VoteTracker` | `agreement/voteTracker.go`, the bundle it builds | component |
| `Freshness` | the order of threshold events (`agreement/events.go`) | operator, shared |
| `Agreement` | one round of every honest node: player with its machines, crash and restart | composition |
| `RoundOutcome` | what a round promises (`agreement/abstractions.go`, `LedgerWriter`) | abstract specification |
| `AgreementInv` | the inductive invariant of `Agreement` | properties |
| `ProposalStore` | the proposal machines of one node and round, with the validation contexts | component |
| `Service` | the loops of the agreement service, vote tasks, crash database | composition |
| `Ledger` | block queue, trackers, commits, lookups and waiters of one node | composition |
| `LedgerInv` | the inductive invariants of `Ledger` | properties |
| `BlockLog` | what the ledger promises to writers and waiters | abstract specification |
| `Catchup` | the catchup service: periodic sync, pipeline and its workers | composition |
| `MC*` | constants for TLC | instances |
| `VoteTrackerProofs`; `AgreementProofs`; `ProposalStoreProofs`; `ServiceProofs`; `LedgerProofs`, `LedgerSteps`, `LedgerAccounts`; `CatchupProofs` | theorems | proofs |

### VoteTracker

Variables are the fields of the Go struct, plus `panicked` (the process died in
`log.Panicf`) and `emitted` (the events returned). `FirstVote`, `Equivocation` and
`DropVote` are the paths of `handle` on `voteAccepted`: a new sender, a sender
seen with another value, a repetition or an equivocator. Each ends in `Conclude`,
the comparison of `overThreshold` before and after. `Dropped` is the answer to a
filter request. `genBundle` packs by weight, largest first, until the quorum.

### Agreement

`node[n]` is what a node has in memory for the round, `disk[n]` what it would
restore, `votes` every vote issued, `ledger[n]` the block it has ensured.

* *Timeouts.* `SoftTimeout` is `issueSoftVote`; `CertTimeout`, `NapTimeout` and
  `NextTimeout` are the three cases of a timeout after the filter step;
  `FastTimeout` is `issueFastVote`. `SoftVote` and `NextVote` are the choice of
  value, kept exactly as the code has it.
* *Thresholds.* `ThresholdEvent` delivers a quorum to a node: `bundleFresh` from
  the aggregator, `Observe` and `StaleThreshold` from the period and round
  machines, then `handleThresholdEvent`'s cert, soft and next cases, each with
  what the proposal machines do with the event (stage, pin, trim) and what the
  player then does (end the round, cert-vote, enter a period).
* *Blocks.* `PayloadVerified` is a valid block's arrival. `ProposalVote` is what
  proposal-votes do to the blocks held; which ones remain relevant depends on
  votes not modelled here, so any set that contains the protected ones (`Kept`).
  Those are the pinned block and the staged one, unless it was staged `Loose`: a
  soft threshold for a block that is already held for another period returns
  before it is made relevant for this one (`StagesLoose`,
  `proposalStore.go:315`).
* *Crashes.* `Attest` writes the state and then sends the vote, or, when the node
  is one of `Crashing`, fails to write, drops the vote and goes on. `Crash`
  returns to `disk[n]`; a block not yet durable is lost with it. Without `DiskKept`
  the restart also empties `disk[n]`.
* *Collection.* A certificate for a period whose trackers the router has dropped
  ends the process (`Collected`, `Restart`); see the findings.

What is abstracted. Sortition: every honest node attests in every step, and the
sets `SoftQuorums`, `CertQuorums` and `NextQuorums` are the honest members of a
committee's quorums, corrupt members voting for anything and twice. A vote in
`votes` need never be sent or learnt. Deadlines: timeouts happen in any order the
steps allow. Three constants say what a run or a theorem takes for granted beyond
the code:

* `Timely`, the nodes never so far behind that their fast recovery deadline, minutes
  away, is handled before their own soft and cert deadlines, seconds away.
  `issueFastVote` has no such guard, and `demux.next` picks at random among
  deadlines that have passed.
* `StagedKept`: no block is staged loose.
* `DiskKept`: a node that has restarted does not die again before it has written
  its state.

No passing run needs `Timely`: in `agreement_live` it is empty, and in
`agreement_crash` there is no fast recovery. `StagedKept` holds in
`agreement_crash` only. The runs `agreement_restart` and `agreement_recovery`
show what happens without them, findings 2 and 5; section 5 says which theorems
have which as a hypothesis.

Why one atomic `Attest` is right. The player moves on while its state is written,
and may die before or after the write, before or after the vote is sent. All of
these are behaviours of the model: move without writing (`Become`), write and vote
with the vote never learnt, then `Crash`. The vote is never sent without the
write, because `pseudonodeVotesTask` waits for the checkpoint.

### RoundOutcome

`certified` holds at most one value, once set it stays, and a ledger takes only
that value. `Agreement` implements it with `certified` the set of values that
have a cert quorum (`ImplementsOutcome`).

### ProposalStore

One node and one round, from the time the node is in the round before (phase
"before") to the end of the round. `ProposalVote`, `PayloadPresent`,
`PayloadVerified`, `Threshold`, `SoftTimeout`, `CertTimeout`, `EnterRound` and
`Interruption` are the events of `proposalManager` and of the player that reach
the three machines; `trim`, `handleNewPeriod`, `stage`, `manage` and
`lastRelevant` are their helpers. `verifying` is the set of blocks under
validation with their cancellation keys: a new one under the same key may cancel
the old one or come too late. The other nodes are the constant choice `quorums` of
thresholds that form, among all those `Agreement` allows. A block that fails
validation, authenticators, and crashes are left out. `StagedStaysRelevant` is
about blocks that are staged and relevant; the early return of
`proposalStore.go:315`, which leaves one staged and not relevant, is outside it and
is followed to its consequence in `Agreement`.

### Service

The goroutines between an attest action and the vote on the wire. The main and
demux loops hand over to each other on unbuffered channels and are one loop here:
it executes `act` or waits in `demux.next`. `HandleAttest`, `HandleCertificate`
and `HandleInterruption` are events that make the player act; `TakeCheckpoint`,
`TakeVote` and `SkipClosed` take from the queue of the pseudonode's channels, in
order. `DoAttest` is `pseudonodeAction.do` up to the write request (a channel of
capacity one), `DoEnqueue` the rest of it, `DoCheckpoint` the send of the result
to the vote task, `DoRelay` the vote leaving. `WriterTake` and `WriterWrite` are
the persistence loop, which waits for the ledger before it writes. `TaskMake`,
`TaskRelease` and `TaskCancel` are `pseudonodeVotesTask.execute`. `Catchup` and
`SyncBlocks` are the rest of the node, `Shutdown` and `Exit` the end of the
service, `Restart` the end of the process and `restore`. The player is its round
and the number of attest actions in it; a restored one may attest to another value.

A vote is protected twice: its task waits until the checkpoint action closes the
channel `done`, and its votes queue behind the checkpoint event in `demux.queue`.

### Ledger

`latest` is the end of the block queue, `committed` what the block database has,
`dbRound` what the tracker database has as far as memory knows, `db` the database
itself. `Eval`, `Validate` and `AddValidatedBlock` are the two services that add
blocks; `SyncTake`, `SyncPut`, `SyncFail`, `Notify`, `Produce`, `Send` and `Forget`
the steps of `blockQueue.syncer` with `notifyCommit` and `scheduleCommit`;
`CommitTake`, `CommitWrite`, `CommitFail` and `CommitPost` those of `commitSyncer`.
`Lookup`, `LookupDatabase`, `LookupCompare` and `LookupAgain` are both lookups,
interleaved with commits between any two of them. `Crash`, `Panic` ("block too far
in the future") and `Restart` end and begin a process. The value of an account is
the round and the payee of the last block that touched it, which is what tells two
answers apart. `effects` and `wrong` are history variables.

`BlockLog` is the promise: a log with a durable prefix, a crash loses the rest,
who is told of a round is told of a durable one.

### Catchup

`Start`, `Stop`, `StopReturn` and `Leave` are the life of the service;
`TimerSync`, `TimerAgain`, `LedgerMoved`, `TakeCertificate`, `CertFetched`,
`CertDropped`, `CertNobody`, `CertAgain` the turns of `periodicSync` and of
`fetchRound`, which without a peer goes round its loop and looks at no context; `Fill`, `Extend`, `Receive`, `NoPeers`,
`Abandon`, `Drained` and `SyncEnd` those of `pipelinedFetch` and `sync`. A worker
takes a task and goes through `fetchAndWrite` step by step: the `Fetch*` actions,
`LookbackThere`, `Authenticate`, `PrevComplete`, `Evaluate`, `Write`, `Aborted`,
`Report`. A round found in the ledger before it is evaluated is a failure to the
worker, as in the code, and is asked for again. `chan` holds what is left in the completion channels. The ledger is its
last round and the last one on disk; agreement extends it at any moment. Peers
answer with the block, with another or not at all.

## 3. Runs

| run | instance | states, time | shows |
|---|---|---|---|
| `vote_tracker` | 4 senders, weights 1 2 1 1, threshold 4, 3 values | 24 000, 5 s | counters exact, threshold announced once and exactly at the quorum, bundle verifies |
| `agreement_crash` | 2 nodes, 2 values, periods 0-1, n1 crashes, fails to write and drops blocks that are not staged | 167 000, 80 s | one certificate, no equivocation, the certified value survives recovery, its voters have the block, refinement of `RoundOutcome` |
| `agreement_live` | 2 nodes, 1 value, periods 0-1, recovery steps 3-4, n1 fast-votes and naps at any time, n2 loses staged blocks, fair | 89 000, 95 s | a certificate ends the round everywhere; a node's cert vote binds its recovery votes while it has the block, and none follows a next vote |
| `agreement_old` | as `agreement_live`, periods 0-4, value new in period 2 | | **violation**, finding 1 |
| `agreement_restart` | as `agreement_crash`, without `DiskKept` | | **violation**, finding 2 |
| `agreement_recovery` | 2 nodes, 2 values, periods 0-1, nobody crashes; n1 fast-votes at any time, n2 loses staged blocks | | **violation**, finding 5 |
| `proposal_store` | 2 values, 2 proposers, periods 0-1 | 542 000, 35 s | at most one pipelined block, relevant values reported, pinned and staged ones kept |
| `service` | 2 rounds, 2 attest actions each, backlog 1, one write fails, one step without votes, one crash, fair | 127 000, 50 s | no vote leaves that a restored player does not know, votes leave in order, the row stays behind the ledger, no action blocks, `Shutdown` returns |
| `service_checkpoint` | a step without votes whose write fails, fair | | **violation**, finding 3 |
| `ledger` | 4 rounds, 1 account, 2 writers, lookback 1, transaction life 2, one crash, fair | 78 000, 45-70 s | lookups, database and counts exact, recoverable, lookback kept, refinement of `BlockLog`, waits and lookups end |
| `ledger_replay` | the same with certificate voters | | **violation**, finding 4 |
| `catchup` | 3 rounds, upgrade in the last, 2 in parallel, lookback 1, 2 retries, 2 starts, fair | 62 000, 95 s | lookback round in the ledger, no worker blocks, suspension keeps the timer, the ledger catches up, `Stop` returns, the service stops before an upgrade it does not know |

**Why these bounds.** *Agreement.* Disagreement needs two values and two periods:
one value certified in the first and another brought in by recovery. Two honest
nodes are the two sides of every intersection argument, the quorum families giving
them different powers: with `Either` for certificates one node certifies alone
with corrupt help, `Both` for recovery makes every next quorum intersect it,
`First` breaks the tie between soft quorums. The theorems hold for any number of
each. Recovery steps and naps behave alike after the first, so steps 3 and 4 are
enough. A period is collected when it is greater than 1 and two behind, so five
periods are the least that show it. Committee members of different weight are
needed for packing, and three values for two equivocations that leave a third.
*Service.* Two attest actions in flight overlap in the write channel, the
persistence loop and the backlog; two rounds let one be left behind. One value is
enough because the steps of votes already tell them apart; the safety part also
holds with two (961 000 states). *Ledger.* Four rounds with a lookback of one let a
second task be scheduled while the first is committed, and a block be forgotten;
the writers overlap in round 2, and round 3 touches no account, so a cached entry
stays valid over it. *Catchup.* Three rounds and two requests make rounds complete
out of order, the pipeline be refilled and drained, and a retry overtake; the
safety part also holds with four rounds and lookback 2 (432 000 states), where the
channels of the lookback and of the previous round are different ones, and is
proved for all values (`LookbackAvailable`). Only liveness is checked with the two
the same. Deadlock is not checked anywhere: a round ends, a service is
stopped or has nothing to do, or the bound on rounds or periods is reached.

**Fairness.** Nothing is assumed of timeouts, of soft or next thresholds, of
failures, crashes or calls from outside.

* `Agreement`: weak fairness, for each node, of learning each certificate and
  receiving each block. Freshest bundles and their blocks are rebroadcast at every
  later step (`partitionPolicy`) and catchup fetches what is certified. The live
  run ends before a period can be collected; after that the property fails
  (finding 1).
* `Service`: each goroutine goes on when it can, and blocks reach the disk. Strong
  fairness of taking from the queue and of `Exit`: `demux.next` selects among
  several ready channels, so each is taken again and again, not always.
* `Ledger`: the goroutines run, a transaction of the block database does not fail
  for ever (the syncer retries), and `trackerMu`, a Go mutex, admits no new reader
  while `notifyCommit` waits for it.
* `Catchup`: the goroutines run and the timer fires. Strong fairness of the
  alternatives of a `select`, and of a peer giving the right answer for a round
  that is asked for again and again: the retry limit does not end the sync, only
  the next timer starts it anew. The liveness properties have the premise
  `PeersFound`: `fetchRound` does not look for a peer in vain for ever.

**Mutants.** Every property of a passing run has a mutant: a definition replaced
by the operator in front of it marked "Fault", which the run then refutes.

## 4. Findings

1. `agreement_old`. `bundleFresh` lets cert bundles of old periods through, but
   `roundRouter.update` creates and at once collects the trackers of a period
   p > 1 two or more behind, and `dispatch` dereferences the missing entry. The
   node dies on the certificate that should end its round, every time.
   `player.go` says that such a certificate "will prevent losing the block".
2. `agreement_restart`. A restarted process executes the restored attest action
   before it has set the fields `persistState` encodes, and so writes a zero player
   over the state it has just restored. If it dies again before its next vote, it
   starts the round anew and may vote against itself: `agreement/README.md` promises
   that `agreement` "will also recover safely after crashes". Restoring these fields
   in `mainLoop` together with the player would be enough: that is the model with
   `DiskKept`, for which safety is proved.
3. `service_checkpoint`. `checkpointAction.do` sends the error of a failed write on
   an unbuffered channel. The task that would receive it has ended if it had no
   vote or was cancelled; the demux loop then blocks for ever, and `Shutdown` with
   it, which "returns after all resources have been cleaned up".
4. `ledger_replay`. `AddBlock` leaves the voters of the certificate in a field of
   the ledger, and the evaluator pays the fees to them. After a restart the blocks
   the tracker database lacks are evaluated with that field empty, so
   `trackerEvalVerified` does not "reconstruct" what was applied. `Validate`
   evaluates without voters too, and two services that add blocks may read each
   other's. The properties of `ledger` are checked with certificates without voters.
5. `agreement_recovery`. Two ways for a node's recovery votes to contradict its
   cert vote meet. n1 is suspended; when it goes on, its fast recovery deadline is
   handled before its cert deadline, and it votes down for bottom and then
   cert-votes. n2 holds the block for another period when the soft threshold comes,
   so that it is staged loose; it cert-votes, a proposal-vote drops the block
   (`proposalStore.go:315`, `:354`), and n2 recovers with bottom. The value has a
   certificate nobody has seen, period 1 starts from bottom, and another value is
   certified. `abstractions.go:190` says that `EnsureBlock` is "never" called for
   both, `player.go:205` that "if a player has voted for a value, they have the
   block". Either way alone already weakens the intersection of quorums the proof
   rests on: with certificates by either node, dropped blocks are enough. A test of
   the step in `issueFastVote`, and making the value relevant before the early
   return, exclude both; that is the model with `Timely = Honest` and `StagedKept`,
   for which safety is proved.

Met without a run of their own, in the catchup service. A sync that starts with
fewer rounds than `parallelRequests` before an unsupported upgrade may wait for a
round before its first one, and then neither stops nor reports the initial sync as
done; `UnsupportedStops` names that state (`Stranded`) as the one exception to
"Checks if the last supported round was added to the ledger, and stops the service"
(`catchup/service.go:812`), and fails without it. `fetchRound` without peers ignores
its context (`catchup/service.go:724`), so that `Stop` waits for a peer to turn up;
`StopReturns` fails without the premise `PeersFound`.

Elsewhere: a cancelled validation leaves the assembler filled, and the block is refused
when it comes again (`cryptoRequestContext.go:88`); the `Panic` of
`acctupdates.go:546` is reachable in `Ledger` when a commit ends between the two
reads of `dbRound`; `catchup/service.go:555` deletes the wrong entry of
`completedRounds`, which only wastes memory; `InitialSyncDone` is not closed again
after a second `Start` (`catchup/service.go:138`).

## 5. Theorems

All are for any values of the constants that satisfy the named assumptions of the
module. A leaf that names no prover has 30 seconds of each (`USE SMTT(30),
ZenonT(30)`). Most leaves name `Zenon`: tlapm's memory grows with every SMT
translation, and a leaf that is only first-order reasoning does not need one. SMT is
left where there is arithmetic, or functions and records to compute with.

The prover cannot use the library's induction theorems, which take a predicate.
Where something must hold of every finite set or every number, the proofs take
instead the set of the counterexamples and a least one among them (`Least`, from
`WFMin` of `WellFoundedInduction`), and derive a smaller one.

*VoteTrackerProofs* assumes positive weights and threshold. `TrackerTypeOK`;
`TrackerEmitsOnce`: once a value is over the threshold it stays, so the comparison
before/after cannot succeed twice; `TrackerThresholdStable` and
`TrackerFilterStable` are the action properties of the same argument. The second
half is about sums. That the recursive function behind `TotalWeight` exists on
finite sets (`SumsExist`), and what it does when a vote is added or taken away
(`SumAdd`, `SumRemove`), is shown by a least counterexample. With that
`TrackerCountsExact` says that the counters are the sums of the votes they stand
for, `TrackerThresholdExact` that an event is emitted exactly for a quorum, and
`TrackerBundlesVerify` that `genBundle`, which packs the heaviest votes first, stops
with a quorum, no vote twice and no more votes than the threshold.

*AgreementProofs* assumes what the module `Agreement` does: two soft quorums share
an honest node, a cert and a next quorum share an honest node, no cert quorum is
without one. There are two inductive invariants.

`BindInv` needs only `DiskKept`. It gives `PlayerTypeOK` and `CertVotersRecover`
(`CertBindsNext`): however early a node fast-votes and whatever its store drops, what
it votes in recovery after a cert vote is for that value as long as it has the block,
and it does not cert-vote after a next vote. It says that a node soft-votes once
(`SoftOnce`), that what it cert-voted in its current period is staged there, in memory
and on disk, and that its steps are at or past its votes (`BoundNodes`), and that
a cert vote rests on a soft quorum (`CertJustified`). Two soft quorums share an
honest node, so nothing else can be staged later.

The second, `SafetyInv`, also needs `Timely = Honest` and `StagedKept`: what it says
of certificates is false without them (finding 5). It says:

* each node, in memory and on disk, is at or past everything it voted
  (`VotesBehind`), remembers only quorums that exist (`StagedSound`,
  `StatusSound`, `FreshestSound`, `EnteredSound`), holds the block it cert-voted
  in this period (`CertHeld`) and, pinned, one it cert-voted before while that may
  still be certified (`PinnedHeld`);
* votes are unique per step (`VotesOnce`), soft votes rest on a next quorum of the
  period before (`SoftJustified`), cert and late votes on a soft quorum;
* a value is `Choosable` in a period while a cert quorum has voted it or has not
  passed the step. Recovery votes of its cert voters are for it (`CertBinds`,
  `RecoveryBinds`), and so are later soft quorums (`SoftKeeps`).

Choosable only shrinks: once a node of each cert quorum has recovered with
something else the value is lost. That is what makes the invariant inductive; with
"certified" in its place, a certificate completed late would find nodes that have
pinned other blocks. The same conditions on the disk state make a crash a step that
preserves the invariant, which is where writing before voting is needed.
The module first proves what a new vote does to quorums and choosability, then one
lemma per action, and combines them: `Safety`, and from it `RoundSafety`,
`NoEquivocation`, `RecoveryAgrees`, `BlockAvailable`, `CommitsAreCertified` and
`Refinement`, all under the three hypotheses.

*ProposalStoreProofs*: `StoreTypes`, `OneBlockPipelined`, `RelevantReported` and the
action properties `PinnedStays` and `StagedStays`. The invariant `PInv` says that
nothing is staged in a period but the value the period's soft quorum is for, that
what is relevant there is staged or the lowest proposal (`Sound`), that the freshest
threshold is one the quorums allow (`EventOK`), and that before its round a store
holds at most the one block of period 0 (`PipelineOK`). For the pinned block, `trim` and the pinning of a newly staged value are
followed through every threshold (`Same`): whatever a threshold drops, the block
that is pinned before and after is kept.

*ServiceProofs*: `ServiceTyped` and `RowWithinLedger` without further assumption;
`VotesAreKnown` and `VotesAreOrdered` if the process dies at most once. The
invariant gathers every vote the service still knows of (`Known`: in an action, a
task, a write request, an event, on disk, sent) and says that all are behind the
player and no two of the same step differ (`KnownOK`), that tasks are in the order
of their votes (`OrderOK`) and, while the process has not died, that writes are in
the order of the states they save (`WritesOK`) and that what was acknowledged or
sent is behind the row on disk (`SavedOK`). The last two do not survive a restart:
the restored loop saves a zero state with the vote it repeats. A second death then
finds that zero, which is finding 2, and the theorems need the bound.

*LedgerProofs*: `AlwaysRecoverable`, `LookbackStays` and the refinement
`LedgerIsLog`. The two goroutines act on values they read earlier; the invariant
says what still holds of each when it is used: the round the syncer may forget up
to is in the database and out of the transaction tail's reach (`Mins`), a task made
from an old round of the database still ends before the lookback (`OldTasks`), the
database is at `dbRound` or, between a commit and its `postCommit`, ahead by the
deltas of the commit (`CommitOK`). With that, what remains of a stale task fits the
deltas (`RemainingFits`). For the refinement a block about to be added is at most
the next one (`AddOK`), and notifications are of committed rounds.

*LedgerSteps*, *LedgerAccounts*: `DatabaseStaysExact`, `LookupsExact`,
`CountsStayExact` and `LedgerTypes`, from the invariant above and a second one, `Exact`.
`effects` has what every round did to the accounts. The deltas in memory, those of a
commit and those replayed after a restart are all slices of it (`SlicesOK`), and
what an account is worth after a round is decided by the last round up to it that
touched the account. So a commit, which keeps only the last value of each account,
writes what all its rounds together do; the counts are the number of touches of a
slice (`AccountsOK`), which add up over adjacent slices; and an entry of the cache,
or one promoted by a lookup and not yet written there, is right for as long as no
flushed round touches the account (`Fresh`, `CacheOK`). A lookup works on stale
values: it leaves the lock with the round it has seen, and reads the database after
any number of commits. `ReaderOK` says what it may rely on: the account is the same
after all rounds it is to answer for, and the round it saw has the answer, which is
the only round of the database it accepts. The lemmas of the steps have two facts of set theory as a
hypothesis, `Laws` (a set of numbers has a least one, touches can be counted);
`LawsHold` proves it, and the theorems have no such hypothesis. `LedgerInv` has both
invariants, `LedgerSteps` the lemmas on slices, counts and cache and the steps that add,
commit, stop and restart, `LedgerAccounts` the lookups and the theorems. All
use one assumption more, `NoneAssumption`: an absent entry is told from a present one.

*CatchupProofs*: `CatchupTyped`, `LookbackAvailable`,
`PipelineNeverOverfull` and `SuspensionKeepsTimer`. Outstanding tasks are counted
against the rounds whose result was read: rounds up to `next - Requests` have been
seen before `next` is extended, and the outstanding tasks and the seen rounds
together are no more than the rounds handed out (`CountOK`). A channel reports success
only of rounds in the ledger (`ChanOK`), and a task past its lookback channel has
read such a report (`TaskOK`). The lemmas are those of the steps of a worker, then
those of the main goroutine.

Every invariant was checked by TLC, on the instances of the runs, before it was
proved. Only model-checked: liveness (fairness and `ENABLED` are beyond the prover).

## 6. Not modelled

* *Agreement.* Cryptography and sortition weights, wire formats, logging and
  telemetry; relaying (`voteFresh`, `filterVote`) and `partitionPolicy`'s broadcasts,
  which only decide what others learn, and `Agreement` lets anything be learnt late
  or never; the values of deadlines and the clock; several rounds of the protocol in
  one behaviour; the queues of the crypto verifier; proposal tasks of the
  pseudonode; the encoding of the saved state. In `ProposalStore`, a block that fails
  validation, authenticators, and crashes.
* *Ledger.* Archival mode, reloading in the same process, catchpoint files; what
  shortens a commit, the voters tracker (`voters.lowestRound`) and an upgrade among
  the rounds to commit (`consecutiveVersion`, `acctupdates.go:550`); creatables and totals, which follow the
  path of accounts; the rules of each transaction type, which are sequential
  transformations of balances.
* *Catchup.* Which peer is asked, the refresh of connections, catchpoint catchup,
  which replaces the ledger in stages of its own.
* *Elsewhere.* The transaction pool drives the evaluator, which is not modelled;
  the network, the participation registry and the thread pools are represented by
  messages, keys and tasks that may be late or missing; compact certificates are a
  protocol of their own; the AVM, cryptography, REST and command line are sequential
  or I/O. `PROJECT.json` gives the reason for each component, and for each hazard
  that no property covers.
