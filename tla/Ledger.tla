------------------------------- MODULE Ledger -------------------------------
(***************************************************************************)
(* The ledger of one node: the block queue and its syncer goroutine        *)
(* (ledger/blockqueue.go), the trackers that follow it, with the account   *)
(* deltas kept in memory and their deferred commit by a second goroutine   *)
(* (ledger/tracker.go, ledger/acctupdates.go, ledger/lruaccts.go), the     *)
(* channels of Wait (ledger/bulletin.go), the two services that add        *)
(* blocks, a client that looks an account up, and crashes.                 *)
(*                                                                         *)
(* A block is the set of accounts its transactions touch.  Its effect also *)
(* depends on who is paid its fees: the voters of the certificate it was   *)
(* added with, or the fee sink (ledger/internal/eval.go).  The value of an *)
(* account is the round of the last block that touched it and who was paid *)
(* then.                                                                   *)
(***************************************************************************)
EXTENDS Naturals, FiniteSets, Sequences, FiniteSetsExt

CONSTANTS
    Addr,             \* accounts
    Agreed,           \* the block agreement reaches for each round
    Writers,          \* the services that add blocks
    Validators,       \* those of them that validate a block before adding it
    Offered,          \* the rounds each service obtains the block of
    Payees, sink,     \* the voters of a certificate; the fee sink
    CertOf,           \* the voters of the certificates of a service, or none
    MaxBalLookback,   \* rounds of deltas kept in memory (320)
    MaxTxnLife,       \* rounds of blocks the transaction tail needs (1000)
    Waits,            \* rounds clients wait for
    MaxRound,         \* bound: last round of a behaviour
    MaxCrashes,       \* bound: crashes of a behaviour
    none

ASSUME LookbackAssumption ==
    /\ MaxBalLookback \in Nat \ {0}
    /\ MaxTxnLife \in Nat \ {0}
    /\ MaxRound \in Nat
    /\ MaxCrashes \in Nat
    /\ Waits \subseteq 1..MaxRound

ASSUME PayeesAssumption ==
    /\ Agreed \in [1..MaxRound -> SUBSET Addr]
    /\ Offered \in [Writers -> SUBSET (1..MaxRound)]
    /\ CertOf \in [Writers -> Payees \cup {none}]
    /\ sink \notin Payees
    /\ none \notin Payees \cup {sink}

VARIABLES
    up,         \* the process runs
    crashes,    \* crashes so far
    latest,     \* the last block: of blockQueue.q, or of the block database
    committed,  \* blockQueue.lastCommitted, the last block in the database
    earliest,   \* the oldest round the block database still has
    syncer,     \* blockQueue.syncer
    adding,     \* per service: the evaluated block it is about to add
    effects,    \* history: the effect that was applied for each round
    deltas,     \* accountUpdates.deltas, the rounds after dbRound
    accounts,   \* accountUpdates.accounts
    base,       \* lruAccounts.accounts
    pending,    \* lruAccounts.pendingAccounts
    dbRound,    \* trackerRegistry.dbRound and accountUpdates.cachedDBRound
    db,         \* the tracker database
    deferred,   \* the deferredCommits channel, of capacity 1
    commit,     \* the commit under way in commitSyncer
    notified,   \* bulletin.latestRound
    waits,      \* the bulletin: what became of each Wait
    reader,     \* a lookup under way
    wrong       \* history: the answers that were not the account's value

acctVars == <<deltas, accounts, base, pending, dbRound>>
dbVars == <<db, deferred, commit>>
waitVars == <<notified, waits>>
readVars == <<reader, wrong>>
vars == <<up, crashes, latest, committed, earliest, syncer, adding,
          effects, deltas, accounts, base, pending, dbRound, db, deferred,
          commit, notified, waits, reader, wrong>>

-----------------------------------------------------------------------------
(* Effects of blocks, and what accounts are worth after them.              *)

Idle == [pc |-> "idle"]

Genesis == <<0, sink>>

\* The fees of a block go to the voters of its certificate, or to the fee
\* sink if there are none.
Effect(r, v) ==
    [round |-> r, touched |-> Agreed[r], payee |-> IF v = none THEN sink ELSE v]

Hits(es, x) == {i \in DOMAIN es : x \in es[i].touched}

Value(e) == <<e.round, e.payee>>

\* The value of an account that was v before the effects es.
ValueAfter(v, es, x) ==
    IF Hits(es, x) = {} THEN v ELSE Value(es[Max(Hits(es, x))])

Untouched == [ndeltas |-> 0, data |-> Genesis]

Entry(p) == [round |-> p.round, data |-> p.data]

\* lruAccounts.write: an entry only replaces an older one.
Written(old, new) ==
    IF old = none \/ old.round < new.round THEN new ELSE old

\* flushPendingWrites, for one account.
Flushed(x) ==
    LET ps == {p \in pending : p.addr = x} IN
    IF ps = {} THEN base[x]
    ELSE Written(base[x], Entry(CHOOSE p \in ps : \A q \in ps : q.round <= p.round))

\* The counts and latest values of newBlockImpl, one effect after another.
Counted(as, es) ==
    [x \in Addr |->
       IF Hits(es, x) = {} THEN as[x]
       ELSE [ndeltas |-> as[x].ndeltas + Cardinality(Hits(es, x)),
             data |-> ValueAfter(as[x].data, es, x)]]

-----------------------------------------------------------------------------
Init ==
    /\ up = TRUE
    /\ crashes = 0
    /\ latest = 0 /\ committed = 0 /\ earliest = 0
    /\ syncer = Idle
    /\ adding = [w \in Writers |-> none]
    /\ effects = <<>> /\ deltas = <<>>
    /\ accounts = [x \in Addr |-> Untouched]
    /\ base = [x \in Addr |-> none]
    /\ pending = {}
    /\ dbRound = 0
    /\ db = [round |-> 0, accts |-> [x \in Addr |-> Genesis]]
    /\ deferred = <<>> /\ commit = Idle
    /\ notified = 0
    /\ waits = [r \in Waits |-> "no"]
    /\ reader = Idle /\ wrong = {}

-----------------------------------------------------------------------------
(* Ledger.trackerMu: notifyCommit keeps it while it schedules a commit, a  *)
(* lookup keeps it for reading.                                            *)

Notifying == syncer.pc \in {"produce", "send"}

Looking == reader.pc \in {"database", "found", "wait"}

-----------------------------------------------------------------------------
(* Adding blocks: EnsureBlock of agreement, fetchAndWrite of catchup.      *)

\* AddBlock leaves the voters of its certificate in a field of the ledger and
\* evaluates the block with what it reads from there: another service may have
\* written its own in between.
Eval(w) ==
    /\ up
    /\ adding[w] = none
    /\ latest + 1 \in Offered[w]
    /\ \E u \in Writers :
         adding' = [adding EXCEPT ![w] = Effect(latest + 1, CertOf[u])]
    /\ UNCHANGED <<up, crashes, latest, committed, earliest, syncer, effects,
                   acctVars, dbVars, waitVars, readVars>>

\* Validate evaluates with no voters.
Validate(w) ==
    /\ up
    /\ w \in Validators
    /\ adding[w] = none
    /\ latest + 1 \in Offered[w]
    /\ adding' = [adding EXCEPT ![w] = Effect(latest + 1, none)]
    /\ UNCHANGED <<up, crashes, latest, committed, earliest, syncer, effects,
                   acctVars, dbVars, waitVars, readVars>>

\* Fault: a block that is there already is put again.
InLedgerNever(e) == FALSE

\* putBlock: BlockInLedgerError.
InLedger(e) == e.round <= latest

\* putBlock and newBlock; which accounts prune evicts is left open.
AddValidatedBlock(w) ==
    /\ up
    /\ adding[w] # none
    /\ ~Notifying /\ ~Looking
    /\ adding' = [adding EXCEPT ![w] = none]
    /\ LET e == adding[w] IN
       IF InLedger(e)
       THEN UNCHANGED <<latest, effects, acctVars>>
       ELSE /\ latest' = e.round
            /\ effects' = Append(effects, e)
            /\ deltas' = Append(deltas, e)
            /\ accounts' = Counted(accounts, <<e>>)
            /\ \E gone \in SUBSET Addr :
                 base' = [x \in Addr |-> IF x \in gone THEN none ELSE Flushed(x)]
            /\ pending' = {}
            /\ UNCHANGED dbRound
    /\ UNCHANGED <<up, crashes, committed, earliest, syncer, dbVars,
                   waitVars, readVars>>

-----------------------------------------------------------------------------
(* blockQueue.syncer.                                                      *)

SyncTake ==
    /\ up
    /\ syncer = Idle
    /\ committed < latest
    /\ syncer' = [pc |-> "put", upto |-> latest]
    /\ UNCHANGED <<up, crashes, latest, committed, earliest, adding,
                   effects, acctVars, dbVars, waitVars, readVars>>

SyncPut ==
    /\ up
    /\ syncer.pc = "put"
    /\ committed' = syncer.upto
    /\ syncer' = [pc |-> "notify", upto |-> syncer.upto]
    /\ UNCHANGED <<up, crashes, latest, earliest, adding, effects,
                   acctVars, dbVars, waitVars, readVars>>

\* The transaction fails: the queue is kept, and tried again.
SyncFail ==
    /\ up
    /\ syncer.pc = "put"
    /\ syncer' = Idle
    /\ UNCHANGED <<up, crashes, latest, committed, earliest, adding,
                   effects, acctVars, dbVars, waitVars, readVars>>

\* Fault: accountUpdates retains what the database will have after the commit.
RetainedEager(r) ==
    LET accts == IF r < MaxBalLookback THEN 0 ELSE r - MaxBalLookback
        tail == IF r + 1 < MaxTxnLife THEN 0 ELSE r + 1 - MaxTxnLife
    IN Min({r, accts, tail})

\* The oldest round the trackers need: accountUpdates and txTail ask for most.
Retained(r) ==
    LET accts == IF r < MaxBalLookback THEN 0 ELSE dbRound
        tail == IF r + 1 < MaxTxnLife THEN 0 ELSE r + 1 - MaxTxnLife
    IN Min({r, accts, tail})

\* Fault: whoever waits for the last round is not told.
WakesBefore(r, w) == w < r

\* bulletin.committedUpTo(r) tells who waits for w.
Wakes(r, w) == w <= r

\* notifyCommit up to scheduleCommit, which starts by reading dbRound.
Notify ==
    /\ up
    /\ syncer.pc = "notify"
    /\ ~Looking
    /\ notified' = syncer.upto
    /\ waits' = [r \in Waits |->
                   IF waits[r] = "waiting" /\ Wakes(syncer.upto, r) THEN "told"
                   ELSE waits[r]]
    /\ syncer' = [pc |-> "produce", upto |-> syncer.upto,
                  min |-> Retained(syncer.upto), seen |-> dbRound]
    /\ UNCHANGED <<up, crashes, latest, committed, earliest, adding,
                   effects, acctVars, dbVars, readVars>>

Forgetting == [pc |-> "forget", min |-> syncer.min]

\* produceCommittingTask, with the dbRound read before.
TooFar == syncer.upto - MaxBalLookback > syncer.seen + Len(deltas)

Task == [oldBase |-> syncer.seen,
         offset |-> syncer.upto - MaxBalLookback - syncer.seen]

\* No task if nothing is old enough, or if the last flush was too recent.
Produce ==
    /\ up
    /\ syncer.pc = "produce"
    /\ IF syncer.upto <= syncer.seen + MaxBalLookback
       THEN syncer' = Forgetting
       ELSE /\ ~TooFar
            /\ \/ syncer' = Forgetting
               \/ syncer' = [pc |-> "send", min |-> syncer.min, task |-> Task]
    /\ UNCHANGED <<up, crashes, latest, committed, earliest, adding,
                   effects, acctVars, dbVars, waitVars, readVars>>

\* The channel holds one task; the sender waits, with trackerMu.
Send ==
    /\ up
    /\ syncer.pc = "send"
    /\ deferred = <<>>
    /\ deferred' = <<syncer.task>>
    /\ syncer' = Forgetting
    /\ UNCHANGED <<up, crashes, latest, committed, earliest, adding,
                   effects, acctVars, db, commit, waitVars, readVars>>

Forget ==
    /\ up
    /\ syncer.pc = "forget"
    /\ earliest' \in {earliest, Max({earliest, syncer.min})}
    /\ syncer' = Idle
    /\ UNCHANGED <<up, crashes, latest, committed, adding, effects,
                   acctVars, dbVars, waitVars, readVars>>

-----------------------------------------------------------------------------
(* trackerRegistry.commitSyncer.                                           *)

\* Fault: of several updates of an account the first is stored.
StoredFirst(d, es) ==
    [round |-> d.round + Len(es),
     accts |-> [x \in Addr |-> IF Hits(es, x) = {} THEN d.accts[x]
                               ELSE Value(es[Min(Hits(es, x))])]]

\* The accounts of es, each with its last update, and the new round.
Stored(d, es) ==
    [round |-> d.round + Len(es),
     accts |-> [x \in Addr |-> ValueAfter(d.accts[x], es, x)]]

\* Fault: the offset is used as it was when the task was made.
RemainingUnadjusted(t) == Min({t.offset, Len(deltas)})

\* The offset of a task, adjusted to what was committed since.
Remaining(t) ==
    IF t.oldBase <= dbRound /\ dbRound <= t.oldBase + t.offset
    THEN t.oldBase + t.offset - dbRound ELSE 0

\* A task that is out of order, or done already, is dropped.
CommitTake ==
    /\ up
    /\ commit = Idle
    /\ deferred # <<>>
    /\ deferred' = <<>>
    /\ commit' = IF Remaining(deferred[1]) = 0 THEN Idle
                 ELSE [pc |-> "write",
                       es |-> SubSeq(deltas, 1, Remaining(deferred[1]))]
    /\ UNCHANGED <<up, crashes, latest, committed, earliest, syncer,
                   adding, effects, acctVars, db, waitVars, readVars>>

CommitWrite ==
    /\ up
    /\ commit.pc = "write"
    /\ db' = Stored(db, commit.es)
    /\ commit' = [commit EXCEPT !.pc = "post"]
    /\ UNCHANGED <<up, crashes, latest, committed, earliest, syncer,
                   adding, effects, acctVars, deferred, waitVars, readVars>>

CommitFail ==
    /\ up
    /\ commit.pc = "write"
    /\ commit' = Idle
    /\ UNCHANGED <<up, crashes, latest, committed, earliest, syncer,
                   adding, effects, acctVars, db, deferred, waitVars, readVars>>

\* Fault: an account is dropped although later deltas touch it.
ReleasedWhole(as, es) ==
    [x \in Addr |-> IF Hits(es, x) = {} THEN as[x] ELSE Untouched]

\* What postCommit leaves in accounts once es is no longer in the deltas.
Released(as, es) ==
    [x \in Addr |->
       IF as[x].ndeltas = Cardinality(Hits(es, x)) THEN Untouched
       ELSE [as[x] EXCEPT !.ndeltas = @ - Cardinality(Hits(es, x))]]

\* Fault: the cache keeps what it had.
RebasedNot(b, es, r) == b

\* The accounts of es as the database has them now.
Rebased(b, es, r) ==
    [x \in Addr |->
       IF Hits(es, x) = {} THEN b[x]
       ELSE Written(b[x], [round |-> r, data |-> ValueAfter(Genesis, es, x)])]

\* Fault: postCommit takes trackerMu.
CommitPostLocked ==
    /\ up
    /\ commit.pc = "post"
    /\ ~Looking
    /\ LET n == Len(commit.es) IN
       /\ deltas' = SubSeq(deltas, n + 1, Len(deltas))
       /\ dbRound' = dbRound + n
       /\ accounts' = Released(accounts, commit.es)
       /\ base' = Rebased(base, commit.es, dbRound + n)
    /\ commit' = Idle
    /\ UNCHANGED <<up, crashes, latest, committed, earliest, syncer,
                   adding, effects, pending, db, deferred, waitVars, readVars>>

CommitPost ==
    /\ up
    /\ commit.pc = "post"
    /\ LET n == Len(commit.es) IN
       /\ deltas' = SubSeq(deltas, n + 1, Len(deltas))
       /\ dbRound' = dbRound + n
       /\ accounts' = Released(accounts, commit.es)
       /\ base' = Rebased(base, commit.es, dbRound + n)
    /\ commit' = Idle
    /\ UNCHANGED <<up, crashes, latest, committed, earliest, syncer,
                   adding, effects, pending, db, deferred, waitVars, readVars>>

-----------------------------------------------------------------------------
(* Lookups.  Both flavours: with rewards, an entry of the cache only counts *)
(* if it is of the round of the database; without, every entry does, and   *)
(* an account without deltas is answered for all rounds known.             *)

\* The value in the deltas up to round r, or none.
InDeltas(x, r) ==
    LET off == r - dbRound IN
    IF accounts[x].ndeltas = 0 THEN none
    ELSE IF off = Len(deltas) THEN accounts[x].data
    ELSE ValueAfter(none, SubSeq(deltas, 1, off), x)

Cached(l) ==
    /\ base[l.addr] # none
    /\ l.rewards => base[l.addr].round = dbRound

Through(l) ==
    IF ~l.rewards /\ accounts[l.addr].ndeltas = 0 THEN dbRound + Len(deltas)
    ELSE l.through

\* The account after round r.
ValueAt(x, r) == ValueAfter(Genesis, SubSeq(effects, 1, r), x)

\* The lookup returns v, said to be valid from the round asked through r.
Answer(l, r, v) ==
    /\ reader' = Idle
    /\ wrong' = IF \A q \in l.asked..r : v = ValueAt(l.addr, q) THEN wrong
                ELSE wrong \cup {l.addr}

Promoted(x, e) == [addr |-> x, round |-> e.round, data |-> e.data]

\* One turn of the lookup loop, under accountsMu.
Look(l) ==
    LET x == l.addr
        v == InDeltas(x, l.through)
    IN \/ /\ l.through \notin dbRound..(dbRound + Len(deltas))
          /\ reader' = Idle
          /\ UNCHANGED <<pending, wrong>>
       \/ /\ l.through \in dbRound..(dbRound + Len(deltas))
          /\ v # none
          /\ Answer(l, l.through, v)
          /\ UNCHANGED pending
       \/ /\ l.through \in dbRound..(dbRound + Len(deltas))
          /\ v = none
          /\ Cached(l)
          /\ Answer(l, Through(l), base[x].data)
          /\ pending' = pending \cup {Promoted(x, base[x])}
       \/ /\ l.through \in dbRound..(dbRound + Len(deltas))
          /\ v = none
          /\ ~Cached(l)
          /\ reader' = [l EXCEPT !.pc = "database", !.through = Through(l),
                                 !.round = dbRound, !.len = Len(deltas)]
          /\ UNCHANGED <<pending, wrong>>

lookupKept == <<up, crashes, latest, committed, earliest, syncer,
                adding, effects, deltas, accounts, base, dbRound, dbVars,
                waitVars>>

Lookup(x, r, rewards) ==
    /\ up
    /\ ~Notifying /\ ~Looking
    /\ Look([pc |-> "start", addr |-> x, asked |-> r, through |-> r,
             rewards |-> rewards, round |-> 0, len |-> 0, entry |-> none])
    /\ UNCHANGED lookupKept

\* accountsq.lookup, outside accountsMu.
LookupDatabase ==
    /\ up
    /\ reader.pc = "database"
    /\ reader' = [reader EXCEPT !.pc = "found",
                    !.entry = [round |-> db.round, data |-> db.accts[reader.addr]]]
    /\ UNCHANGED <<pending, wrong, lookupKept>>

\* The database may have moved on; it is never behind.
LookupCompare ==
    /\ up
    /\ reader.pc = "found"
    /\ IF reader.entry.round = reader.round
       THEN /\ Answer(reader, reader.through, reader.entry.data)
            /\ pending' = pending \cup {Promoted(reader.addr, reader.entry)}
       ELSE /\ reader' = IF reader.entry.round < reader.round THEN Idle
                         ELSE [reader EXCEPT !.pc = "wait", !.entry = none]
            /\ UNCHANGED <<pending, wrong>>
    /\ UNCHANGED lookupKept

LookupAgain ==
    /\ up
    /\ reader.pc = "wait"
    /\ ~(reader.round >= dbRound /\ reader.len = Len(deltas))
    /\ Look(reader)
    /\ UNCHANGED lookupKept

-----------------------------------------------------------------------------
(* bulletin.Wait.                                                          *)

\* Fault: a round that is only in the queue counts.
HasRoundQueued(r) == r <= latest

HasRound(r) == r <= notified

Wait(r) ==
    /\ up
    /\ ~Notifying
    /\ waits[r] = "no"
    /\ waits' = [waits EXCEPT ![r] = IF HasRound(r) THEN "told" ELSE "waiting"]
    /\ UNCHANGED <<up, crashes, latest, committed, earliest, syncer,
                   adding, effects, acctVars, dbVars, notified, readVars>>

-----------------------------------------------------------------------------
(* The process ends: by a crash, or because a tracker panics.              *)

Die ==
    /\ up' = FALSE
    /\ latest' = committed
    /\ effects' = SubSeq(effects, 1, committed)
    /\ syncer' = Idle
    /\ adding' = [w \in Writers |-> none]
    /\ deltas' = <<>>
    /\ accounts' = [x \in Addr |-> Untouched]
    /\ base' = [x \in Addr |-> none]
    /\ pending' = {}
    /\ dbRound' = db.round
    /\ deferred' = <<>> /\ commit' = Idle
    /\ notified' = committed
    /\ waits' = [r \in Waits |-> IF waits[r] = "waiting" THEN "no" ELSE waits[r]]
    /\ reader' = Idle
    /\ UNCHANGED <<committed, earliest, db, wrong>>

Crash ==
    /\ up
    /\ crashes < MaxCrashes
    /\ crashes' = crashes + 1
    /\ Die

\* produceCommittingTask: "block too far in the future".
Panic ==
    /\ up
    /\ syncer.pc = "produce"
    /\ syncer.upto > syncer.seen + MaxBalLookback
    /\ TooFar
    /\ UNCHANGED crashes
    /\ Die

\* What loadFromDisk needs: the header of the database round, the blocks
\* after it, and those of the transaction tail.
CanLoad ==
    /\ earliest <= db.round
    /\ db.round <= committed
    /\ earliest + MaxTxnLife <= committed + 1 \/ earliest = 0

\* The effects of the blocks the database lacks, evaluated again.
Replayed == [i \in 1..(committed - db.round) |-> Effect(db.round + i, none)]

\* initializeTrackerCaches also commits, if there is more than the lookback.
Flushable == IF committed <= db.round + MaxBalLookback THEN {0}
             ELSE {0, committed - db.round - MaxBalLookback}

Restart ==
    /\ ~up
    /\ CanLoad
    /\ up' = TRUE
    /\ effects' = SubSeq(effects, 1, db.round) \o Replayed
    /\ \E n \in Flushable :
         LET es == SubSeq(Replayed, 1, n) IN
         /\ db' = Stored(db, es)
         /\ dbRound' = db.round + n
         /\ deltas' = SubSeq(Replayed, n + 1, Len(Replayed))
         /\ accounts' = Released(Counted(accounts, Replayed), es)
         /\ base' = Rebased(base, es, db.round + n)
    /\ UNCHANGED <<crashes, latest, committed, earliest, syncer, adding,
                   pending, deferred, commit, waitVars, readVars>>

-----------------------------------------------------------------------------
Next ==
    \/ \E w \in Writers :
         Eval(w) \/ Validate(w) \/ AddValidatedBlock(w)
    \/ SyncTake \/ SyncPut \/ SyncFail \/ Notify \/ Produce \/ Send \/ Forget
    \/ CommitTake \/ CommitWrite \/ CommitFail \/ CommitPost
    \/ \E x \in Addr, r \in 0..latest, rewards \in BOOLEAN : Lookup(x, r, rewards)
    \/ LookupDatabase \/ LookupCompare \/ LookupAgain
    \/ \E r \in Waits : Wait(r)
    \/ Crash \/ Panic \/ Restart

Spec == Init /\ [][Next]_vars

\* The goroutines run; a database transaction does not fail for ever; trackerMu
\* admits no new reader while notifyCommit waits for it.
Fairness ==
    /\ WF_vars(SyncTake) /\ SF_vars(SyncPut) /\ SF_vars(Notify)
    /\ WF_vars(Produce) /\ WF_vars(Send) /\ WF_vars(Forget)
    /\ WF_vars(CommitTake) /\ WF_vars(CommitWrite \/ CommitFail)
    /\ WF_vars(CommitPost)
    /\ WF_vars(LookupDatabase) /\ WF_vars(LookupCompare) /\ WF_vars(LookupAgain)

FairSpec == Spec /\ Fairness
-----------------------------------------------------------------------------
(* Properties.                                                             *)

Values == {<<0, sink>>} \cup ((1..MaxRound) \X (Payees \cup {sink}))
Effects == [round : 1..MaxRound, touched : SUBSET Addr, payee : Payees \cup {sink}]
Entries == [round : 0..MaxRound, data : Values]

\* What is not in the deltas or in the cache is told from what is.
ASSUME NoneAssumption == none \notin Values \cup Entries

(* Type invariant: the block queue, the in-memory deltas and the databases *)
(* cover the rounds they should (blockQueue, accountUpdates).              *)
TypeOK ==
    /\ latest \in 0..MaxRound /\ committed \in 0..latest
    /\ earliest \in 0..committed
    /\ dbRound \in 0..latest /\ db.round \in 0..latest
    /\ effects \in Seq(Effects) /\ Len(effects) = latest
    /\ deltas \in Seq(Effects)
    /\ up => dbRound + Len(deltas) = latest
    /\ \A x \in Addr : accounts[x].ndeltas \in 0..latest /\ db.accts[x] \in Values
    /\ Len(deferred) <= 1

(* What a lookup returns is the account after the round that was asked     *)
(* for, and after every round up to the one it is said to be valid         *)
(* through, whatever was added, committed or evicted from the cache        *)
(* meanwhile (lookupWithRewards, lookupWithoutRewards).                    *)
LookupExact == wrong = {}

(* The tracker database always holds the accounts as of its own round,     *)
(* although commits are scheduled from a round that may be stale, dropped  *)
(* and retried (trackerRegistry.commitRound).                              *)
DatabaseExact == \A x \in Addr : db.accts[x] = ValueAt(x, db.round)

(* Whenever the process dies it can load its state again: the block        *)
(* database is not behind the accounts and still has every block they and  *)
(* the transaction tail are rebuilt from (notifyCommit, blockForgetBefore, *)
(* loadFromDisk).                                                          *)
Recoverable == CanLoad

(* The accounts of the last MaxBalLookback rounds can always be looked up, *)
(* as agreement does: the database does not run ahead, although two tasks  *)
(* may have been scheduled from the same round (produceCommittingTask,     *)
(* roundOffset).                                                           *)
LookbackKept == db.round > 0 => db.round + MaxBalLookback <= committed

(* The flushed counts postCommit subtracts are those newBlock added: its   *)
(* "inconsistency" panics never happen, and an account without pending     *)
(* deltas is dropped (accountUpdates.newBlockImpl, postCommit).            *)
CountsExact ==
    /\ up => \A x \in Addr : accounts[x].ndeltas = Cardinality(Hits(deltas, x))
    /\ commit.pc \in {"write", "post"} =>
         commit.es = SubSeq(deltas, 1, Len(commit.es))

(* The ledger is a log with a durable prefix: nobody is told of a round    *)
(* that a crash can lose (Ledger.Wait, blockQueue.putBlock).               *)
Log == INSTANCE BlockLog WITH
    Blocks <- SUBSET Addr,
    log <- [r \in 1..latest |-> Agreed[r]],
    durable <- committed,
    told <- {r \in Waits : waits[r] = "told"}

ImplementsBlockLog == Log!Spec

(* Whoever waits for a round that is in the ledger is told, unless the     *)
(* process dies (bulletin.committedUpTo).                                  *)
WaitEnds ==
    \A r \in Waits :
        (waits[r] = "waiting" /\ r <= latest) ~> (waits[r] = "told" \/ ~up)

(* A lookup returns: neither the lock it holds while it waits for a commit *)
(* nor the full commit channel stops the others for ever                   *)
(* (accountsReadCond, deferredCommits).                                    *)
LookupReturns == Looking ~> ~Looking

(* Replaying the blocks after a restart reconstructs the effects they had  *)
(* (trackerEvalVerified).                                                  *)
ReplayReconstructs ==
    [][\A r \in DOMAIN effects \cap DOMAIN effects' : effects'[r] = effects[r]]_vars
=============================================================================
