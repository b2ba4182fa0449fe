----------------------------- MODULE LedgerInv -----------------------------
(***************************************************************************)
(* The inductive invariants of Ledger.                                     *)
(*                                                                         *)
(* The two goroutines act on what they read before: the syncer on a round  *)
(* of the database it saw (seen) and a round it may forget up to (min),    *)
(* commitSyncer on a task made from it.  IInv says of each of those stale  *)
(* values what is still true of it when it is used.                        *)
(*                                                                         *)
(* Exact is about the accounts.  effects says what every round did.  The   *)
(* deltas, the effects of a commit and those of a replay are all slices of *)
(* it, and what an account is worth after a slice is decided by the last   *)
(* round of it that touched the account.                                   *)
(***************************************************************************)
EXTENDS Ledger

-----------------------------------------------------------------------------
(* The rounds.                                                             *)

\* The rounds before which the block database may forget.
Mins == {m \in 0..dbRound : m = 0 \/ m + MaxTxnLife <= committed + 1}

\* The tasks that leave the lookback in memory.
OldTasks ==
    {t \in [oldBase : 0..MaxRound, offset : 0..MaxRound] :
       t.oldBase + t.offset + MaxBalLookback <= committed}

\* The rounds the parts of the ledger are at.
Rounds ==
    /\ latest \in 0..MaxRound /\ committed \in 0..latest
    /\ earliest \in Nat /\ dbRound \in Nat /\ db.round \in Nat
    /\ notified \in 0..committed
    /\ deltas \in Seq(Effects)
    /\ up => dbRound + Len(deltas) = latest

\* A block that was evaluated is the next one, or was added meanwhile.
AddOK ==
    /\ adding \in [Writers -> Effects \cup {none}]
    /\ \A w \in Writers : adding[w] # none => adding[w].round <= latest + 1

SyncOK ==
    /\ syncer.pc = "put" => syncer.upto \in committed..latest
    /\ syncer.pc \in {"notify", "produce"} => syncer.upto = committed
    /\ syncer.pc \in {"produce", "send", "forget"} => syncer.min \in Mins
    /\ syncer.pc = "produce" => syncer.seen \in 0..dbRound
    /\ syncer.pc = "send" => syncer.task \in OldTasks

CommitOK ==
    /\ deferred # <<>> => deferred[1] \in OldTasks
    /\ commit.pc \in {"write", "post"} =>
         /\ commit \in [pc : {"write", "post"}, es : Seq(Effects)]
         /\ dbRound + Len(commit.es) + MaxBalLookback <= committed
    /\ db.round = IF commit.pc = "post" THEN dbRound + Len(commit.es) ELSE dbRound

\* Nothing is under way when the process does not run.
DownOK ==
    ~up => /\ latest = committed /\ syncer = Idle /\ commit = Idle /\ deferred = <<>>
           /\ \A w \in Writers : adding[w] = none

WaitOK == waits \in [Waits -> {"no", "waiting", "told"}]

IInv ==
    /\ Rounds /\ AddOK /\ SyncOK /\ CommitOK /\ DownOK /\ WaitOK
    /\ Recoverable /\ LookbackKept

-----------------------------------------------------------------------------
(* The accounts.                                                           *)

\* The rounds after m and up to k that touch x.
Touch(s, x, m, k) == {i \in (m + 1)..k : x \in s[i].touched}

\* What x is worth after the first q effects of s.
At(s, x, q) == ValueAfter(Genesis, SubSeq(s, 1, q), x)

Account == [ndeltas : Nat, data : Values]

\* a is what accounts should have of x for the rounds after m and up to k.
Tracks(a, s, x, m, k) ==
    /\ a.ndeltas = Cardinality(Touch(s, x, m, k))
    /\ Touch(s, x, m, k) # {} => a.data = At(s, x, k)

\* An entry of the cache is what the database has of x at round d.
EntryOK(b, s, x, d) ==
    b # none => b \in Entries /\ b.round <= d /\ b.data = At(s, x, d)

\* A value of x that was read at round r still is what the database has at d,
\* or the cache has a later one and refuses it.
Fresh(b, s, x, d, r, v) ==
    v = At(s, x, d) \/ (b # none /\ b.round > r)

\* The deltas and those of a commit are the effects of the rounds they cover.
SlicesOK ==
    /\ effects \in Seq(Effects) /\ Len(effects) = latest
    /\ up => deltas = SubSeq(effects, dbRound + 1, latest)
    /\ commit.pc \in {"write", "post"} =>
         commit.es = SubSeq(effects, dbRound + 1, dbRound + Len(commit.es))
    /\ Len(deferred) <= 1

AccountsOK ==
    /\ accounts \in [Addr -> Account]
    /\ up => \A x \in Addr : Tracks(accounts[x], effects, x, dbRound, latest)

CacheOK ==
    /\ \A x \in Addr : EntryOK(base[x], effects, x, dbRound)
    /\ \A p \in pending :
         /\ p.addr \in Addr /\ p.round \in 0..dbRound
         /\ Fresh(base[p.addr], effects, p.addr, dbRound, p.round, p.data)

\* A lookup under way.
Lookups ==
    [pc : {"start", "database", "found", "wait"}, addr : Addr, asked : Nat, through : Nat,
     rewards : BOOLEAN, round : Nat, len : Nat, entry : Entries \cup {none}]

\* The account is worth the same after all rounds a lookup is to answer for.
Steady(l, s) ==
    /\ l \in Lookups
    /\ l.through \in l.asked..Len(s)
    /\ \A q \in l.asked..l.through : At(s, l.addr, q) = At(s, l.addr, l.through)

\* A lookup that reads the database will accept the round it has seen there.
\* That round has the answer, and the cache can do with it, even if the database
\* has moved on meanwhile.
ReaderOK ==
    Looking =>
      /\ Steady(reader, effects)
      /\ reader.pc \in {"database", "found"} =>
           /\ reader.round \in 0..dbRound
           /\ At(effects, reader.addr, reader.through) = At(effects, reader.addr, reader.round)
           /\ Fresh(base[reader.addr], effects, reader.addr, dbRound, reader.round,
                    At(effects, reader.addr, reader.round))
      /\ reader.pc = "found" =>
           /\ reader.entry \in Entries
           /\ reader.entry.data = At(effects, reader.addr, reader.entry.round)

\* Nothing is in memory when the process does not run.
EmptyOK ==
    ~up => /\ accounts = [x \in Addr |-> Untouched] /\ base = [x \in Addr |-> none]
           /\ pending = {} /\ reader = Idle

Exact ==
    /\ SlicesOK /\ AccountsOK /\ CacheOK /\ ReaderOK /\ EmptyOK
    /\ DatabaseExact /\ LookupExact
=============================================================================
