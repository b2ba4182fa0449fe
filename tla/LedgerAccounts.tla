--------------------------- MODULE LedgerAccounts ---------------------------
(***************************************************************************)
(* For every set of accounts and blocks, and all lookbacks: the database   *)
(* holds the accounts of its own round, the counts of the deltas in memory *)
(* are exact, and a lookup returns the account of the round it was asked   *)
(* for, whatever is added, committed or evicted while it is under way.     *)
(***************************************************************************)
EXTENDS LedgerProofs, LedgerSteps, FiniteSetTheorems, WellFoundedInduction

\* Time enough for every leaf on a loaded machine.
USE SMTT(30), ZenonT(30)

-----------------------------------------------------------------------------
(* Lookups.                                                                *)

\* What is found in the deltas is the account after the round asked for; an
\* account that is not there is as it was at the round of the database.
LEMMA InDeltasExact ==
    ASSUME Laws, IInv, Exact, up, NEW x \in Addr, NEW r \in dbRound..latest
    PROVE  /\ InDeltas(x, r) # none => InDeltas(x, r) = At(effects, x, r)
           /\ InDeltas(x, r) = none => At(effects, x, r) = At(effects, x, dbRound)
           /\ accounts[x].ndeltas = 0 =>
                \A q \in dbRound..latest : At(effects, x, q) = At(effects, x, dbRound)
<1> DEFINE T == Touch(effects, x, dbRound, latest)
           off == r - dbRound
<1>1. /\ effects \in Seq(Effects) /\ Len(effects) = latest /\ latest \in Nat
      /\ dbRound \in Nat /\ dbRound <= latest
  BY Bounds
<1>2. /\ dbRound \in 0..Len(effects) /\ latest \in dbRound..Len(effects) /\ latest \in 0..Len(effects)
      /\ r \in dbRound..Len(effects) /\ r \in 0..Len(effects) /\ r \in Nat
      /\ off \in 0..(latest - dbRound) /\ dbRound + off = r
  BY <1>1
<1>3. deltas = SubSeq(effects, dbRound + 1, latest) /\ Tracks(accounts[x], effects, x, dbRound, latest)
  BY Zenon DEF Exact, SlicesOK, AccountsOK
<1>4. Len(deltas) = latest - dbRound
  BY <1>1, <1>2, <1>3, Slice, Zenon
<1>5. accounts[x].ndeltas = 0 <=> T = {}
  BY <1>1, <1>3, TouchFinite, Zenon DEF Tracks
<1> HIDE DEF off
<1>6. CASE accounts[x].ndeltas = 0
  <2>1. InDeltas(x, r) = none
    BY <1>6, Zenon DEF InDeltas
  <2>2. ASSUME NEW q \in dbRound..latest PROVE At(effects, x, q) = At(effects, x, dbRound)
    <3>1. q \in dbRound..Len(effects)
      BY <1>1, Zenon
    <3>2. (dbRound + 1)..q \subseteq (dbRound + 1)..latest
      BY <1>1
    <3>3. Touch(effects, x, dbRound, q) = {}
      BY <1>5, <1>6, <3>2, Zenon DEF Touch
    <3>4. QED
      BY <1>1, <1>2, <3>1, <3>3, AtKept, ZenonT(30)
  <2>3. QED
    BY <2>1, <2>2, Zenon
<1>7. CASE accounts[x].ndeltas # 0 /\ off = Len(deltas)
  <2>1. r = latest
    BY <1>1, <1>2, <1>4, <1>7
  <2>2. InDeltas(x, r) = accounts[x].data
    BY <1>7, Zenon DEF InDeltas, off
  <2>3. accounts[x].data = At(effects, x, latest)
    BY <1>3, <1>5, <1>7, Zenon DEF Tracks
  <2>4. At(effects, x, latest) \in Values
    BY <1>1, <1>2, AtType, Zenon
  <2>5. InDeltas(x, r) # none
    BY <2>2, <2>3, <2>4, NoneAssumption, Zenon
  <2>6. QED
    BY <1>7, <2>1, <2>2, <2>3, <2>5, ZenonT(30)
<1>8. CASE accounts[x].ndeltas # 0 /\ off # Len(deltas)
  <2>1. SubSeq(deltas, 1, off) = SubSeq(effects, dbRound + 1, r)
    BY <1>1, <1>2, <1>3, SliceOfSlice, Zenon
  <2>2. InDeltas(x, r) = ValueAfter(none, SubSeq(effects, dbRound + 1, r), x)
    <3>1. InDeltas(x, r) = ValueAfter(none, SubSeq(deltas, 1, off), x)
      BY <1>8, Zenon DEF InDeltas, off
    <3>2. QED
      BY <2>1, <3>1, ZenonT(30)
  <2>3. CASE Touch(effects, x, dbRound, r) = {}
    <3>1. InDeltas(x, r) = none
      BY <1>1, <1>2, <2>2, <2>3, SliceMisses
    <3>2. At(effects, x, r) = At(effects, x, dbRound)
      BY <1>1, <1>2, <2>3, AtKept, Zenon
    <3>3. QED
      BY <1>8, <3>1, <3>2, Zenon
  <2>4. CASE Touch(effects, x, dbRound, r) # {}
    <3>1. InDeltas(x, r) = At(effects, x, r)
      BY <1>1, <1>2, <2>2, <2>4, AtDecided
    <3>2. At(effects, x, r) \in Values
      BY <1>1, <1>2, AtType, Zenon
    <3>3. InDeltas(x, r) # none
      BY <3>1, <3>2, NoneAssumption, Zenon
    <3>4. QED
      BY <1>8, <3>1, <3>3, ZenonT(30)
  <2>5. QED
    BY <2>3, <2>4, Zenon
<1>9. QED
  BY <1>6, <1>7, <1>8, Zenon

\* An account without deltas is the same for all rounds it is answered for.
LEMMA ThroughExact ==
    ASSUME Laws, IInv, Exact, up, NEW l, Steady(l, effects), l.through \in dbRound..latest,
           InDeltas(l.addr, l.through) = none
    PROVE  /\ Through(l) \in l.through..latest
           /\ \A q \in l.asked..Through(l) : At(effects, l.addr, q) = At(effects, l.addr, dbRound)
<1> DEFINE x == l.addr
<1>1. /\ x \in Addr /\ l.asked \in Nat /\ l.through \in Nat /\ l.asked <= l.through
      /\ \A q \in l.asked..l.through : At(effects, x, q) = At(effects, x, l.through)
  BY DEF Steady, Lookups
<1>2. latest \in Nat /\ dbRound \in Nat /\ dbRound <= latest /\ Len(effects) = latest
  BY Bounds
<1>3. At(effects, x, l.through) = At(effects, x, dbRound)
  BY <1>1, InDeltasExact, Zenon
<1>4. dbRound + Len(deltas) = latest
  BY Zenon DEF IInv, Rounds
<1>5. CASE ~l.rewards /\ accounts[x].ndeltas = 0
  <2>1. Through(l) = latest
    BY <1>4, <1>5, Zenon DEF Through
  <2>2. \A q \in dbRound..latest : At(effects, x, q) = At(effects, x, dbRound)
    BY <1>1, <1>5, InDeltasExact, Zenon
  <2>3. \A q \in l.asked..latest : q \in l.asked..l.through \/ q \in dbRound..latest
    BY <1>1, <1>2
  <2>4. latest \in l.through..latest
    BY <1>1, <1>2
  <2>5. QED
    BY <1>1, <1>3, <2>1, <2>2, <2>3, <2>4, Zenon
<1>6. CASE ~(~l.rewards /\ accounts[x].ndeltas = 0)
  <2>1. Through(l) = l.through
    BY <1>6, Zenon DEF Through
  <2>2. l.through \in l.through..latest
    BY <1>1, <1>2
  <2>3. QED
    BY <1>1, <1>3, <2>1, <2>2, Zenon
<1>7. QED
  BY <1>5, <1>6, Zenon

\* What a step of a lookup leaves alone.
LEMMA ReadKept ==
    ASSUME Exact, up, UNCHANGED lookupKept, wrong' = wrong, ReaderOK',
           \A p \in pending' :
             /\ p.addr \in Addr /\ p.round \in 0..dbRound
             /\ Fresh(base[p.addr], effects, p.addr, dbRound, p.round, p.data)
    PROVE  Exact'
<1>1. UNCHANGED <<up, latest, effects, deltas, accounts, base, dbRound, db, deferred, commit>>
  BY Zenon DEF lookupKept, dbVars
<1>2. SlicesOK' /\ AccountsOK' /\ CacheOK' /\ EmptyOK'
  BY <1>1, Zenon DEF Exact, SlicesOK, AccountsOK, CacheOK, EmptyOK
<1>3. DatabaseExact' /\ LookupExact'
  BY <1>1, Zenon DEF Exact, DatabaseExact, ValueAt, LookupExact
<1>4. QED
  BY <1>2, <1>3, Zenon DEF Exact

\* An answer that is right for all its rounds.
LEMMA AnswerExact ==
    ASSUME NEW l, NEW r, NEW v, Answer(l, r, v), \A q \in l.asked..r : v = At(effects, l.addr, q)
    PROVE  reader' = Idle /\ wrong' = wrong /\ ReaderOK'
<1>1. reader' = Idle
  BY Zenon DEF Answer
<1>2. \A q \in l.asked..r : v = ValueAt(l.addr, q)
  BY Zenon DEF ValueAt, At
<1>3. wrong' = wrong
  BY <1>2, Zenon DEF Answer
<1>4. QED
  BY <1>1, <1>3, Zenon DEF ReaderOK, Looking, Idle

\* One turn of the loop answers right, or goes to the database for the account
\* of a round that has the answer.
LEMMA LookExact ==
    ASSUME Laws, IInv, Exact, up, NEW l, Steady(l, effects), Look(l), UNCHANGED lookupKept
    PROVE  Exact'
<1> DEFINE x == l.addr
           v == InDeltas(x, l.through)
<1>1. /\ l \in Lookups /\ x \in Addr /\ l.asked \in Nat /\ l.through \in Nat /\ l.asked <= l.through
      /\ \A q \in l.asked..l.through : At(effects, x, q) = At(effects, x, l.through)
  BY DEF Steady, Lookups
<1>2. UNCHANGED <<up, latest, effects, deltas, accounts, base, dbRound, db, deferred, commit>>
  BY Zenon DEF lookupKept, dbVars
<1>3. /\ latest \in Nat /\ dbRound \in Nat /\ dbRound <= latest /\ Len(effects) = latest
      /\ dbRound + Len(deltas) = latest
  BY Bounds DEF IInv, Rounds
<1>4. \A p \in pending : /\ p.addr \in Addr /\ p.round \in 0..dbRound
                         /\ Fresh(base[p.addr], effects, p.addr, dbRound, p.round, p.data)
  BY Zenon DEF Exact, CacheOK
<1>5. CASE reader' = Idle /\ UNCHANGED <<pending, wrong>>
  <2>1. ReaderOK'
    BY <1>5, Zenon DEF ReaderOK, Looking, Idle
  <2>2. QED
    BY <1>4, <1>5, <2>1, ReadKept, Zenon
<1>6. CASE /\ l.through \in dbRound..latest /\ v # none
           /\ Answer(l, l.through, v) /\ UNCHANGED pending
  <2>1. v = At(effects, x, l.through)
    BY <1>1, <1>6, InDeltasExact, Zenon
  <2> HIDE DEF v
  <2>2. \A q \in l.asked..l.through : v = At(effects, x, q)
    BY <1>1, <2>1, Zenon
  <2>3. reader' = Idle /\ wrong' = wrong /\ ReaderOK'
    BY <1>6, <2>2, AnswerExact, Zenon
  <2>4. QED
    BY <1>4, <1>6, <2>3, ReadKept, Zenon
<1>7. CASE /\ l.through \in dbRound..latest /\ v = none /\ Cached(l)
           /\ Answer(l, Through(l), base[x].data)
           /\ pending' = pending \cup {Promoted(x, base[x])}
  <2>1. \A q \in l.asked..Through(l) : At(effects, x, q) = At(effects, x, dbRound)
    BY <1>7, ThroughExact, Zenon
  <2>2. base[x] # none
    BY <1>7, Zenon DEF Cached
  <2>3. base[x] \in Entries /\ base[x].round <= dbRound /\ base[x].data = At(effects, x, dbRound)
    BY <1>1, <2>2, Zenon DEF Exact, CacheOK, EntryOK
  <2>4. reader' = Idle /\ wrong' = wrong /\ ReaderOK'
    BY <1>7, <2>1, <2>3, AnswerExact, Zenon
  <2> DEFINE p0 == Promoted(x, base[x])
  <2>5. p0.addr = x /\ p0.round = base[x].round /\ p0.data = base[x].data
    BY Zenon DEF Promoted
  <2>6. base[x].round \in 0..dbRound
    BY <1>3, <2>3, LookbackAssumption DEF Entries
  <2>7. /\ p0.addr \in Addr /\ p0.round \in 0..dbRound
        /\ Fresh(base[p0.addr], effects, p0.addr, dbRound, p0.round, p0.data)
    BY <1>1, <2>3, <2>5, <2>6, Zenon DEF Fresh
  <2> HIDE DEF p0
  <2>8. \A p \in pending' : /\ p.addr \in Addr /\ p.round \in 0..dbRound
                            /\ Fresh(base[p.addr], effects, p.addr, dbRound, p.round, p.data)
    BY <1>4, <1>7, <2>7, Zenon DEF p0
  <2>9. QED
    BY <2>4, <2>8, ReadKept, Zenon
<1>8. CASE /\ l.through \in dbRound..latest /\ v = none
           /\ reader' = [l EXCEPT !.pc = "database", !.through = Through(l),
                                  !.round = dbRound, !.len = Len(deltas)]
           /\ UNCHANGED <<pending, wrong>>
  <2> DEFINE t == Through(l)
  <2>1. t \in l.through..latest /\ \A q \in l.asked..t : At(effects, x, q) = At(effects, x, dbRound)
    BY <1>8, ThroughExact, Zenon
  <2>2. Len(deltas) \in Nat
    BY SeqLength, Zenon DEF IInv, Rounds
  <2> HIDE DEF t
  <2>3. /\ reader' \in Lookups /\ reader'.pc = "database" /\ reader'.addr = x
        /\ reader'.asked = l.asked /\ reader'.through = t /\ reader'.round = dbRound
    <3>1. t \in Nat
      BY <1>1, <2>1
    <3>2. QED
      BY <1>1, <1>3, <1>8, <2>2, <3>1, ZenonT(30) DEF Lookups, t
  <2>4. t \in l.asked..latest /\ t \in l.asked..t /\ dbRound \in 0..dbRound
    BY <1>1, <1>3, <2>1
  <2>5. At(effects, x, t) = At(effects, x, dbRound)
    BY <2>1, <2>4, Zenon
  <2>6. Steady(reader', effects)
    BY <1>3, <2>1, <2>3, <2>4, <2>5, ZenonT(30) DEF Steady
  <2>7. Fresh(base[x], effects, x, dbRound, dbRound, At(effects, x, dbRound))
    BY Zenon DEF Fresh
  <2>8. ReaderOK'
    BY <1>2, <2>3, <2>4, <2>5, <2>6, <2>7, ZenonT(30) DEF ReaderOK
  <2>9. QED
    BY <1>4, <1>8, <2>8, ReadKept, Zenon
<1>9. QED
  BY <1>3, <1>5, <1>6, <1>7, <1>8, Zenon DEF Look

\* A lookup that starts is asked for one round.
LEMMA LookupStarts ==
    ASSUME Laws, IInv, Exact, NEW x \in Addr, NEW r \in 0..latest, NEW rewards \in BOOLEAN,
           Lookup(x, r, rewards)
    PROVE  Exact'
<1> DEFINE l == [pc |-> "start", addr |-> x, asked |-> r, through |-> r,
                 rewards |-> rewards, round |-> 0, len |-> 0, entry |-> none]
<1>1. up /\ Look(l) /\ UNCHANGED lookupKept
  BY Zenon DEF Lookup
<1>2. latest \in Nat /\ Len(effects) = latest
  BY Bounds, Zenon
<1>3. l \in Lookups /\ l.asked = r /\ l.through = r /\ l.addr = x
  BY <1>2 DEF Lookups
<1> HIDE DEF l
<1>4. r \in r..latest /\ \A q \in r..r : q = r
  BY <1>2
<1>5. Steady(l, effects)
  BY <1>2, <1>3, <1>4, Zenon DEF Steady
<1>6. QED
  BY <1>1, <1>5, LookExact, Zenon

\* The database is read: it has the accounts of its round.
LEMMA LookupReads ==
    ASSUME Laws, IInv, Exact, LookupDatabase
    PROVE  Exact'
<1> DEFINE x == reader.addr
           e == [round |-> db.round, data |-> db.accts[x]]
<1>1. /\ up /\ reader.pc = "database" /\ reader' = [reader EXCEPT !.pc = "found", !.entry = e]
      /\ UNCHANGED lookupKept /\ UNCHANGED <<pending, wrong>>
  BY Zenon DEF LookupDatabase
<1>2. UNCHANGED <<up, latest, effects, deltas, accounts, base, dbRound, db, deferred, commit>>
  BY <1>1, Zenon DEF lookupKept, dbVars
<1>3. /\ Steady(reader, effects) /\ reader.round \in 0..dbRound
      /\ At(effects, x, reader.through) = At(effects, x, reader.round)
      /\ Fresh(base[x], effects, x, dbRound, reader.round, At(effects, x, reader.round))
  BY <1>1, Zenon DEF Exact, ReaderOK, Looking
<1>4. reader \in Lookups /\ x \in Addr
  BY <1>3, Zenon DEF Steady, Lookups
<1>5. e \in Entries /\ e.round = db.round /\ e.data = At(effects, x, db.round)
  <2>1. /\ effects \in Seq(Effects) /\ db.round \in 0..Len(effects) /\ db.round \in 0..MaxRound
    BY Bounds
  <2>2. db.accts[x] = At(effects, x, db.round)
    BY <1>4, Zenon DEF Exact, DatabaseExact, ValueAt, At
  <2>3. At(effects, x, db.round) \in Values
    BY <2>1, AtType, Zenon
  <2>4. QED
    BY <2>1, <2>2, <2>3, Zenon DEF Entries
<1> HIDE DEF e
<1>6. /\ reader' \in Lookups /\ reader'.pc = "found" /\ reader'.addr = x /\ reader'.entry = e
      /\ reader'.asked = reader.asked /\ reader'.through = reader.through
      /\ reader'.round = reader.round
  BY <1>1, <1>4, <1>5, Zenon DEF Lookups
<1>7. Steady(reader', effects)
  BY <1>3, <1>6, Zenon DEF Steady
<1>8. ReaderOK'
  BY <1>2, <1>3, <1>5, <1>6, <1>7, Zenon DEF ReaderOK
<1>9. \A p \in pending' : /\ p.addr \in Addr /\ p.round \in 0..dbRound
                          /\ Fresh(base[p.addr], effects, p.addr, dbRound, p.round, p.data)
  BY <1>1, Zenon DEF Exact, CacheOK
<1>10. QED
  BY <1>1, <1>8, <1>9, ReadKept, Zenon

\* What was read is the answer if the database was still where it was.
LEMMA LookupCompares ==
    ASSUME IInv, Exact, LookupCompare
    PROVE  Exact'
<1> DEFINE x == reader.addr
           e == reader.entry
<1>1. up /\ reader.pc = "found" /\ UNCHANGED lookupKept
  BY Zenon DEF LookupCompare
<1>2. UNCHANGED <<up, latest, effects, deltas, accounts, base, dbRound, db, deferred, commit>>
  BY <1>1, Zenon DEF lookupKept, dbVars
<1>3. /\ Steady(reader, effects) /\ reader.round \in 0..dbRound
      /\ At(effects, x, reader.through) = At(effects, x, reader.round)
      /\ Fresh(base[x], effects, x, dbRound, reader.round, At(effects, x, reader.round))
      /\ e \in Entries /\ e.data = At(effects, x, e.round)
  BY <1>1, Zenon DEF Exact, ReaderOK, Looking
<1>4. reader \in Lookups /\ x \in Addr
      /\ \A q \in reader.asked..reader.through : At(effects, x, q) = At(effects, x, reader.through)
  BY <1>3, Zenon DEF Steady, Lookups
<1>5. \A p \in pending : /\ p.addr \in Addr /\ p.round \in 0..dbRound
                         /\ Fresh(base[p.addr], effects, p.addr, dbRound, p.round, p.data)
  BY Zenon DEF Exact, CacheOK
<1>6. CASE e.round = reader.round
  <2>1. /\ Answer(reader, reader.through, e.data)
        /\ pending' = pending \cup {Promoted(x, e)}
    BY <1>6, Zenon DEF LookupCompare
  <2>2. e.data = At(effects, x, reader.round)
    BY <1>3, <1>6, Zenon
  <2>3. \A q \in reader.asked..reader.through : e.data = At(effects, x, q)
    BY <1>3, <1>4, <2>2, Zenon
  <2>4. wrong' = wrong /\ ReaderOK'
    BY <2>1, <2>3, AnswerExact, Zenon
  <2> DEFINE p0 == Promoted(x, e)
  <2>5. p0.addr = x /\ p0.round = e.round /\ p0.data = e.data
    BY Zenon DEF Promoted
  <2>6. /\ p0.addr \in Addr /\ p0.round \in 0..dbRound
        /\ Fresh(base[p0.addr], effects, p0.addr, dbRound, p0.round, p0.data)
    BY <1>3, <1>4, <1>6, <2>2, <2>5, Zenon
  <2> HIDE DEF p0
  <2>7. \A p \in pending' : /\ p.addr \in Addr /\ p.round \in 0..dbRound
                            /\ Fresh(base[p.addr], effects, p.addr, dbRound, p.round, p.data)
    BY <1>5, <2>1, <2>6, Zenon DEF p0
  <2>8. QED
    BY <1>1, <2>4, <2>7, ReadKept, Zenon
<1>7. CASE e.round # reader.round
  <2>1. /\ reader' \in {Idle, [reader EXCEPT !.pc = "wait", !.entry = none]}
        /\ UNCHANGED <<pending, wrong>>
    BY <1>7, Zenon DEF LookupCompare
  <2>2. CASE reader' = Idle
    <3>1. ReaderOK'
      BY <2>2, Zenon DEF ReaderOK, Looking, Idle
    <3>2. QED
      BY <1>1, <1>5, <2>1, <3>1, ReadKept, Zenon
  <2>3. CASE reader' = [reader EXCEPT !.pc = "wait", !.entry = none]
    <3>1. /\ reader' \in Lookups /\ reader'.pc = "wait" /\ reader'.addr = x
          /\ reader'.asked = reader.asked /\ reader'.through = reader.through
      BY <1>4, <2>3, Zenon DEF Lookups
    <3>2. Steady(reader', effects)
      BY <1>3, <3>1, Zenon DEF Steady
    <3>3. ReaderOK'
      BY <1>2, <3>1, <3>2, Zenon DEF ReaderOK
    <3>4. QED
      BY <1>1, <1>5, <2>1, <3>3, ReadKept
  <2>4. QED
    BY <2>1, <2>2, <2>3, Zenon
<1>8. QED
  BY <1>6, <1>7, Zenon

\* A lookup that waited looks again.
LEMMA LookupLoops ==
    ASSUME Laws, IInv, Exact, LookupAgain
    PROVE  Exact'
<1>1. up /\ reader.pc = "wait" /\ Look(reader) /\ UNCHANGED lookupKept
  BY Zenon DEF LookupAgain
<1>2. Steady(reader, effects)
  BY <1>1, Zenon DEF Exact, ReaderOK, Looking
<1>3. QED
  BY <1>1, <1>2, LookExact, Zenon

-----------------------------------------------------------------------------
(* The steps together.                                                     *)

\* Every step keeps it.
LEMMA NextExact ==
    ASSUME Laws, IInv, Exact, [Next]_vars
    PROVE  Exact'
<1>1. ASSUME NEW w \in Writers, Eval(w) \/ Validate(w) PROVE Exact'
  <2>1. UNCHANGED <<up, latest, effects, deltas, accounts, base, pending, dbRound, db,
                    deferred, commit, reader, wrong>>
    BY <1>1, Zenon DEF Eval, Validate, acctVars, dbVars, readVars
  <2>2. QED
    BY <2>1, ExactQuiet, Zenon
<1>2. CASE SyncTake \/ SyncPut \/ SyncFail \/ Notify
  <2>1. UNCHANGED <<up, latest, effects, deltas, accounts, base, pending, dbRound, db,
                    deferred, commit, reader, wrong>>
    BY <1>2, Zenon DEF SyncTake, SyncPut, SyncFail, Notify, acctVars, dbVars, readVars
  <2>2. QED
    BY <2>1, ExactQuiet, Zenon
<1>3. CASE Produce \/ Forget
  <2>1. UNCHANGED <<up, latest, effects, deltas, accounts, base, pending, dbRound, db,
                    deferred, commit, reader, wrong>>
    BY <1>3, Zenon DEF Produce, Forget, acctVars, dbVars, readVars
  <2>2. QED
    BY <2>1, ExactQuiet
<1>4. ASSUME NEW r \in Waits, Wait(r) PROVE Exact'
  <2>1. UNCHANGED <<up, latest, effects, deltas, accounts, base, pending, dbRound, db,
                    deferred, commit, reader, wrong>>
    BY <1>4, Zenon DEF Wait, acctVars, dbVars, readVars
  <2>2. QED
    BY <2>1, ExactQuiet
<1>5. CASE UNCHANGED vars
  <2>1. UNCHANGED <<up, latest, effects, deltas, accounts, base, pending, dbRound, db,
                    deferred, commit, reader, wrong>>
    BY <1>5, Zenon DEF vars
  <2>2. QED
    BY <2>1, ExactQuiet
<1>6. ASSUME NEW w \in Writers, AddValidatedBlock(w) PROVE Exact'
  BY <1>6, AddExact, Zenon
<1>7. CASE Send \/ CommitWrite \/ CommitFail \/ CommitPost
  BY <1>7, SendExact, CommitWriteExact, CommitFailExact, CommitPostExact, ZenonT(30)
<1>8. CASE CommitTake
  <2>1. up
    BY <1>8, Zenon DEF CommitTake
  <2>2. \A t \in OldTasks : Remaining(t) # 0 => Remaining(t) \in 1..Len(deltas)
    BY <2>1, RemainingFits, Zenon
  <2>3. QED
    BY <1>8, <2>2, CommitTakeExact, Zenon
<1>9. ASSUME NEW x \in Addr, NEW r \in 0..latest, NEW rewards \in BOOLEAN, Lookup(x, r, rewards)
      PROVE  Exact'
  BY <1>9, LookupStarts, Zenon
<1>10. CASE LookupDatabase \/ LookupCompare \/ LookupAgain
  BY <1>10, LookupReads, LookupCompares, LookupLoops, Zenon
<1>11. CASE Crash \/ Panic
  <2>1. Die
    BY <1>11, Zenon DEF Crash, Panic
  <2>2. QED
    BY <2>1, DieExact, Zenon
<1>12. CASE Restart
  BY <1>12, ReplayedFacts, RestartExact, Zenon
<1>13. QED
  BY <1>1, <1>2, <1>3, <1>4, <1>5, <1>6, <1>7, <1>8, <1>9, <1>10, <1>11, <1>12, Zenon DEF Next

-----------------------------------------------------------------------------
(* What the steps assume of sets.                                          *)

\* A set of natural numbers has a least element.
LEMMA Least ==
    ASSUME NEW T, T \subseteq Nat, T # {}
    PROVE  \E n \in T : \A m \in T : n <= m
<1> DEFINE less == {p \in Nat \X Nat : p[1] < p[2]}
<1>1. IsWellFoundedOn(less, Nat)
  BY NatLessThanWellFounded, Zenon DEF OpToRel
<1>2. PICK n \in T : \A m \in T : ~(<<m, n>> \in less)
  BY <1>1, WFMin, Zenon
<1>3. ASSUME NEW m \in T PROVE n <= m
  <2>1. m \in Nat /\ n \in Nat /\ (m < n => <<m, n>> \in less)
    BY Zenon
  <2>2. ~(m < n)
    BY <1>2, <2>1, Zenon
  <2>3. QED
    BY <2>1, <2>2
<1>4. QED
  BY <1>3, Zenon

\* How often a slice touches x.
LEMMA HitsCounted ==
    ASSUME NEW s \in Seq(Effects), NEW m \in 0..Len(s), NEW k \in m..Len(s), NEW x
    PROVE  Cardinality(Hits(SubSeq(s, m + 1, k), x)) = Cardinality(Touch(s, x, m, k))
<1> DEFINE H == Hits(SubSeq(s, m + 1, k), x)
           T == Touch(s, x, m, k)
           f == [i \in H |-> m + i]
<1>1. \A i : i \in H <=> i \in 1..(k - m) /\ m + i \in T
  BY SliceHits, Zenon
<1>2. T \subseteq (m + 1)..k /\ m \in Nat /\ k \in Nat
  BY DEF Touch
<1> HIDE DEF H, T
<1>3. IsFiniteSet(H)
  <2>1. IsFiniteSet(1..(k - m)) /\ H \in SUBSET (1..(k - m))
    BY <1>1, <1>2, FS_Interval
  <2>2. QED
    BY <2>1, FS_Subset, Zenon
<1>4. f \in [H -> T]
  BY <1>1, Zenon
<1>5. \A i, j \in H : f[i] = f[j] => i = j
  BY <1>1, <1>2
<1>6. ASSUME NEW t \in T PROVE \E i \in H : f[i] = t
  <2>1. t - m \in 1..(k - m) /\ m + (t - m) = t
    BY <1>2
  <2>2. t - m \in H
    BY <1>1, <2>1, Zenon
  <2>3. QED
    BY <2>1, <2>2, Zenon
<1>7. ExistsBijection(H, T)
  <2> HIDE DEF f
  <2>1. f \in Bijection(H, T)
    BY <1>4, <1>5, <1>6, Zenon DEF Bijection, Injection, Surjection, IsInjective
  <2>2. QED
    BY <2>1, Zenon DEF ExistsBijection
<1>8. QED
  BY <1>3, <1>7, FS_Bijection, Zenon DEF H, T

\* Touches are finite in number, no more than the rounds.
LEMMA TouchesCounted ==
    ASSUME NEW s, NEW m \in Nat, NEW k \in Nat, NEW x, m <= k
    PROVE  /\ IsFiniteSet(Touch(s, x, m, k))
           /\ Cardinality(Touch(s, x, m, k)) \in Nat
           /\ Cardinality(Touch(s, x, m, k)) <= k - m
           /\ Cardinality(Touch(s, x, m, k)) = 0 <=> Touch(s, x, m, k) = {}
<1>1. IsFiniteSet((m + 1)..k) /\ Cardinality((m + 1)..k) = k - m
  <2>1. m + 1 \in Int /\ k \in Int
    OBVIOUS
  <2>2. /\ IsFiniteSet((m + 1)..k)
        /\ Cardinality((m + 1)..k) = IF m + 1 > k THEN 0 ELSE k - (m + 1) + 1
    BY <2>1, FS_Interval, Zenon
  <2>3. QED
    BY <2>2
<1>2. Touch(s, x, m, k) \in SUBSET ((m + 1)..k)
  BY Zenon DEF Touch
<1>3. /\ IsFiniteSet(Touch(s, x, m, k))
      /\ Cardinality(Touch(s, x, m, k)) <= k - m
  BY <1>1, <1>2, FS_Subset, Zenon
<1>4. Cardinality(Touch(s, x, m, k)) \in Nat
  BY <1>3, FS_CardinalityType, Zenon
<1>5. QED
  BY <1>3, <1>4, FS_EmptySet, Zenon

\* The touches of two adjacent slices add up.
LEMMA TouchesAdd ==
    ASSUME NEW s, NEW m \in Nat, NEW j \in Nat, NEW k \in Nat, NEW x, m <= j, j <= k
    PROVE  Cardinality(Touch(s, x, m, k))
             = Cardinality(Touch(s, x, m, j)) + Cardinality(Touch(s, x, j, k))
<1>1. Touch(s, x, m, k) = Touch(s, x, m, j) \cup Touch(s, x, j, k)
  <2>1. \A i : i \in (m + 1)..k <=> i \in (m + 1)..j \/ i \in (j + 1)..k
    OBVIOUS
  <2>2. QED
    BY <2>1, Zenon DEF Touch
<1>2. Touch(s, x, m, j) \cap Touch(s, x, j, k) = {}
  <2>1. \A i : ~(i \in (m + 1)..j /\ i \in (j + 1)..k)
    OBVIOUS
  <2>2. QED
    BY <2>1, Zenon DEF Touch
<1>3. IsFiniteSet(Touch(s, x, m, j)) /\ IsFiniteSet(Touch(s, x, j, k))
  BY TouchesCounted, Zenon
<1>4. /\ Cardinality(Touch(s, x, m, j)) \in Nat /\ Cardinality(Touch(s, x, j, k)) \in Nat
      /\ Cardinality({}) = 0
  BY <1>3, FS_CardinalityType, FS_EmptySet, Zenon
<1>5. Cardinality(Touch(s, x, m, j) \cup Touch(s, x, j, k))
        = Cardinality(Touch(s, x, m, j)) + Cardinality(Touch(s, x, j, k))
          - Cardinality(Touch(s, x, m, j) \cap Touch(s, x, j, k))
  BY <1>3, FS_Union, Zenon
<1>6. QED
  BY <1>1, <1>2, <1>4, <1>5


LEMMA LawsHold == Laws
<1>1. WellOrdered
  BY Least, Zenon DEF WellOrdered
<1>2. Counting
  <2>1. \A x : \A s \in Seq(Effects) : \A m \in 0..Len(s) : \A k \in m..Len(s) :
          Cardinality(Hits(SubSeq(s, m + 1, k), x)) = Cardinality(Touch(s, x, m, k))
    BY HitsCounted, Zenon
  <2>2. \A s, x : \A m, k \in Nat : m <= k =>
          /\ Cardinality(Touch(s, x, m, k)) \in Nat
          /\ Cardinality(Touch(s, x, m, k)) <= k - m
          /\ Cardinality(Touch(s, x, m, k)) = 0 <=> Touch(s, x, m, k) = {}
    BY TouchesCounted, Zenon
  <2>3. \A s, x : \A m, j, k \in Nat : m <= j /\ j <= k =>
          Cardinality(Touch(s, x, m, k))
             = Cardinality(Touch(s, x, m, j)) + Cardinality(Touch(s, x, j, k))
    <3>1. ASSUME NEW s, NEW x, NEW m \in Nat, NEW j \in Nat, NEW k \in Nat, m <= j, j <= k
          PROVE  Cardinality(Touch(s, x, m, k))
                   = Cardinality(Touch(s, x, m, j)) + Cardinality(Touch(s, x, j, k))
      BY <3>1, TouchesAdd
    <3>2. QED
      BY <3>1
  <2>4. QED
    BY <2>1, <2>2, <2>3, Zenon DEF Counting
<1>3. QED
  BY <1>1, <1>2, Zenon DEF Laws

-----------------------------------------------------------------------------
(* The theorems.                                                           *)

\* IInv and Exact hold throughout.
LEMMA ExactInvariance == Spec => [](IInv /\ Exact)
<1>1. Init => IInv /\ Exact
  BY InitInv, InitExact, LawsHold, Zenon
<1>2. IInv /\ Exact /\ [Next]_vars => (IInv /\ Exact)'
  BY NextStep, NextExact, LawsHold, Zenon
<1>3. QED
  BY <1>1, <1>2, PTL DEF Spec

\* The tracker database has the accounts of its own round, although a commit is
\* scheduled from a round that may be stale, dropped, cut down or retried, and
\* the process may die at any step of it (commitRound, accountsNewRound).
THEOREM DatabaseStaysExact == Spec => []DatabaseExact
<1>1. IInv /\ Exact => DatabaseExact
  BY Zenon DEF Exact
<1>2. QED
  BY <1>1, ExactInvariance, PTL

\* A lookup returns the account after every round its answer is said to be valid
\* for, although postCommit moves the deltas to the database between its steps,
\* and entries promoted by earlier lookups wait to be written to the cache
\* (lookupWithRewards, lookupWithoutRewards, flushPendingWrites).
THEOREM LookupsExact == Spec => []LookupExact
<1>1. IInv /\ Exact => LookupExact
  BY Zenon DEF Exact
<1>2. QED
  BY <1>1, ExactInvariance, PTL

\* accounts counts the deltas in memory that touch each account, so the
\* "inconsistency" panics of postCommit never happen, and what a commit flushes
\* is the beginning of the deltas (newBlockImpl, postCommit).
THEOREM CountsStayExact == Spec => []CountsExact
<1>1. ASSUME IInv, Exact PROVE CountsExact
  <2>1. /\ effects \in Seq(Effects) /\ Len(effects) = latest /\ latest \in Nat
        /\ dbRound \in Nat /\ dbRound <= latest
    BY <1>1, Bounds
  <2>2. dbRound \in 0..Len(effects) /\ latest \in dbRound..Len(effects)
    BY <2>1
  <2>3. ASSUME up, NEW x \in Addr PROVE accounts[x].ndeltas = Cardinality(Hits(deltas, x))
    <3>1. /\ deltas = SubSeq(effects, dbRound + 1, latest)
          /\ accounts[x].ndeltas = Cardinality(Touch(effects, x, dbRound, latest))
      BY <1>1, <2>3, Zenon DEF Exact, SlicesOK, AccountsOK, Tracks
    <3>2. QED
      BY <2>1, <2>2, <3>1, SliceCount, LawsHold, ZenonT(30)
  <2>4. ASSUME commit.pc \in {"write", "post"}
        PROVE  commit.es = SubSeq(deltas, 1, Len(commit.es))
    <3> DEFINE n == Len(commit.es)
    <3>1. n \in Nat /\ dbRound + n <= latest /\ commit.es = SubSeq(effects, dbRound + 1, dbRound + n)
      BY <1>1, <2>4, CommitRange, Zenon
    <3> HIDE DEF n
    <3>2. up
      BY <1>1, <2>4 DEF IInv, DownOK, Idle
    <3>3. deltas = SubSeq(effects, dbRound + 1, latest)
      BY <1>1, <3>2, Zenon DEF Exact, SlicesOK
    <3>4. n \in 0..(latest - dbRound)
      BY <2>1, <3>1
    <3>5. SubSeq(deltas, 1, n) = SubSeq(effects, dbRound + 1, dbRound + n)
      BY <2>1, <2>2, <3>3, <3>4, SliceOfSlice, Zenon
    <3>6. QED
      BY <3>1, <3>5, Zenon DEF n
  <2>5. QED
    BY <2>3, <2>4, Zenon DEF CountsExact
<1>2. IInv /\ Exact => CountsExact
  BY <1>1, Zenon
<1>3. QED
  BY <1>2, ExactInvariance, PTL

\* The block queue, the deltas and the databases cover the rounds they should.
THEOREM LedgerTypes == Spec => []TypeOK
<1>1. ASSUME IInv, Exact PROVE TypeOK
  <2>1. /\ effects \in Seq(Effects) /\ Len(effects) = latest /\ latest \in Nat /\ committed \in Nat
        /\ dbRound \in Nat /\ db.round \in Nat /\ dbRound <= db.round /\ db.round <= committed
        /\ committed <= latest /\ latest <= MaxRound
    BY <1>1, Bounds, Zenon
  <2>2. /\ deltas \in Seq(Effects) /\ (up => dbRound + Len(deltas) = latest)
        /\ latest \in 0..MaxRound /\ committed \in 0..latest
        /\ earliest \in Nat /\ earliest <= db.round /\ Len(deferred) <= 1
    BY <1>1, Zenon DEF IInv, Rounds, Recoverable, CanLoad, Exact, SlicesOK
  <2>3. earliest \in 0..committed /\ dbRound \in 0..latest /\ db.round \in 0..latest
    BY <2>1, <2>2
  <2>4. ASSUME NEW x \in Addr PROVE accounts[x].ndeltas \in 0..latest
    <3>1. CASE up
      <4>1. accounts[x].ndeltas = Cardinality(Touch(effects, x, dbRound, latest))
        BY <1>1, <3>1, Zenon DEF Exact, AccountsOK, Tracks
      <4>2. /\ Cardinality(Touch(effects, x, dbRound, latest)) \in Nat
            /\ Cardinality(Touch(effects, x, dbRound, latest)) <= latest - dbRound
        <5>1. dbRound <= latest
          BY <2>1
        <5>2. QED
          BY <2>1, <5>1, TouchFinite, LawsHold, Zenon
      <4>3. \A c \in Nat : c <= latest - dbRound => c \in 0..latest
        BY <2>1
      <4>4. QED
        BY <4>1, <4>2, <4>3, Zenon
    <3>2. CASE ~up
      <4>1. accounts[x] = Untouched
        BY <1>1, <3>2, Zenon DEF Exact, EmptyOK
      <4>2. QED
        BY <2>1, <4>1 DEF Untouched
    <3>3. QED
      BY <3>1, <3>2, Zenon
  <2>5. ASSUME NEW x \in Addr PROVE db.accts[x] \in Values
    <3>1. db.accts[x] = At(effects, x, db.round)
      BY <1>1, Zenon DEF Exact, DatabaseExact, ValueAt, At
    <3>2. db.round \in 0..Len(effects)
      BY <2>1, <2>3, Zenon
    <3>3. QED
      BY <2>1, <3>1, <3>2, AtType, LawsHold, Zenon
  <2>6. QED
    BY <2>1, <2>2, <2>3, <2>4, <2>5, Zenon DEF TypeOK
<1>2. IInv /\ Exact => TypeOK
  BY <1>1
<1>3. QED
  BY <1>2, ExactInvariance, PTL
=============================================================================
