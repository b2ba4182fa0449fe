---------------------------- MODULE LedgerSteps ----------------------------
(***************************************************************************)
(* What blocks, commits and restarts do to the accounts: the lemmas on     *)
(* which LedgerAccounts rests.                                             *)
(***************************************************************************)
EXTENDS LedgerInv, TLAPS

\* Time enough for every leaf on a loaded machine.
USE SMTT(30), ZenonT(30)

-----------------------------------------------------------------------------
(* Sequences.                                                              *)

LEMMA SeqLength ==
    ASSUME NEW S, NEW s \in Seq(S)
    PROVE  Len(s) \in Nat /\ s \in [1..Len(s) -> S] /\ DOMAIN s = 1..Len(s)
OBVIOUS

LEMMA SeqAppend ==
    ASSUME NEW S, NEW s \in Seq(S), NEW e \in S
    PROVE  /\ Append(s, e) \in Seq(S) /\ Append(s, e) # <<>>
           /\ Len(Append(s, e)) = Len(s) + 1
           /\ \A i \in 1..Len(s) : Append(s, e)[i] = s[i]
           /\ Append(s, e)[Len(s) + 1] = e
OBVIOUS

LEMMA SeqSame ==
    ASSUME NEW S, NEW s \in Seq(S), NEW t \in Seq(S),
           Len(s) = Len(t), \A i \in 1..Len(s) : s[i] = t[i]
    PROVE  s = t
OBVIOUS

LEMMA SeqSlice ==
    ASSUME NEW S, NEW s, NEW m \in Int, NEW n \in Int, \A i \in m..n : s[i] \in S
    PROVE  /\ SubSeq(s, m, n) \in Seq(S)
           /\ Len(SubSeq(s, m, n)) = IF m <= n THEN n - m + 1 ELSE 0
           /\ \A i \in 1..(n - m + 1) : SubSeq(s, m, n)[i] = s[m + i - 1]
OBVIOUS

LEMMA SeqElement ==
    ASSUME NEW S, NEW s \in Seq(S), NEW n \in 1..Len(s)
    PROVE  s[n] \in S
OBVIOUS

LEMMA SeqJoin ==
    ASSUME NEW S, NEW s \in Seq(S), NEW t \in Seq(S)
    PROVE  /\ s \o t \in Seq(S) /\ Len(s \o t) = Len(s) + Len(t)
           /\ \A i \in 1..(Len(s) + Len(t)) :
                (s \o t)[i] = IF i <= Len(s) THEN s[i] ELSE t[i - Len(s)]
OBVIOUS

LEMMA SeqNoSlice ==
    ASSUME NEW s, NEW m \in Int, NEW n \in Int, n < m
    PROVE  SubSeq(s, m, n) = <<>>
OBVIOUS

-----------------------------------------------------------------------------
(* Slices of the effects.                                                  *)

\* What the steps use of the numbers, and of sets that are counted.
\* LedgerAccounts shows that it holds.
WellOrdered == \A T \in SUBSET Nat : T # {} => \E n \in T : \A m \in T : n <= m

Counting ==
    /\ \A x : \A s \in Seq(Effects) : \A m \in 0..Len(s) : \A k \in m..Len(s) :
         Cardinality(Hits(SubSeq(s, m + 1, k), x)) = Cardinality(Touch(s, x, m, k))
    /\ \A s, x : \A m, k \in Nat : m <= k =>
         /\ Cardinality(Touch(s, x, m, k)) \in Nat
         /\ Cardinality(Touch(s, x, m, k)) <= k - m
         /\ Cardinality(Touch(s, x, m, k)) = 0 <=> Touch(s, x, m, k) = {}
    /\ \A s, x : \A m, j, k \in Nat : m <= j /\ j <= k =>
         Cardinality(Touch(s, x, m, k))
            = Cardinality(Touch(s, x, m, j)) + Cardinality(Touch(s, x, j, k))

Laws == WellOrdered /\ Counting

\* A set of numbers up to a bound has a greatest one.
LEMMA Greatest ==
    ASSUME Laws, NEW n \in Nat, NEW T, T \subseteq 0..n, T # {}
    PROVE  \E k \in T : \A j \in T : j <= k
<1> DEFINE D == {n - k : k \in T}
<1>1. D \subseteq Nat /\ D # {}
  <2>1. ASSUME NEW k \in T PROVE n - k \in Nat
    OBVIOUS
  <2>2. PICK k : k \in T
    BY Zenon
  <2>3. n - k \in D
    BY <2>2, Zenon
  <2>4. QED
    BY <2>1, <2>3, Zenon
<1>2. PICK d \in D : \A c \in D : d <= c
  <2> HIDE DEF D
  <2> QED
    BY <1>1, Zenon DEF Laws, WellOrdered
<1>3. PICK k \in T : d = n - k
  BY Zenon
<1>4. ASSUME NEW j \in T PROVE j <= k
  <2>1. n - j \in D
    BY Zenon
  <2>2. n - k <= n - j
    BY <1>2, <1>3, <2>1, Zenon
  <2> HIDE DEF D
  <2>3. j \in Nat /\ k \in Nat
    OBVIOUS
  <2>4. QED
    BY <2>2, <2>3
<1>5. QED
  BY <1>4, Zenon

\* Max picks the greatest.
LEMMA MaxIs ==
    ASSUME NEW T, T \subseteq Nat, NEW k \in T, \A j \in T : j <= k
    PROVE  Max(T) = k
<1>1. \A y \in T : k >= y
  BY Zenon
<1>2. \A x \in T : (\A y \in T : x >= y) => x = k
  OBVIOUS
<1>3. QED
  BY <1>1, <1>2, Zenon DEF Max

\* The effects of the rounds after m and up to k.
LEMMA Slice ==
    ASSUME NEW s \in Seq(Effects), NEW m \in 0..Len(s), NEW k \in m..Len(s)
    PROVE  /\ SubSeq(s, m + 1, k) \in Seq(Effects)
           /\ Len(SubSeq(s, m + 1, k)) = k - m
           /\ DOMAIN SubSeq(s, m + 1, k) = 1..(k - m)
           /\ \A i \in 1..(k - m) : SubSeq(s, m + 1, k)[i] = s[m + i]
<1>1. \A i \in (m + 1)..k : s[i] \in Effects
  BY SeqElement
<1>2. m + 1 \in Int /\ k \in Int /\ m \in Nat /\ k \in Nat /\ m <= k
  OBVIOUS
<1>3. /\ SubSeq(s, m + 1, k) \in Seq(Effects)
      /\ Len(SubSeq(s, m + 1, k)) = IF m + 1 <= k THEN k - (m + 1) + 1 ELSE 0
      /\ \A i \in 1..(k - (m + 1) + 1) : SubSeq(s, m + 1, k)[i] = s[(m + 1) + i - 1]
  BY <1>1, <1>2, SeqSlice
<1>4. QED
  BY <1>2, <1>3

\* Where a slice touches x.
LEMMA SliceHits ==
    ASSUME NEW s \in Seq(Effects), NEW m \in 0..Len(s), NEW k \in m..Len(s), NEW x
    PROVE  \A i : i \in Hits(SubSeq(s, m + 1, k), x)
                  <=> i \in 1..(k - m) /\ m + i \in Touch(s, x, m, k)
<1> DEFINE c == SubSeq(s, m + 1, k)
<1>1. DOMAIN c = 1..(k - m) /\ \A i \in 1..(k - m) : c[i] = s[m + i]
  BY Slice, Zenon
<1> HIDE DEF c
<1>2. ASSUME NEW i PROVE i \in Hits(c, x) <=> i \in 1..(k - m) /\ m + i \in Touch(s, x, m, k)
  <2>1. i \in 1..(k - m) => m + i \in (m + 1)..k /\ c[i] = s[m + i]
    BY <1>1
  <2>2. QED
    BY <1>1, <2>1, Zenon DEF Hits, Touch
<1>3. QED
  BY <1>2, Zenon DEF c

\* A slice that does not touch x leaves it as it was.
LEMMA SliceMisses ==
    ASSUME NEW s \in Seq(Effects), NEW m \in 0..Len(s), NEW k \in m..Len(s), NEW x, NEW v,
           Touch(s, x, m, k) = {}
    PROVE  Hits(SubSeq(s, m + 1, k), x) = {} /\ ValueAfter(v, SubSeq(s, m + 1, k), x) = v
<1>1. Hits(SubSeq(s, m + 1, k), x) = {}
  BY SliceHits, Zenon
<1>2. QED
  BY <1>1, Zenon DEF ValueAfter

\* i is the last of them.
Last(i, s, x, m, k) == i \in Touch(s, x, m, k) /\ \A j \in Touch(s, x, m, k) : j <= i

\* Otherwise the last round that touches it decides.
LEMMA SliceDecides ==
    ASSUME NEW s \in Seq(Effects), NEW m \in 0..Len(s), NEW k \in m..Len(s), NEW x, NEW v,
           NEW i, Last(i, s, x, m, k)
    PROVE  /\ Hits(SubSeq(s, m + 1, k), x) # {}
           /\ ValueAfter(v, SubSeq(s, m + 1, k), x) = Value(s[i])
<1> DEFINE c == SubSeq(s, m + 1, k)
           H == Hits(c, x)
<1>1. \A j : j \in H <=> j \in 1..(k - m) /\ m + j \in Touch(s, x, m, k)
  BY SliceHits, Zenon
<1>2. \A j \in 1..(k - m) : c[j] = s[m + j]
  BY Slice, Zenon
<1> HIDE DEF c, H
<1>3. i \in (m + 1)..k /\ m \in Nat /\ k \in Nat
  BY DEF Touch, Last
<1>4. i - m \in 1..(k - m) /\ m + (i - m) = i
  BY <1>3
<1>5. i - m \in H /\ H \subseteq Nat
  BY <1>1, <1>4 DEF Last
<1>6. ASSUME NEW j \in H PROVE j <= i - m
  <2>1. j \in 1..(k - m) /\ m + j <= i
    BY <1>1, Zenon DEF Last
  <2>2. QED
    BY <1>3, <2>1
<1>7. Max(H) = i - m
  BY <1>5, <1>6, MaxIs, Zenon
<1>8. ValueAfter(v, c, x) = Value(c[i - m])
  BY <1>5, <1>7, Zenon DEF ValueAfter, H
<1>9. c[i - m] = s[i]
  BY <1>2, <1>4, Zenon
<1>10. QED
  BY <1>5, <1>8, <1>9, Zenon DEF c, H

\* There is such a round.
LEMMA LastTouch ==
    ASSUME Laws, NEW s, NEW x, NEW m \in Nat, NEW k \in Nat, Touch(s, x, m, k) # {}
    PROVE  \E i : Last(i, s, x, m, k)
<1>1. Touch(s, x, m, k) \subseteq 0..k
  BY DEF Touch
<1>2. QED
  BY <1>1, Greatest, Zenon DEF Last

\* What x is worth does not change over rounds that do not touch it.
LEMMA AtKept ==
    ASSUME Laws, NEW s \in Seq(Effects), NEW m \in 0..Len(s), NEW k \in m..Len(s), NEW x,
           Touch(s, x, m, k) = {}
    PROVE  At(s, x, k) = At(s, x, m)
<1>1. /\ m \in Nat /\ k \in Nat /\ m <= k /\ 0 + 1 = 1
      /\ m \in 0..Len(s) /\ k \in 0..Len(s) /\ 0 \in 0..Len(s)
  OBVIOUS
<1>2. Touch(s, x, 0, k) = Touch(s, x, 0, m)
  <2>1. \A i \in 1..k : i \in 1..m \/ i \in (m + 1)..k
    BY <1>1
  <2>2. \A i \in 1..m : i \in 1..k
    BY <1>1
  <2>3. QED
    BY <1>1, <2>1, <2>2, Zenon DEF Touch
<1>3. CASE Touch(s, x, 0, k) = {}
  <2>1. At(s, x, k) = Genesis /\ At(s, x, m) = Genesis
    BY <1>1, <1>2, <1>3, SliceMisses DEF At
  <2>2. QED
    BY <2>1, Zenon
<1>4. CASE Touch(s, x, 0, k) # {}
  <2>1. PICK i : Last(i, s, x, 0, k)
    BY <1>1, <1>4, LastTouch, Zenon
  <2>2. Last(i, s, x, 0, m)
    BY <1>2, <2>1, Zenon DEF Last
  <2>3. At(s, x, k) = Value(s[i])
    BY <1>1, <2>1, SliceDecides DEF At
  <2>4. At(s, x, m) = Value(s[i])
    BY <1>1, <2>2, SliceDecides DEF At
  <2>5. QED
    BY <2>3, <2>4, Zenon
<1>5. QED
  BY <1>3, <1>4, Zenon

\* What x is worth after a slice that touches it does not depend on before.
LEMMA AtDecided ==
    ASSUME Laws, NEW s \in Seq(Effects), NEW m \in 0..Len(s), NEW k \in m..Len(s), NEW x, NEW v,
           Touch(s, x, m, k) # {}
    PROVE  /\ ValueAfter(v, SubSeq(s, m + 1, k), x) = At(s, x, k)
           /\ Hits(SubSeq(s, m + 1, k), x) # {}
<1>1. /\ m \in Nat /\ k \in Nat /\ m <= k /\ 0 + 1 = 1
      /\ m \in 0..Len(s) /\ k \in 0..Len(s) /\ 0 \in 0..Len(s)
  OBVIOUS
<1>2. PICK i : Last(i, s, x, m, k)
  BY <1>1, LastTouch, Zenon
<1>3. /\ Hits(SubSeq(s, m + 1, k), x) # {}
      /\ ValueAfter(v, SubSeq(s, m + 1, k), x) = Value(s[i])
  <2>1. Hits(SubSeq(s, m + 1, k), x) # {}
    BY <1>2, SliceDecides, Zenon
  <2>2. ValueAfter(v, SubSeq(s, m + 1, k), x) = Value(s[i])
    BY <1>2, SliceDecides
  <2>3. QED
    BY <2>1, <2>2, Zenon
<1>4. Last(i, s, x, 0, k)
  <2>1. i \in (m + 1)..k /\ x \in s[i].touched
    BY <1>2, Zenon DEF Touch, Last
  <2>2. i \in Touch(s, x, 0, k)
    BY <1>1, <2>1 DEF Touch
  <2>3. ASSUME NEW j \in Touch(s, x, 0, k) PROVE j <= i
    <3>1. j \in 1..k /\ x \in s[j].touched
      BY <1>1, Zenon DEF Touch
    <3>2. CASE j \in (m + 1)..k
      BY <1>2, <3>1, <3>2, Zenon DEF Touch, Last
    <3>3. CASE j <= m
      BY <1>1, <2>1, <3>1, <3>3
    <3>4. QED
      BY <1>1, <3>1, <3>2, <3>3
  <2>4. QED
    BY <2>2, <2>3, Zenon DEF Last
<1>5. At(s, x, k) = Value(s[i])
  BY <1>1, <1>4, SliceDecides DEF At
<1>6. QED
  BY <1>3, <1>5, Zenon

\* A slice takes x from what it was worth before to what it is worth after.
LEMMA AtComposes ==
    ASSUME Laws, NEW s \in Seq(Effects), NEW m \in 0..Len(s), NEW k \in m..Len(s), NEW x
    PROVE  ValueAfter(At(s, x, m), SubSeq(s, m + 1, k), x) = At(s, x, k)
<1>1. CASE Touch(s, x, m, k) = {}
  BY <1>1, SliceMisses, AtKept
<1>2. CASE Touch(s, x, m, k) # {}
  BY <1>2, AtDecided, Zenon
<1>3. QED
  BY <1>1, <1>2, Zenon

\* A value of an account.
LEMMA AtType ==
    ASSUME Laws, NEW s \in Seq(Effects), NEW q \in 0..Len(s), NEW x
    PROVE  At(s, x, q) \in Values
<1>1. 0 \in 0..Len(s) /\ q \in Nat /\ 0 + 1 = 1
  OBVIOUS
<1>2. CASE Touch(s, x, 0, q) = {}
  <2>1. At(s, x, q) = Genesis
    BY <1>1, <1>2, SliceMisses DEF At
  <2>2. QED
    BY <2>1, Zenon DEF Genesis, Values
<1>3. CASE Touch(s, x, 0, q) # {}
  <2>1. PICK i : Last(i, s, x, 0, q)
    BY <1>1, <1>3, LastTouch, Zenon
  <2>2. At(s, x, q) = Value(s[i])
    BY <1>1, <2>1, SliceDecides DEF At
  <2>3. i \in 1..Len(s)
    BY <1>1, <2>1 DEF Touch, Last
  <2>4. s[i] \in Effects
    BY <2>3, SeqElement, Zenon
  <2>5. s[i].round \in 1..MaxRound /\ s[i].payee \in Payees \cup {sink}
    BY <2>4, Zenon DEF Effects
  <2>6. Value(s[i]) \in (1..MaxRound) \X (Payees \cup {sink})
    BY <2>5, Zenon DEF Value
  <2>7. QED
    BY <2>2, <2>6, Zenon DEF Values
<1>4. QED
  BY <1>2, <1>3, Zenon

\* It only depends on the effects up to its round.
LEMMA AtPrefix ==
    ASSUME NEW s \in Seq(Effects), NEW t \in Seq(Effects),
           NEW q \in 0..Len(s), q <= Len(t), \A i \in 1..q : s[i] = t[i]
    PROVE  \A x : At(s, x, q) = At(t, x, q)
<1>1. /\ 0 \in 0..Len(s) /\ 0 \in 0..Len(t) /\ q \in 0..Len(t) /\ q \in Nat
      /\ 0 + 1 = 1 /\ q - 0 = q /\ \A i \in 1..q : 0 + i = i
  OBVIOUS
<1>2. /\ SubSeq(s, 1, q) \in Seq(Effects) /\ Len(SubSeq(s, 1, q)) = q
      /\ \A i \in 1..q : SubSeq(s, 1, q)[i] = s[i]
  BY <1>1, Slice
<1>3. /\ SubSeq(t, 1, q) \in Seq(Effects) /\ Len(SubSeq(t, 1, q)) = q
      /\ \A i \in 1..q : SubSeq(t, 1, q)[i] = t[i]
  BY <1>1, Slice
<1>4. SubSeq(s, 1, q) = SubSeq(t, 1, q)
  BY <1>2, <1>3, SeqSame, Zenon
<1>5. QED
  BY <1>4, Zenon DEF At

\* How often a slice touches x.
LEMMA SliceCount ==
    ASSUME Laws, NEW s \in Seq(Effects), NEW m \in 0..Len(s), NEW k \in m..Len(s), NEW x
    PROVE  Cardinality(Hits(SubSeq(s, m + 1, k), x)) = Cardinality(Touch(s, x, m, k))
BY DEF Laws, Counting

\* Touches are finite in number, no more than the rounds.
LEMMA TouchFinite ==
    ASSUME Laws, NEW s, NEW m \in Nat, NEW k \in Nat, NEW x, m <= k
    PROVE  /\ Cardinality(Touch(s, x, m, k)) \in Nat
           /\ Cardinality(Touch(s, x, m, k)) <= k - m
           /\ Cardinality(Touch(s, x, m, k)) = 0 <=> Touch(s, x, m, k) = {}
BY Zenon DEF Laws, Counting

\* The touches of two adjacent slices add up.
LEMMA TouchSplit ==
    ASSUME Laws, NEW s, NEW m \in Nat, NEW j \in Nat, NEW k \in Nat, NEW x, m <= j, j <= k
    PROVE  /\ Touch(s, x, m, k) = Touch(s, x, m, j) \cup Touch(s, x, j, k)
           /\ Cardinality(Touch(s, x, m, k))
                = Cardinality(Touch(s, x, m, j)) + Cardinality(Touch(s, x, j, k))
<1>1. Touch(s, x, m, k) = Touch(s, x, m, j) \cup Touch(s, x, j, k)
  <2>1. \A i : i \in (m + 1)..k <=> i \in (m + 1)..j \/ i \in (j + 1)..k
    OBVIOUS
  <2>2. QED
    BY <2>1, Zenon DEF Touch
<1>2. Cardinality(Touch(s, x, m, k))
        = Cardinality(Touch(s, x, m, j)) + Cardinality(Touch(s, x, j, k))
  BY DEF Laws, Counting
<1>3. QED
  BY <1>1, <1>2, Zenon

-----------------------------------------------------------------------------
(* The counts of the accounts.                                             *)

\* newBlock counts the rounds it is given.
LEMMA CountedTracks ==
    ASSUME Laws, NEW s \in Seq(Effects), NEW m \in 0..Len(s), NEW j \in m..Len(s),
           NEW k \in j..Len(s), NEW as \in [Addr -> Account], NEW x \in Addr,
           Tracks(as[x], s, x, m, j)
    PROVE  /\ Counted(as, SubSeq(s, j + 1, k))[x] \in Account
           /\ Tracks(Counted(as, SubSeq(s, j + 1, k))[x], s, x, m, k)
<1> DEFINE es == SubSeq(s, j + 1, k)
<1>1. m \in Nat /\ j \in Nat /\ k \in Nat /\ m <= j /\ j <= k /\ j \in 0..Len(s) /\ k \in 0..Len(s)
  OBVIOUS
<1>2. /\ Touch(s, x, m, k) = Touch(s, x, m, j) \cup Touch(s, x, j, k)
      /\ Cardinality(Touch(s, x, m, k))
           = Cardinality(Touch(s, x, m, j)) + Cardinality(Touch(s, x, j, k))
  BY <1>1, TouchSplit
<1>3. CASE Touch(s, x, j, k) = {}
  <2>1. Hits(es, x) = {}
    BY <1>1, <1>3, SliceMisses, Zenon
  <2>2. Counted(as, es)[x] = as[x]
    BY <2>1, Zenon DEF Counted
  <2>3. At(s, x, k) = At(s, x, j)
    BY <1>1, <1>3, AtKept
  <2>4. Touch(s, x, m, k) = Touch(s, x, m, j)
    BY <1>2, <1>3, Zenon
  <2>5. QED
    BY <2>2, <2>3, <2>4, Zenon DEF Tracks
<1>4. CASE Touch(s, x, j, k) # {}
  <2>1. Hits(es, x) # {} /\ ValueAfter(as[x].data, es, x) = At(s, x, k)
    BY <1>1, <1>4, AtDecided, ZenonT(30)
  <2>2. Cardinality(Hits(es, x)) = Cardinality(Touch(s, x, j, k))
    BY <1>1, SliceCount, Zenon
  <2> HIDE DEF es
  <2>3. Counted(as, es)[x] = [ndeltas |-> as[x].ndeltas + Cardinality(Hits(es, x)),
                              data |-> ValueAfter(as[x].data, es, x)]
    BY <2>1, Zenon DEF Counted
  <2>4. as[x].ndeltas = Cardinality(Touch(s, x, m, j))
    BY Zenon DEF Tracks
  <2>5. /\ Cardinality(Touch(s, x, m, j)) \in Nat /\ Cardinality(Touch(s, x, j, k)) \in Nat
    BY <1>1, TouchFinite, Zenon
  <2>6. At(s, x, k) \in Values
    BY <1>1, AtType, Zenon
  <2>7. Counted(as, es)[x] = [ndeltas |-> Cardinality(Touch(s, x, m, k)), data |-> At(s, x, k)]
    BY <1>2, <2>1, <2>2, <2>3, <2>4, Zenon
  <2>8. Cardinality(Touch(s, x, m, k)) \in Nat
    BY <1>2, <2>5
  <2>9. Counted(as, es)[x] \in Account
    BY <2>6, <2>7, <2>8 DEF Account
  <2>10. Tracks(Counted(as, es)[x], s, x, m, k)
    BY <2>7 DEF Tracks
  <2>11. QED
    BY <2>9, <2>10, Zenon DEF es
<1>5. QED
  BY <1>3, <1>4, Zenon

\* postCommit takes away what it stored: its "inconsistency" is impossible.
LEMMA ReleasedTracks ==
    ASSUME Laws, NEW s \in Seq(Effects), NEW m \in 0..Len(s), NEW j \in m..Len(s),
           NEW k \in j..Len(s), NEW as \in [Addr -> Account], NEW x \in Addr,
           Tracks(as[x], s, x, m, k)
    PROVE  /\ Released(as, SubSeq(s, m + 1, j))[x] \in Account
           /\ Tracks(Released(as, SubSeq(s, m + 1, j))[x], s, x, j, k)
<1> DEFINE es == SubSeq(s, m + 1, j)
           a == as[x]
<1>1. m \in Nat /\ j \in Nat /\ k \in Nat /\ m <= j /\ j <= k
  OBVIOUS
<1>2. /\ Touch(s, x, m, k) = Touch(s, x, m, j) \cup Touch(s, x, j, k)
      /\ Cardinality(Touch(s, x, m, k))
           = Cardinality(Touch(s, x, m, j)) + Cardinality(Touch(s, x, j, k))
  BY <1>1, TouchSplit
<1>3. Cardinality(Hits(es, x)) = Cardinality(Touch(s, x, m, j))
  BY SliceCount, Zenon
<1>4. /\ Cardinality(Touch(s, x, m, j)) \in Nat /\ Cardinality(Touch(s, x, j, k)) \in Nat
      /\ Cardinality(Touch(s, x, j, k)) = 0 <=> Touch(s, x, j, k) = {}
  BY <1>1, TouchFinite, Zenon
<1>5. a \in Account /\ a.ndeltas = Cardinality(Touch(s, x, m, k))
  BY Zenon DEF Tracks
<1> HIDE DEF es, a
<1>6. Released(as, es)[x] = IF a.ndeltas = Cardinality(Hits(es, x)) THEN Untouched
                            ELSE [a EXCEPT !.ndeltas = @ - Cardinality(Hits(es, x))]
  BY Zenon DEF Released, a
<1>7. CASE Touch(s, x, j, k) = {}
  <2>1. a.ndeltas = Cardinality(Hits(es, x))
    BY <1>2, <1>3, <1>4, <1>5, <1>7, Zenon
  <2>2. Released(as, es)[x] = Untouched
    BY <1>6, <2>1, Zenon
  <2>3. Untouched \in Account
    BY Zenon DEF Untouched, Account, Genesis, Values
  <2>4. Tracks(Untouched, s, x, j, k)
    BY <1>4, <1>7, Zenon DEF Untouched, Tracks
  <2>5. QED
    BY <2>2, <2>3, <2>4, Zenon DEF es
<1>8. CASE Touch(s, x, j, k) # {}
  <2>1. a.ndeltas # Cardinality(Hits(es, x))
    BY <1>2, <1>3, <1>4, <1>5, <1>8
  <2>2. Released(as, es)[x] = [a EXCEPT !.ndeltas = @ - Cardinality(Hits(es, x))]
    BY <1>6, <2>1, Zenon
  <2>3. a.ndeltas - Cardinality(Hits(es, x)) = Cardinality(Touch(s, x, j, k))
    BY <1>2, <1>3, <1>4, <1>5
  <2>4. a.data = At(s, x, k)
    BY <1>2, <1>8, Zenon DEF Tracks, a
  <2>5. Released(as, es)[x] = [ndeltas |-> Cardinality(Touch(s, x, j, k)), data |-> a.data]
    BY <1>5, <2>2, <2>3, Zenon DEF Account
  <2>6. a.data \in Values
    BY <1>5, Zenon DEF Account
  <2>7. Released(as, es)[x] \in Account
    BY <1>4, <2>5, <2>6 DEF Account
  <2>8. Tracks(Released(as, es)[x], s, x, j, k)
    BY <2>4, <2>5 DEF Tracks
  <2>9. QED
    BY <2>7, <2>8, Zenon DEF es
<1>9. QED
  BY <1>7, <1>8, Zenon

\* A part of the deltas is a slice too, and so is the rest of them.
LEMMA SliceOfSlice ==
    ASSUME NEW s \in Seq(Effects), NEW m \in 0..Len(s), NEW k \in m..Len(s), NEW n \in 0..(k - m)
    PROVE  /\ SubSeq(SubSeq(s, m + 1, k), 1, n) = SubSeq(s, m + 1, m + n)
           /\ SubSeq(SubSeq(s, m + 1, k), n + 1, k - m) = SubSeq(s, m + n + 1, k)
<1> DEFINE c == SubSeq(s, m + 1, k)
           a == SubSeq(c, 1, n)
           b == SubSeq(c, n + 1, k - m)
           a2 == SubSeq(s, m + 1, m + n)
           b2 == SubSeq(s, m + n + 1, k)
<1>1. /\ m \in Nat /\ k \in Nat /\ n \in Nat /\ m <= k /\ n <= k - m /\ k - m \in Nat
      /\ m + n \in m..Len(s) /\ m + n \in 0..Len(s) /\ k \in (m + n)..Len(s)
  OBVIOUS
<1>2. c \in Seq(Effects) /\ Len(c) = k - m /\ \A i \in 1..(k - m) : c[i] = s[m + i]
  BY Slice, Zenon
<1> HIDE DEF c
<1>3. /\ a \in Seq(Effects) /\ Len(a) = n /\ \A i \in 1..n : a[i] = c[i]
  <2>1. 0 \in 0..Len(c) /\ n \in 0..Len(c) /\ 0 + 1 = 1 /\ n - 0 = n /\ \A i \in 1..n : 0 + i = i
    BY <1>1, <1>2
  <2>2. QED
    BY <1>2, <2>1, Slice
<1>4. /\ b \in Seq(Effects) /\ Len(b) = k - m - n /\ \A i \in 1..(k - m - n) : b[i] = c[n + i]
  <2>1. n \in 0..Len(c) /\ k - m \in n..Len(c)
    BY <1>1, <1>2
  <2>2. QED
    BY <1>2, <2>1, Slice, Zenon
<1>5. /\ a2 \in Seq(Effects) /\ Len(a2) = m + n - m /\ \A i \in 1..(m + n - m) : a2[i] = s[m + i]
  BY <1>1, Slice
<1>6. /\ b2 \in Seq(Effects) /\ Len(b2) = k - (m + n)
      /\ \A i \in 1..(k - (m + n)) : b2[i] = s[m + n + i]
  BY <1>1, Slice, Zenon
<1> HIDE DEF a, b, a2, b2
<1>7. a = a2
  <2>1. m + n - m = n
    BY <1>1
  <2>2. ASSUME NEW i \in 1..n PROVE a[i] = a2[i]
    <3>1. i \in 1..(k - m)
      BY <1>1
    <3>2. c[i] = s[m + i] /\ a[i] = c[i]
      BY <1>2, <1>3, <3>1, Zenon
    <3>3. a2[i] = s[m + i]
      BY <1>5, <2>1, Zenon
    <3>4. QED
      BY <3>2, <3>3, Zenon
  <2>3. Len(a) = n /\ Len(a2) = n
    BY <1>3, <1>5, <2>1, Zenon
  <2>4. QED
    BY <1>3, <1>5, <2>2, <2>3, SeqSame, Zenon
<1>8. b = b2
  <2>1. k - (m + n) = k - m - n
    BY <1>1
  <2>2. \A i \in 1..(k - m - n) : n + i \in 1..(k - m) /\ m + (n + i) = m + n + i
    BY <1>1
  <2>3. ASSUME NEW i \in 1..(k - m - n) PROVE b[i] = b2[i]
    <3>1. b[i] = c[n + i] /\ c[n + i] = s[m + (n + i)]
      BY <1>2, <1>4, <2>2, Zenon
    <3>2. b2[i] = s[m + n + i]
      BY <1>6, <2>1, Zenon
    <3>3. QED
      BY <2>2, <3>1, <3>2, Zenon
  <2>4. Len(b) = k - m - n /\ Len(b2) = k - m - n
    BY <1>4, <1>6, <2>1, Zenon
  <2>5. QED
    BY <1>4, <1>6, <2>3, <2>4, SeqSame, Zenon
<1>9. QED
  BY <1>7, <1>8, Zenon DEF a, b, a2, b2, c

-----------------------------------------------------------------------------
(* The cache.                                                              *)

\* postCommit writes what it stored to the cache, over whatever is older.
LEMMA RebasedFresh ==
    ASSUME Laws, NEW s \in Seq(Effects), NEW m \in 0..Len(s), NEW j \in m..Len(s), j <= MaxRound,
           NEW x \in Addr, NEW b, EntryOK(b[x], s, x, m)
    PROVE  /\ EntryOK(Rebased(b, SubSeq(s, m + 1, j), j)[x], s, x, j)
           /\ \A r \in 0..m : \A v : Fresh(b[x], s, x, m, r, v)
                => Fresh(Rebased(b, SubSeq(s, m + 1, j), j)[x], s, x, j, r, v)
<1> DEFINE es == SubSeq(s, m + 1, j)
           c == Rebased(b, es, j)[x]
           new == [round |-> j, data |-> At(s, x, j)]
<1>1. m \in Nat /\ j \in Nat /\ m <= j /\ j \in 0..Len(s)
  OBVIOUS
<1>2. CASE Touch(s, x, m, j) = {}
  <2>1. Hits(es, x) = {} /\ At(s, x, j) = At(s, x, m)
    BY <1>2, SliceMisses, AtKept, ZenonT(30)
  <2> HIDE DEF es
  <2>2. c = b[x]
    BY <2>1, Zenon DEF Rebased
  <2> HIDE DEF c
  <2>3. EntryOK(c, s, x, j)
    <3>1. CASE b[x] = none
      BY <2>2, <3>1, Zenon DEF EntryOK
    <3>2. CASE b[x] # none
      <4>1. b[x] \in Entries /\ b[x].round <= m /\ b[x].data = At(s, x, m)
        BY <3>2, Zenon DEF EntryOK
      <4>2. b[x].round \in Nat
        BY <4>1, LookbackAssumption DEF Entries
      <4>3. b[x].round <= j
        BY <1>1, <4>1, <4>2
      <4>4. QED
        BY <2>1, <2>2, <4>1, <4>3, Zenon DEF EntryOK
    <3>3. QED
      BY <3>1, <3>2, Zenon
  <2>4. \A r, v : Fresh(b[x], s, x, m, r, v) => Fresh(c, s, x, j, r, v)
    BY <2>1, <2>2, Zenon DEF Fresh
  <2>5. QED
    BY <2>3, <2>4, Zenon DEF c, es
<1>3. CASE Touch(s, x, m, j) # {}
  <2>1. Hits(es, x) # {} /\ ValueAfter(Genesis, es, x) = At(s, x, j)
    BY <1>3, AtDecided, Zenon
  <2> HIDE DEF es
  <2>2. At(s, x, j) \in Values
    BY <1>1, AtType, Zenon
  <2>3. new \in Entries
    BY <1>1, <2>2, LookbackAssumption DEF Entries
  <2>4. new # none
    BY <2>3, NoneAssumption, Zenon
  <2>5. m < j
    <3>1. \E i : i \in (m + 1)..j
      BY <1>3, Zenon DEF Touch
    <3>2. QED
      BY <1>1, <3>1
  <2>6. c = Written(b[x], new)
    BY <2>1, Zenon DEF Rebased
  <2>7. b[x] = none \/ b[x].round < new.round
    <3>1. CASE b[x] # none
      <4>1. b[x] \in Entries /\ b[x].round <= m
        BY <3>1, Zenon DEF EntryOK
      <4>2. b[x].round \in Nat
        BY <4>1, LookbackAssumption DEF Entries
      <4>3. b[x].round < j
        BY <1>1, <2>5, <4>1, <4>2
      <4>4. QED
        BY <4>3, Zenon
    <3>2. QED
      BY <3>1, Zenon
  <2>8. c = new
    BY <2>6, <2>7, Zenon DEF Written
  <2> HIDE DEF c
  <2>9. EntryOK(c, s, x, j)
    BY <1>1, <2>3, <2>8 DEF EntryOK
  <2>10. \A r \in 0..m : c.round > r
    BY <1>1, <2>5, <2>8
  <2>11. c # none
    BY <2>4, <2>8, Zenon
  <2>12. \A r \in 0..m : \A v : Fresh(c, s, x, j, r, v)
    BY <2>10, <2>11, Zenon DEF Fresh
  <2>13. QED
    BY <2>9, <2>12, Zenon DEF c, es
<1>4. QED
  BY <1>2, <1>3, Zenon

\* flushPendingWrites writes no value the database does not have any more.
LEMMA FlushedFresh ==
    ASSUME Laws, NEW s \in Seq(Effects), NEW d \in 0..Len(s), d <= MaxRound, NEW x \in Addr,
           EntryOK(base[x], s, x, d),
           \A p \in pending : p.addr = x =>
             p.round \in 0..d /\ Fresh(base[x], s, x, d, p.round, p.data)
    PROVE  EntryOK(Flushed(x), s, x, d)
<1> DEFINE ps == {p \in pending : p.addr = x}
           p0 == CHOOSE p \in ps : \A q \in ps : q.round <= p.round
<1>1. CASE ps = {}
  <2>1. Flushed(x) = base[x]
    BY <1>1, Zenon DEF Flushed
  <2>2. QED
    BY <2>1, Zenon
<1>2. CASE ps # {}
  <2>1. \E p \in ps : \A q \in ps : q.round <= p.round
    <3> DEFINE R == {p.round : p \in ps}
    <3>1. R \subseteq 0..d /\ R # {} /\ d \in Nat
      BY <1>2
    <3>2. PICK k \in R : \A j \in R : j <= k
      <4> HIDE DEF R
      <4> QED
        BY <3>1, Greatest, Zenon
    <3>3. QED
      BY <3>2, Zenon
  <2>2. p0 \in ps
    <3> HIDE DEF ps
    <3> QED
      BY <2>1, Zenon
  <2>3. Flushed(x) = Written(base[x], Entry(p0))
    BY <1>2, Zenon DEF Flushed
  <2> HIDE DEF p0
  <2>4. p0.round \in 0..d /\ Fresh(base[x], s, x, d, p0.round, p0.data)
    BY <2>2, Zenon
  <2>5. Entry(p0).round = p0.round /\ Entry(p0).data = p0.data
    BY Zenon DEF Entry
  <2>6. CASE base[x] # none /\ ~(base[x].round < p0.round)
    <3>1. Flushed(x) = base[x]
      BY <2>3, <2>5, <2>6, Zenon DEF Written
    <3>2. QED
      BY <3>1
  <2>7. CASE base[x] = none \/ base[x].round < p0.round
    <3>1. Flushed(x) = Entry(p0)
      BY <2>3, <2>5, <2>7, Zenon DEF Written
    <3>2. ~(base[x] # none /\ base[x].round > p0.round)
      <4>1. base[x] # none => base[x].round \in Nat
        BY LookbackAssumption DEF EntryOK, Entries
      <4>2. QED
        BY <2>4, <2>7, <4>1
    <3>3. p0.data = At(s, x, d)
      BY <2>4, <3>2, Zenon DEF Fresh
    <3>4. p0.data \in Values
      BY <3>3, AtType, Zenon
    <3>5. Entry(p0) \in Entries
      BY <2>4, <3>4, LookbackAssumption DEF Entry, Entries
    <3>6. QED
      BY <2>4, <2>5, <3>1, <3>3, <3>5 DEF EntryOK
  <2>8. QED
    BY <2>6, <2>7, Zenon
<1>3. QED
  BY <1>1, <1>2, Zenon

-----------------------------------------------------------------------------
(* The rounds.                                                             *)

\* The rounds in their order.
LEMMA Bounds ==
    ASSUME IInv, Exact
    PROVE  /\ effects \in Seq(Effects) /\ Len(effects) = latest
           /\ latest \in Nat /\ committed \in Nat /\ dbRound \in Nat /\ db.round \in Nat
           /\ dbRound <= db.round /\ db.round <= committed /\ committed <= latest
           /\ latest <= MaxRound /\ MaxRound \in Nat
<1>1. /\ latest \in 0..MaxRound /\ committed \in 0..latest /\ dbRound \in Nat /\ db.round \in Nat
      /\ db.round <= committed /\ MaxRound \in Nat
  BY LookbackAssumption, Zenon DEF IInv, Rounds, Recoverable, CanLoad
<1>2. dbRound <= db.round
  <2>1. CASE commit.pc = "post"
    <3>1. Len(commit.es) \in Nat /\ db.round = dbRound + Len(commit.es)
      BY <2>1, SeqLength, Zenon DEF IInv, CommitOK
    <3>2. QED
      BY <1>1, <3>1
  <2>2. CASE commit.pc # "post"
    BY <1>1, <2>2 DEF IInv, CommitOK
  <2>3. QED
    BY <2>1, <2>2, Zenon
<1>3. effects \in Seq(Effects) /\ Len(effects) = latest
  BY Zenon DEF Exact, SlicesOK
<1>4. QED
  BY <1>1, <1>2, <1>3

-----------------------------------------------------------------------------
(* Steps that change neither the accounts nor the lookups.                 *)

\* What does not depend on the tasks.
LEMMA ExactKept ==
    ASSUME Exact, SlicesOK',
           UNCHANGED <<up, latest, effects, accounts, base, pending, dbRound, db, reader, wrong>>
    PROVE  Exact'
<1>1. AccountsOK' /\ CacheOK' /\ EmptyOK'
  BY Zenon DEF Exact, AccountsOK, CacheOK, EmptyOK
<1>2. ReaderOK'
  BY Zenon DEF Exact, ReaderOK, Looking
<1>3. DatabaseExact' /\ LookupExact'
  BY Zenon DEF Exact, DatabaseExact, LookupExact, ValueAt
<1>4. QED
  BY <1>1, <1>2, <1>3, Zenon DEF Exact

\* Nothing of this changes.
LEMMA ExactQuiet ==
    ASSUME Exact,
           UNCHANGED <<up, latest, effects, deltas, accounts, base, pending, dbRound, db,
                       deferred, commit, reader, wrong>>
    PROVE  Exact'
<1>1. SlicesOK'
  BY Zenon DEF Exact, SlicesOK
<1>2. QED
  BY <1>1, ExactKept, Zenon

\* A task is sent when the channel is empty.
LEMMA SendExact ==
    ASSUME Exact, Send
    PROVE  Exact'
<1>1. /\ deferred' = <<syncer.task>>
      /\ UNCHANGED <<up, latest, effects, deltas, accounts, base, pending, dbRound, db, commit,
                     reader, wrong>>
  BY Zenon DEF Send, acctVars, readVars
<1>2. Len(deferred') <= 1
  BY <1>1
<1>3. SlicesOK'
  BY <1>1, <1>2, Zenon DEF Exact, SlicesOK
<1>4. QED
  BY <1>1, <1>3, ExactKept, Zenon

\* A commit takes up the first of the deltas.
LEMMA CommitTakeExact ==
    ASSUME IInv, Exact, CommitTake,
           \A t \in OldTasks : Remaining(t) # 0 => Remaining(t) \in 1..Len(deltas)
    PROVE  Exact'
<1> DEFINE n == Remaining(deferred[1])
<1>1. /\ up /\ deferred # <<>> /\ deferred' = <<>>
      /\ commit' = IF n = 0 THEN Idle ELSE [pc |-> "write", es |-> SubSeq(deltas, 1, n)]
      /\ UNCHANGED <<up, latest, effects, deltas, accounts, base, pending, dbRound, db,
                     reader, wrong>>
  BY Zenon DEF CommitTake, acctVars, readVars
<1>2. deferred[1] \in OldTasks
  BY <1>1, Zenon DEF IInv, CommitOK
<1>3. commit'.pc \in {"write", "post"} =>
        commit'.es = SubSeq(effects, dbRound + 1, dbRound + Len(commit'.es))
  <2>1. CASE n = 0
    BY <1>1, <2>1, Zenon DEF Idle
  <2>2. CASE n # 0
    <3>1. n \in 1..Len(deltas)
      BY <1>2, <2>2, Zenon
    <3> HIDE DEF n
    <3>2. dbRound + Len(deltas) = latest /\ deltas \in Seq(Effects) /\ Len(deltas) \in Nat
      BY <1>1, SeqLength, Zenon DEF IInv, Rounds
    <3>3. /\ effects \in Seq(Effects) /\ dbRound \in 0..Len(effects)
          /\ latest \in dbRound..Len(effects) /\ n \in 0..(latest - dbRound) /\ dbRound \in Nat
      BY <3>1, <3>2, Bounds
    <3>4. deltas = SubSeq(effects, dbRound + 1, latest)
      BY <1>1, Zenon DEF Exact, SlicesOK
    <3>5. SubSeq(deltas, 1, n) = SubSeq(effects, dbRound + 1, dbRound + n)
      BY <3>3, <3>4, SliceOfSlice, Zenon
    <3>6. Len(SubSeq(deltas, 1, n)) = n
      BY <3>1, <3>2, SeqSlice
    <3>7. commit'.es = SubSeq(deltas, 1, n)
      BY <1>1, <2>2, Zenon
    <3>8. QED
      BY <3>5, <3>6, <3>7, Zenon
  <2>3. QED
    BY <2>1, <2>2, Zenon
<1>4. SlicesOK'
  <2>1. Len(deferred') <= 1
    BY <1>1
  <2>2. QED
    BY <1>1, <1>3, <2>1, Zenon DEF Exact, SlicesOK
<1>5. QED
  BY <1>1, <1>4, ExactKept, Zenon

\* A failed commit leaves everything as it was.
LEMMA CommitFailExact ==
    ASSUME Exact, CommitFail
    PROVE  Exact'
<1>1. /\ commit' = Idle
      /\ UNCHANGED <<up, latest, effects, deltas, accounts, base, pending, dbRound, db, deferred,
                     reader, wrong>>
  BY Zenon DEF CommitFail, acctVars, readVars
<1>2. SlicesOK'
  BY <1>1, Zenon DEF Exact, SlicesOK, Idle
<1>3. QED
  BY <1>1, <1>2, ExactKept, Zenon

-----------------------------------------------------------------------------
(* The commits.                                                            *)

\* A commit under way covers rounds that are in the deltas.
LEMMA CommitRange ==
    ASSUME IInv, Exact, commit.pc \in {"write", "post"}
    PROVE  /\ Len(commit.es) \in Nat /\ dbRound + Len(commit.es) <= latest
           /\ commit.es = SubSeq(effects, dbRound + 1, dbRound + Len(commit.es))
<1>1. /\ Len(commit.es) \in Nat /\ MaxBalLookback \in Nat
      /\ dbRound + Len(commit.es) + MaxBalLookback <= committed
  BY SeqLength, LookbackAssumption, Zenon DEF IInv, CommitOK
<1>2. dbRound \in Nat /\ committed \in Nat /\ latest \in Nat /\ committed <= latest
  BY Bounds, Zenon
<1>3. dbRound + Len(commit.es) <= latest
  BY <1>1, <1>2
<1>4. QED
  BY <1>1, <1>3, Zenon DEF Exact, SlicesOK

\* What a commit stores of the accounts of the round it starts from.
LEMMA StoredExact ==
    ASSUME Laws, NEW s \in Seq(Effects), NEW m \in 0..Len(s), NEW k \in m..Len(s), NEW d,
           \A x \in Addr : d.accts[x] = At(s, x, m)
    PROVE  \A x \in Addr : Stored(d, SubSeq(s, m + 1, k)).accts[x] = At(s, x, k)
<1>1. ASSUME NEW x \in Addr PROVE Stored(d, SubSeq(s, m + 1, k)).accts[x] = At(s, x, k)
  <2> DEFINE es == SubSeq(s, m + 1, k)
  <2>1. ValueAfter(At(s, x, m), es, x) = At(s, x, k)
    BY AtComposes, Zenon
  <2> HIDE DEF es
  <2>2. Stored(d, es).accts[x] = ValueAfter(d.accts[x], es, x)
    BY Zenon DEF Stored
  <2>3. QED
    BY <2>1, <2>2, Zenon DEF es
<1>2. QED
  BY <1>1, Zenon

\* The database gets the last update of each account, and the round of it.
LEMMA CommitWriteExact ==
    ASSUME Laws, IInv, Exact, CommitWrite
    PROVE  Exact'
<1> DEFINE n == Len(commit.es)
<1>1. /\ commit.pc = "write" /\ db' = Stored(db, commit.es)
      /\ commit' = [commit EXCEPT !.pc = "post"]
      /\ UNCHANGED <<up, latest, effects, deltas, accounts, base, pending, dbRound, deferred,
                     reader, wrong>>
  BY Zenon DEF CommitWrite, acctVars, readVars
<1>2. n \in Nat /\ dbRound + n <= latest /\ commit.es = SubSeq(effects, dbRound + 1, dbRound + n)
  BY <1>1, CommitRange, Zenon
<1>3. db.round = dbRound /\ commit \in [pc : {"write", "post"}, es : Seq(Effects)]
  BY <1>1, Zenon DEF IInv, CommitOK
<1>4. commit'.es = commit.es
  BY <1>1, <1>3, Zenon
<1>5. SlicesOK'
  BY <1>1, <1>2, <1>4, Zenon DEF Exact, SlicesOK
<1> HIDE DEF n
<1>6. /\ effects \in Seq(Effects) /\ dbRound \in 0..Len(effects)
      /\ dbRound + n \in dbRound..Len(effects)
  BY <1>2, Bounds
<1>7. \A x \in Addr : db.accts[x] = At(effects, x, dbRound)
  BY <1>3, Zenon DEF Exact, DatabaseExact, ValueAt, At
<1>8. \A x \in Addr : db'.accts[x] = At(effects, x, dbRound + n)
  <2>1. \A x \in Addr : Stored(db, SubSeq(effects, dbRound + 1, dbRound + n)).accts[x]
                          = At(effects, x, dbRound + n)
    BY <1>6, <1>7, StoredExact, Zenon
  <2>2. QED
    BY <1>1, <1>2, <2>1, Zenon
<1>9. db'.round = dbRound + n
  BY <1>1, <1>3, Zenon DEF Stored, n
<1>10. DatabaseExact' /\ LookupExact'
  BY <1>1, <1>8, <1>9, Zenon DEF Exact, DatabaseExact, ValueAt, At, LookupExact
<1>11. AccountsOK' /\ CacheOK' /\ EmptyOK'
  BY <1>1, Zenon DEF Exact, AccountsOK, CacheOK, EmptyOK
<1>12. ReaderOK'
  BY <1>1, Zenon DEF Exact, ReaderOK, Looking
<1>13. QED
  BY <1>5, <1>10, <1>11, <1>12, Zenon DEF Exact

\* The deltas of the commit leave memory; the cache gets what they left.
LEMMA CommitPostExact ==
    ASSUME Laws, IInv, Exact, CommitPost
    PROVE  Exact'
<1> DEFINE n == Len(commit.es)
           j == dbRound + n
           es == commit.es
<1>1. /\ up /\ commit.pc = "post" /\ commit' = Idle
      /\ deltas' = SubSeq(deltas, n + 1, Len(deltas)) /\ dbRound' = j
      /\ accounts' = Released(accounts, es) /\ base' = Rebased(base, es, j)
      /\ UNCHANGED <<up, latest, effects, pending, db, deferred, reader, wrong>>
  BY Zenon DEF CommitPost, readVars
<1>2. n \in Nat /\ j <= latest /\ es = SubSeq(effects, dbRound + 1, j)
  BY <1>1, CommitRange, Zenon
<1>3. /\ effects \in Seq(Effects) /\ Len(effects) = latest /\ latest \in Nat
      /\ dbRound \in Nat /\ latest <= MaxRound /\ MaxRound \in Nat
  BY Bounds, Zenon
<1>4. /\ dbRound \in 0..Len(effects) /\ j \in dbRound..Len(effects) /\ j \in Nat /\ j <= MaxRound
      /\ latest \in j..Len(effects) /\ latest \in dbRound..Len(effects)
      /\ n \in 0..(latest - dbRound)
  BY <1>2, <1>3
<1>5. deltas' = SubSeq(effects, j + 1, latest)
  <2>1. deltas = SubSeq(effects, dbRound + 1, latest)
    BY <1>1, Zenon DEF Exact, SlicesOK
  <2>2. Len(deltas) = latest - dbRound
    BY <1>3, <1>4, <2>1, Slice, Zenon
  <2> HIDE DEF n
  <2>3. SubSeq(SubSeq(effects, dbRound + 1, latest), n + 1, latest - dbRound)
          = SubSeq(effects, dbRound + n + 1, latest)
    BY <1>3, <1>4, SliceOfSlice, Zenon
  <2>4. deltas' = SubSeq(SubSeq(effects, dbRound + 1, latest), n + 1, latest - dbRound)
    BY <1>1, <2>1, <2>2, Zenon
  <2>5. QED
    BY <2>3, <2>4, Zenon
<1>6. SlicesOK'
  BY <1>1, <1>5, Zenon DEF Exact, SlicesOK, Idle
<1> HIDE DEF n, j, es
<1>7. AccountsOK'
  <2>1. accounts \in [Addr -> Account] /\ \A x \in Addr : Tracks(accounts[x], effects, x, dbRound, latest)
    BY <1>1, Zenon DEF Exact, AccountsOK
  <2>2. ASSUME NEW x \in Addr
        PROVE  accounts'[x] \in Account /\ Tracks(accounts'[x], effects, x, j, latest)
    <3>1. accounts' = Released(accounts, SubSeq(effects, dbRound + 1, j))
      BY <1>1, <1>2, Zenon
    <3>2. QED
      BY <1>3, <1>4, <2>1, <3>1, ReleasedTracks, Zenon
  <2>3. accounts' = [x \in Addr |-> accounts'[x]]
    BY <1>1, Zenon DEF Released
  <2>4. accounts' \in [Addr -> Account]
    BY <2>2, <2>3, Zenon
  <2>5. QED
    BY <1>1, <2>2, <2>4, Zenon DEF AccountsOK
<1>8. ASSUME NEW x \in Addr
      PROVE  /\ EntryOK(base'[x], effects, x, j)
             /\ \A r \in 0..dbRound : \A v : Fresh(base[x], effects, x, dbRound, r, v)
                  => Fresh(base'[x], effects, x, j, r, v)
  <2>1. EntryOK(base[x], effects, x, dbRound)
    BY Zenon DEF Exact, CacheOK
  <2>2. QED
    BY <1>1, <1>2, <1>3, <1>4, <2>1, RebasedFresh, Zenon
<1>9. 0..dbRound \subseteq 0..j
  BY <1>3, <1>4
<1>10. CacheOK'
  <2>1. ASSUME NEW p \in pending
        PROVE  /\ p.addr \in Addr /\ p.round \in 0..j
               /\ Fresh(base'[p.addr], effects, p.addr, j, p.round, p.data)
    <3>1. /\ p.addr \in Addr /\ p.round \in 0..dbRound
          /\ Fresh(base[p.addr], effects, p.addr, dbRound, p.round, p.data)
      BY Zenon DEF Exact, CacheOK
    <3>2. QED
      BY <1>8, <1>9, <3>1, Zenon
  <2>2. QED
    BY <1>1, <1>8, <2>1, Zenon DEF CacheOK
<1>11. ReaderOK'
  <2> SUFFICES ASSUME Looking PROVE ReaderOK'
    BY <1>1, Zenon DEF ReaderOK, Looking
  <2>1. ReaderOK
    BY Zenon DEF Exact
  <2>2. Steady(reader, effects)
    BY <2>1, Zenon DEF ReaderOK
  <2>3. reader.addr \in Addr
    BY <2>2, Zenon DEF Steady, Lookups
  <2>4. reader.pc \in {"database", "found"} =>
           /\ reader.round \in 0..j
           /\ Fresh(base'[reader.addr], effects, reader.addr, j, reader.round,
                    At(effects, reader.addr, reader.round))
    BY <1>8, <1>9, <2>1, <2>3, Zenon DEF ReaderOK
  <2>5. QED
    BY <1>1, <2>1, <2>4, Zenon DEF ReaderOK, Looking
<1>12. EmptyOK' /\ DatabaseExact' /\ LookupExact'
  BY <1>1, Zenon DEF Exact, EmptyOK, DatabaseExact, ValueAt, LookupExact
<1>13. QED
  BY <1>6, <1>7, <1>10, <1>11, <1>12, Zenon DEF Exact

-----------------------------------------------------------------------------
(* Adding blocks, dying and starting again.                                *)

\* What two histories that agree up to round k have in common.
LEMMA Agreeing ==
    ASSUME NEW s \in Seq(Effects), NEW t \in Seq(Effects), NEW k \in 0..Len(s), k <= Len(t),
           \A i \in 1..k : s[i] = t[i], NEW m \in 0..k
    PROVE  /\ SubSeq(s, m + 1, k) = SubSeq(t, m + 1, k)
           /\ \A x : Touch(s, x, m, k) = Touch(t, x, m, k)
           /\ \A x : At(s, x, m) = At(t, x, m)
           /\ \A x, a : Tracks(a, s, x, m, k) => Tracks(a, t, x, m, k)
<1>1. /\ m \in 0..Len(s) /\ k \in m..Len(s) /\ m \in 0..Len(t) /\ k \in m..Len(t) /\ m <= Len(t)
      /\ k \in Nat /\ m \in Nat /\ m <= k
  OBVIOUS
<1>2. \A i \in 1..(k - m) : m + i \in 1..k
  BY <1>1
<1>3. SubSeq(s, m + 1, k) = SubSeq(t, m + 1, k)
  <2> DEFINE a == SubSeq(s, m + 1, k)
             b == SubSeq(t, m + 1, k)
  <2>1. a \in Seq(Effects) /\ Len(a) = k - m /\ \A i \in 1..(k - m) : a[i] = s[m + i]
    BY <1>1, Slice, Zenon
  <2>2. b \in Seq(Effects) /\ Len(b) = k - m /\ \A i \in 1..(k - m) : b[i] = t[m + i]
    BY <1>1, Slice, Zenon
  <2> HIDE DEF a, b
  <2>3. a = b
    BY <1>2, <2>1, <2>2, SeqSame
  <2>4. QED
    BY <2>3, Zenon DEF a, b
<1>4. \A x : Touch(s, x, m, k) = Touch(t, x, m, k)
  <2>1. \A i \in (m + 1)..k : s[i] = t[i]
    BY <1>1
  <2>2. QED
    BY <2>1, Zenon DEF Touch
<1>5. \A i \in 1..m : s[i] = t[i]
  BY <1>1
<1>6. \A x : At(s, x, m) = At(t, x, m)
  BY <1>1, <1>5, AtPrefix, Zenon
<1>7. \A x : At(s, x, k) = At(t, x, k)
  BY <1>1, AtPrefix, Zenon
<1>8. \A x, a : Tracks(a, s, x, m, k) => Tracks(a, t, x, m, k)
  BY <1>4, <1>7, Zenon DEF Tracks
<1>9. QED
  BY <1>3, <1>4, <1>6, <1>8, Zenon

\* A block that follows the last one, whatever is evicted from the cache.
LEMMA NewBlockExact ==
    ASSUME Laws, IInv, Exact, up, ~Looking, NEW e \in Effects,
           effects' = Append(effects, e), latest' = latest + 1, latest' <= MaxRound,
           deltas' = Append(deltas, e), accounts' = Counted(accounts, <<e>>),
           NEW gone, base' = [x \in Addr |-> IF x \in gone THEN none ELSE Flushed(x)],
           pending' = {}, UNCHANGED <<up, dbRound, db, deferred, commit, reader, wrong>>
    PROVE  Exact'
<1> DEFINE s == effects'
<1>1. /\ effects \in Seq(Effects) /\ Len(effects) = latest /\ latest \in Nat
      /\ dbRound \in Nat /\ db.round \in Nat /\ dbRound <= latest /\ db.round <= latest
      /\ latest <= MaxRound /\ MaxRound \in Nat
  BY Bounds
<1>2. /\ s \in Seq(Effects) /\ Len(s) = latest + 1 /\ s[latest + 1] = e
      /\ \A i \in 1..latest : s[i] = effects[i]
  BY <1>1, SeqAppend
<1> HIDE DEF s
<1>3. /\ latest \in 0..Len(effects) /\ latest <= Len(s)
      /\ dbRound \in 0..latest /\ db.round \in 0..latest
      /\ dbRound \in 0..Len(s) /\ latest \in dbRound..Len(s) /\ latest \in 0..Len(s)
      /\ latest + 1 \in latest..Len(s) /\ latest + 1 \in dbRound..Len(s)
  BY <1>1, <1>2
<1>4. /\ \A x : At(s, x, dbRound) = At(effects, x, dbRound)
      /\ \A x : At(s, x, db.round) = At(effects, x, db.round)
      /\ \A x, a : Tracks(a, effects, x, dbRound, latest) => Tracks(a, s, x, dbRound, latest)
  <2>1. \A i \in 1..latest : effects[i] = s[i]
    BY <1>2, Zenon
  <2>2. \A x : At(effects, x, db.round) = At(s, x, db.round)
    BY <1>1, <1>2, <1>3, <2>1, Agreeing, ZenonT(30)
  <2>3. /\ \A x : At(effects, x, dbRound) = At(s, x, dbRound)
        /\ \A x, a : Tracks(a, effects, x, dbRound, latest) => Tracks(a, s, x, dbRound, latest)
    BY <1>1, <1>2, <1>3, <2>1, Agreeing, Zenon
  <2>4. QED
    BY <2>2, <2>3, Zenon
<1>5. deltas' = SubSeq(s, dbRound + 1, latest + 1)
  <2> DEFINE b == SubSeq(s, dbRound + 1, latest + 1)
  <2>1. deltas = SubSeq(effects, dbRound + 1, latest)
    BY Zenon DEF Exact, SlicesOK
  <2>2. /\ deltas \in Seq(Effects) /\ Len(deltas) = latest - dbRound
        /\ \A i \in 1..(latest - dbRound) : deltas[i] = effects[dbRound + i]
    BY <1>1, <1>3, <2>1, Slice
  <2>3. /\ deltas' \in Seq(Effects) /\ Len(deltas') = latest - dbRound + 1
        /\ \A i \in 1..(latest - dbRound) : deltas'[i] = deltas[i]
        /\ deltas'[latest - dbRound + 1] = e
    BY <2>2, SeqAppend
  <2>4. /\ b \in Seq(Effects) /\ Len(b) = latest + 1 - dbRound
        /\ \A i \in 1..(latest + 1 - dbRound) : b[i] = s[dbRound + i]
    BY <1>2, <1>3, Slice
  <2> HIDE DEF b
  <2>5. ASSUME NEW i \in 1..(latest - dbRound + 1) PROVE deltas'[i] = b[i]
    <3>1. CASE i = latest - dbRound + 1
      <4>1. dbRound + i = latest + 1 /\ i \in 1..(latest + 1 - dbRound)
        BY <1>1, <3>1
      <4>2. b[i] = s[dbRound + i]
        BY <2>4, <4>1, Zenon
      <4>3. b[i] = e
        BY <1>2, <4>1, <4>2, Zenon
      <4>4. QED
        BY <2>3, <3>1, <4>3, Zenon
    <3>2. CASE i # latest - dbRound + 1
      <4>1. /\ i \in 1..(latest - dbRound) /\ i \in 1..(latest + 1 - dbRound)
            /\ dbRound + i \in 1..latest
        BY <1>1, <3>2
      <4>2. b[i] = s[dbRound + i] /\ deltas[i] = effects[dbRound + i] /\ deltas'[i] = deltas[i]
        BY <2>2, <2>3, <2>4, <4>1, Zenon
      <4>3. s[dbRound + i] = effects[dbRound + i]
        BY <1>2, <4>1, Zenon
      <4>4. QED
        BY <4>2, <4>3, Zenon
    <3>3. QED
      BY <3>1, <3>2, Zenon
  <2>6. Len(deltas') = Len(b) /\ Len(deltas') = latest - dbRound + 1
    BY <1>1, <2>3, <2>4
  <2>7. deltas' = b
    BY <2>3, <2>4, <2>5, <2>6, SeqSame, Zenon
  <2>8. QED
    BY <2>7, Zenon DEF b
<1>6. commit.pc \in {"write", "post"} =>
        commit.es = SubSeq(s, dbRound + 1, dbRound + Len(commit.es))
  <2> SUFFICES ASSUME commit.pc \in {"write", "post"}
               PROVE  commit.es = SubSeq(s, dbRound + 1, dbRound + Len(commit.es))
    BY Zenon
  <2> DEFINE j == dbRound + Len(commit.es)
  <2>1. j \in Nat /\ j <= latest /\ dbRound <= j /\ commit.es = SubSeq(effects, dbRound + 1, j)
    BY <1>1, CommitRange
  <2> HIDE DEF j
  <2>2. j \in 0..Len(effects) /\ j <= Len(s) /\ dbRound \in 0..j /\ \A i \in 1..j : effects[i] = s[i]
    BY <1>1, <1>2, <2>1
  <2>3. SubSeq(effects, dbRound + 1, j) = SubSeq(s, dbRound + 1, j)
    BY <1>1, <1>2, <2>2, Agreeing, Zenon
  <2>4. QED
    BY <2>1, <2>3, Zenon DEF j
<1>7. SlicesOK'
  BY <1>2, <1>5, <1>6, Zenon DEF Exact, SlicesOK, s
<1>8. AccountsOK'
  <2>1. <<e>> = SubSeq(s, latest + 1, latest + 1)
    <3>1. /\ SubSeq(s, latest + 1, latest + 1) \in Seq(Effects)
          /\ Len(SubSeq(s, latest + 1, latest + 1)) = latest + 1 - latest
          /\ \A i \in 1..(latest + 1 - latest) : SubSeq(s, latest + 1, latest + 1)[i] = s[latest + i]
      BY <1>2, <1>3, Slice
    <3> DEFINE b == SubSeq(s, latest + 1, latest + 1)
    <3>2. latest + 1 - latest = 1
      BY <1>1
    <3> HIDE DEF b
    <3>3. b \in Seq(Effects) /\ Len(b) = 1 /\ b[1] = e
      <4>1. 1 \in 1..(latest + 1 - latest)
        BY <3>2
      <4>2. b \in Seq(Effects) /\ Len(b) = 1 /\ b[1] = s[latest + 1]
        BY <3>1, <3>2, <4>1, Zenon DEF b
      <4>3. QED
        BY <1>2, <4>2, Zenon
    <3>4. <<e>> \in Seq(Effects) /\ Len(<<e>>) = 1 /\ <<e>>[1] = e
      OBVIOUS
    <3>5. b = <<e>>
      BY <3>3, <3>4, SeqSame
    <3>6. QED
      BY <3>5, Zenon DEF b
  <2>2. accounts \in [Addr -> Account] /\ \A x \in Addr : Tracks(accounts[x], s, x, dbRound, latest)
    BY <1>4, Zenon DEF Exact, AccountsOK
  <2>3. ASSUME NEW x \in Addr
        PROVE  accounts'[x] \in Account /\ Tracks(accounts'[x], s, x, dbRound, latest + 1)
    BY <1>2, <1>3, <2>1, <2>2, CountedTracks, Zenon
  <2>4. accounts' = [x \in Addr |-> accounts'[x]]
    BY Zenon DEF Counted
  <2>5. accounts' \in [Addr -> Account]
    BY <2>3, <2>4, Zenon
  <2>6. QED
    BY <2>3, <2>5, Zenon DEF AccountsOK, s
<1>9. CacheOK'
  <2>1. ASSUME NEW x \in Addr PROVE EntryOK(base'[x], effects, x, dbRound)
    <3>1. CASE x \in gone
      BY <3>1, Zenon DEF EntryOK
    <3>2. CASE x \notin gone
      <4>1. EntryOK(base[x], effects, x, dbRound)
        BY Zenon DEF Exact, CacheOK
      <4>2. \A p \in pending : p.addr = x =>
              p.round \in 0..dbRound /\ Fresh(base[x], effects, x, dbRound, p.round, p.data)
        BY Zenon DEF Exact, CacheOK
      <4>3. dbRound \in 0..Len(effects) /\ dbRound <= MaxRound
        BY <1>1
      <4>4. EntryOK(Flushed(x), effects, x, dbRound)
        BY <1>1, <4>1, <4>2, <4>3, FlushedFresh, Zenon
      <4>5. QED
        BY <3>2, <4>4, Zenon
    <3>3. QED
      BY <3>1, <3>2, Zenon
  <2>2. ASSUME NEW x \in Addr PROVE EntryOK(base'[x], s, x, dbRound)
    BY <1>4, <2>1, Zenon DEF EntryOK
  <2>3. QED
    BY <2>2, Zenon DEF CacheOK, s
<1>10. ReaderOK' /\ EmptyOK' /\ LookupExact'
  BY Zenon DEF Exact, ReaderOK, Looking, EmptyOK, LookupExact
<1>11. DatabaseExact'
  BY <1>4, Zenon DEF Exact, DatabaseExact, ValueAt, At, s
<1>12. QED
  BY <1>7, <1>8, <1>9, <1>10, <1>11, ZenonT(30) DEF Exact

\* The block a service adds.
LEMMA AddExact ==
    ASSUME Laws, IInv, Exact, NEW w \in Writers, AddValidatedBlock(w)
    PROVE  Exact'
<1> DEFINE e == adding[w]
<1>1. /\ up /\ e # none /\ ~Looking
      /\ UNCHANGED <<up, db, deferred, commit, reader, wrong>>
      /\ \/ UNCHANGED <<latest, effects, deltas, accounts, base, pending, dbRound>>
         \/ /\ ~(e.round <= latest) /\ latest' = e.round
            /\ effects' = Append(effects, e) /\ deltas' = Append(deltas, e)
            /\ accounts' = Counted(accounts, <<e>>)
            /\ \E gone \in SUBSET Addr :
                 base' = [x \in Addr |-> IF x \in gone THEN none ELSE Flushed(x)]
            /\ pending' = {} /\ dbRound' = dbRound
  BY Zenon DEF AddValidatedBlock, InLedger, acctVars, dbVars, readVars
<1>2. CASE UNCHANGED <<latest, effects, deltas, accounts, base, pending, dbRound>>
  BY <1>1, <1>2, ExactQuiet, Zenon
<1>3. CASE ~UNCHANGED <<latest, effects, deltas, accounts, base, pending, dbRound>>
  <2>1. e \in Effects /\ e.round <= latest + 1 /\ e.round \in 1..MaxRound /\ latest \in Nat
    BY <1>1 DEF IInv, AddOK, Rounds, Effects
  <2> HIDE DEF e
  <2>2. latest' = latest + 1 /\ latest' <= MaxRound
    BY <1>1, <1>3, <2>1, LookbackAssumption
  <2>3. PICK gone \in SUBSET Addr :
          base' = [x \in Addr |-> IF x \in gone THEN none ELSE Flushed(x)]
    BY <1>1, <1>3, Zenon
  <2>4. /\ effects' = Append(effects, e) /\ deltas' = Append(deltas, e)
        /\ accounts' = Counted(accounts, <<e>>) /\ pending' = {} /\ dbRound' = dbRound
    BY <1>1, <1>3, Zenon
  <2>5. QED
    BY <1>1, <2>1, <2>2, <2>3, <2>4, NewBlockExact, Zenon
<1>4. QED
  BY <1>2, <1>3, Zenon

\* A process that dies keeps the blocks and the accounts of the databases.
LEMMA DieExact ==
    ASSUME IInv, Exact, Die
    PROVE  Exact'
<1> DEFINE s == effects'
<1>1. /\ up' = FALSE /\ latest' = committed /\ effects' = SubSeq(effects, 1, committed)
      /\ accounts' = [x \in Addr |-> Untouched] /\ base' = [x \in Addr |-> none]
      /\ pending' = {} /\ deferred' = <<>> /\ commit' = Idle /\ reader' = Idle
      /\ db' = db /\ wrong' = wrong
  BY Zenon DEF Die
<1>2. /\ effects \in Seq(Effects) /\ Len(effects) = latest /\ latest \in Nat /\ committed \in Nat
      /\ db.round \in Nat /\ db.round <= committed /\ committed <= latest
  BY Bounds, Zenon
<1>3. /\ s \in Seq(Effects) /\ Len(s) = committed /\ \A i \in 1..committed : s[i] = effects[i]
  <2>1. /\ 0 \in 0..Len(effects) /\ committed \in 0..Len(effects) /\ 0 + 1 = 1
        /\ committed - 0 = committed /\ \A i \in 1..committed : 0 + i = i
    BY <1>2
  <2>2. QED
    BY <1>1, <1>2, <2>1, Slice
<1> HIDE DEF s
<1>4. SlicesOK'
  BY <1>1, <1>3 DEF SlicesOK, Idle, s
<1>5. AccountsOK'
  <2>1. Untouched \in Account
    BY Zenon DEF Untouched, Account, Genesis, Values
  <2>2. QED
    BY <1>1, <2>1, Zenon DEF AccountsOK
<1>6. CacheOK' /\ ReaderOK' /\ EmptyOK' /\ LookupExact'
  BY <1>1, Zenon DEF Exact, CacheOK, EntryOK, ReaderOK, Looking, Idle, EmptyOK, LookupExact
<1>7. DatabaseExact'
  <2>1. /\ committed \in 0..Len(effects) /\ committed <= Len(s) /\ db.round \in 0..committed
    BY <1>2, <1>3
  <2>2. \A x : At(effects, x, db.round) = At(s, x, db.round)
    BY <1>2, <1>3, <2>1, Agreeing, Zenon
  <2>3. QED
    BY <1>1, <2>2, Zenon DEF Exact, DatabaseExact, ValueAt, At, s
<1>8. QED
  BY <1>4, <1>5, <1>6, <1>7, Zenon DEF Exact

\* The replayed blocks follow those of the database, and what initialize-
\* TrackerCaches flushes of them is stored and released like any commit.
LEMMA RestartExact ==
    ASSUME Laws, IInv, Exact, Restart,
           Replayed \in Seq(Effects), Len(Replayed) = committed - db.round
    PROVE  Exact'
<1> DEFINE s == effects'
           d == db.round
<1>1. /\ ~up /\ up' = TRUE /\ effects' = SubSeq(effects, 1, d) \o Replayed
      /\ UNCHANGED <<latest, committed, pending, deferred, commit, reader, wrong>>
  BY Zenon DEF Restart, readVars
<1>2. PICK n \in Flushable :
        LET es == SubSeq(Replayed, 1, n) IN
        /\ db' = Stored(db, es) /\ dbRound' = d + n
        /\ deltas' = SubSeq(Replayed, n + 1, Len(Replayed))
        /\ accounts' = Released(Counted(accounts, Replayed), es)
        /\ base' = Rebased(base, es, d + n)
  BY Zenon DEF Restart
<1>3. /\ latest = committed /\ commit = Idle /\ deferred = <<>>
      /\ accounts = [x \in Addr |-> Untouched] /\ base = [x \in Addr |-> none]
      /\ pending = {} /\ reader = Idle
  BY <1>1, Zenon DEF IInv, DownOK, Exact, EmptyOK
<1>4. /\ effects \in Seq(Effects) /\ Len(effects) = latest /\ committed \in Nat
      /\ d \in Nat /\ d <= committed /\ committed <= MaxRound /\ MaxRound \in Nat
  BY <1>3, Bounds, Zenon
<1>5. n \in Nat /\ d + n <= committed
  <2>1. MaxBalLookback \in Nat
    BY LookbackAssumption, Zenon
  <2>2. QED
    BY <1>4, <2>1 DEF Flushable
<1>6. Replayed \in Seq(Effects) /\ Len(Replayed) = committed - d
  BY Zenon DEF d
<1>7. /\ s \in Seq(Effects) /\ Len(s) = committed
      /\ \A i \in 1..d : s[i] = effects[i]
      /\ \A i \in 1..(committed - d) : s[d + i] = Replayed[i]
  <2> DEFINE a == SubSeq(effects, 1, d)
  <2>1. /\ a \in Seq(Effects) /\ Len(a) = d /\ \A i \in 1..d : a[i] = effects[i]
    <3>1. /\ 0 \in 0..Len(effects) /\ d \in 0..Len(effects) /\ 0 + 1 = 1
          /\ d - 0 = d /\ \A i \in 1..d : 0 + i = i
      BY <1>3, <1>4
    <3>2. QED
      BY <1>4, <3>1, Slice
  <2> HIDE DEF a, d
  <2>2. /\ s \in Seq(Effects) /\ Len(s) = d + (committed - d)
        /\ \A i \in 1..(d + (committed - d)) : s[i] = IF i <= d THEN a[i] ELSE Replayed[i - d]
    BY <1>1, <1>6, <2>1, SeqJoin DEF a
  <2> HIDE DEF s
  <2>3. d + (committed - d) = committed
    BY <1>4
  <2>4. \A i \in 1..d : s[i] = effects[i]
    BY <1>4, <2>1, <2>2, <2>3
  <2>5. ASSUME NEW i \in 1..(committed - d) PROVE s[d + i] = Replayed[i]
    <3> DEFINE k == d + i
    <3>1. k \in 1..(d + (committed - d)) /\ ~(k <= d) /\ k - d = i
      BY <1>4
    <3> HIDE DEF k
    <3>2. s[k] = Replayed[k - d]
      BY <2>2, <3>1, Zenon
    <3>3. QED
      BY <3>1, <3>2, Zenon DEF k
  <2>6. QED
    BY <2>2, <2>3, <2>4, <2>5, Zenon DEF s
<1> HIDE DEF s, d
<1>8. /\ d \in 0..Len(s) /\ committed \in d..Len(s) /\ d + n \in d..Len(s) /\ d + n \in 0..Len(s)
      /\ committed \in (d + n)..Len(s) /\ n \in 0..(committed - d) /\ d + n <= MaxRound
      /\ d \in d..Len(s)
  BY <1>4, <1>5, <1>7
<1>9. Replayed = SubSeq(s, d + 1, committed)
  <2> DEFINE b == SubSeq(s, d + 1, committed)
  <2>1. /\ b \in Seq(Effects) /\ Len(b) = committed - d
        /\ \A i \in 1..(committed - d) : b[i] = s[d + i]
    BY <1>7, <1>8, Slice
  <2> HIDE DEF b
  <2>2. Replayed = b
    BY <1>6, <1>7, <2>1, SeqSame, ZenonT(30)
  <2>3. QED
    BY <2>2, Zenon DEF b
<1>10. /\ SubSeq(Replayed, 1, n) = SubSeq(s, d + 1, d + n)
       /\ SubSeq(Replayed, n + 1, Len(Replayed)) = SubSeq(s, d + n + 1, committed)
  BY <1>6, <1>7, <1>8, <1>9, SliceOfSlice
<1>11. SlicesOK'
  <2>1. deltas' = SubSeq(s, dbRound' + 1, latest')
    BY <1>1, <1>2, <1>3, <1>10, Zenon
  <2>2. commit'.pc \notin {"write", "post"} /\ Len(deferred') <= 1
    BY <1>1, <1>3 DEF Idle
  <2>3. s \in Seq(Effects) /\ Len(s) = latest'
    BY <1>1, <1>3, <1>7, Zenon
  <2>4. QED
    BY <2>1, <2>2, <2>3, Zenon DEF SlicesOK, s
<1>12. AccountsOK'
  <2>1. Untouched \in Account
    BY Zenon DEF Untouched, Account, Genesis, Values
  <2>2. accounts \in [Addr -> Account]
    BY <1>3, <2>1, Zenon
  <2> DEFINE as == Counted(accounts, Replayed)
  <2>3. ASSUME NEW x \in Addr PROVE as[x] \in Account /\ Tracks(as[x], s, x, d, committed)
    <3>1. accounts[x] = Untouched
      BY <1>3, Zenon
    <3>2. Touch(s, x, d, d) = {}
      BY <1>4 DEF Touch
    <3>3. Tracks(accounts[x], s, x, d, d)
      <4>1. d \in Nat /\ d <= d
        BY <1>4
      <4>2. Cardinality(Touch(s, x, d, d)) = 0
        BY <3>2, <4>1, TouchFinite, Zenon
      <4>3. QED
        BY <3>1, <3>2, <4>2 DEF Tracks, Untouched
    <3>4. QED
      <4>1. as = Counted(accounts, SubSeq(s, d + 1, committed))
        BY <1>9, Zenon
      <4> HIDE DEF as
      <4>2. QED
        BY <1>7, <1>8, <2>2, <3>3, <4>1, CountedTracks, Zenon
  <2>4. as \in [Addr -> Account]
    <3>1. as = [x \in Addr |-> as[x]]
      BY Zenon DEF Counted
    <3> HIDE DEF as
    <3>2. QED
      BY <2>3, <3>1, Zenon
  <2>5. accounts' = Released(as, SubSeq(s, d + 1, d + n))
    BY <1>2, <1>10, Zenon
  <2> HIDE DEF as
  <2>6. ASSUME NEW x \in Addr
        PROVE  accounts'[x] \in Account /\ Tracks(accounts'[x], s, x, d + n, committed)
    BY <1>7, <1>8, <2>3, <2>4, <2>5, ReleasedTracks, Zenon
  <2>7. accounts' = [x \in Addr |-> accounts'[x]]
    BY <2>5, Zenon DEF Released
  <2>8. accounts' \in [Addr -> Account]
    BY <2>6, <2>7, Zenon
  <2>9. QED
    BY <1>1, <1>2, <1>3, <2>6, <2>8, Zenon DEF AccountsOK, s
<1>13. CacheOK'
  <2>1. ASSUME NEW x \in Addr PROVE EntryOK(base'[x], s, x, d + n)
    <3>1. EntryOK(base[x], s, x, d)
      BY <1>3, Zenon DEF EntryOK
    <3>2. base' = Rebased(base, SubSeq(s, d + 1, d + n), d + n)
      BY <1>2, <1>10, Zenon
    <3>3. QED
      BY <1>7, <1>8, <3>1, <3>2, RebasedFresh, Zenon
  <2>2. QED
    BY <1>1, <1>2, <1>3, <2>1, Zenon DEF CacheOK, s
<1>14. ReaderOK' /\ EmptyOK' /\ LookupExact'
  BY <1>1, <1>3, Zenon DEF Exact, ReaderOK, Looking, Idle, EmptyOK, LookupExact
<1>15. DatabaseExact'
  <2>1. \A x \in Addr : db.accts[x] = At(s, x, d)
    <3>1. d \in 0..Len(effects) /\ d <= Len(s) /\ d \in 0..d /\ \A i \in 1..d : effects[i] = s[i]
      BY <1>3, <1>4, <1>7
    <3>2. \A x : At(effects, x, d) = At(s, x, d)
      BY <1>4, <1>7, <3>1, Agreeing, Zenon
    <3>3. \A x \in Addr : db.accts[x] = At(effects, x, d)
      BY Zenon DEF Exact, DatabaseExact, ValueAt, At, d
    <3>4. QED
      BY <3>2, <3>3, Zenon
  <2>2. db' = Stored(db, SubSeq(s, d + 1, d + n))
    BY <1>2, <1>10, Zenon
  <2>3. \A x \in Addr : db'.accts[x] = At(s, x, d + n)
    BY <1>7, <1>8, <2>1, <2>2, StoredExact, ZenonT(30)
  <2>4. Len(SubSeq(s, d + 1, d + n)) = n
    <3>1. Len(SubSeq(Replayed, 1, n)) = n
      BY <1>4, <1>5, <1>6, SeqSlice
    <3>2. QED
      BY <1>10, <3>1, Zenon
  <2>5. db'.round = d + n
    BY <2>2, <2>4, Zenon DEF Stored, d
  <2>6. QED
    BY <2>3, <2>5, Zenon DEF DatabaseExact, ValueAt, At, s
<1>16. QED
  BY <1>11, <1>12, <1>13, <1>14, <1>15, Zenon DEF Exact

-----------------------------------------------------------------------------
(* A new ledger.                                                           *)

\* A new ledger has the accounts of genesis.
LEMMA InitExact ==
    ASSUME Laws, Init
    PROVE  Exact
<1>1. /\ up = TRUE /\ latest = 0 /\ effects = <<>> /\ deltas = <<>> /\ dbRound = 0
      /\ accounts = [x \in Addr |-> Untouched] /\ base = [x \in Addr |-> none] /\ pending = {}
      /\ db = [round |-> 0, accts |-> [x \in Addr |-> Genesis]]
      /\ deferred = <<>> /\ commit = Idle /\ reader = Idle /\ wrong = {}
  BY Zenon DEF Init
<1>2. effects \in Seq(Effects) /\ Len(effects) = 0 /\ SubSeq(effects, 1, 0) = <<>>
  BY <1>1, SeqNoSlice
<1>3. SlicesOK
  BY <1>1, <1>2 DEF SlicesOK, Idle
<1>4. \A x : Touch(effects, x, 0, 0) = {}
  BY DEF Touch
<1>5. AccountsOK
  <2>1. Untouched \in Account
    BY Zenon DEF Untouched, Account, Genesis, Values
  <2>2. ASSUME NEW x \in Addr PROVE Tracks(accounts[x], effects, x, dbRound, latest)
    <3>1. Cardinality(Touch(effects, x, 0, 0)) = 0
      BY <1>4, TouchFinite
    <3>2. QED
      BY <1>1, <1>4, <3>1, Zenon DEF Tracks, Untouched
  <2>3. QED
    BY <1>1, <2>1, <2>2, Zenon DEF AccountsOK
<1>6. CacheOK /\ ReaderOK /\ EmptyOK /\ LookupExact
  BY <1>1, Zenon DEF CacheOK, EntryOK, ReaderOK, Looking, Idle, EmptyOK, LookupExact
<1>7. DatabaseExact
  <2>1. ASSUME NEW x \in Addr PROVE ValueAt(x, 0) = Genesis
    <3>1. Hits(<<>>, x) = {}
      BY DEF Hits
    <3>2. QED
      BY <1>2, <3>1, Zenon DEF ValueAt, ValueAfter
  <2>2. QED
    BY <1>1, <2>1, Zenon DEF DatabaseExact
<1>8. QED
  BY <1>3, <1>5, <1>6, <1>7, Zenon DEF Exact
=============================================================================
