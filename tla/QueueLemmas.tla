---------------------------- MODULE QueueLemmas -----------------------------
(***************************************************************************)
(* What the operations on a queue do to it and to its entries: Append, the *)
(* removal of an entry wherever it stands, and Tail.  A queue is orderly   *)
(* when it has each entry once.  Last, that a set of numbers has a least.  *)
(***************************************************************************)
EXTENDS Integers, SequencesExt, FiniteSetTheorems, SequenceTheorems, WellFoundedInduction, TLAPS

Orderly(s, T) == s \in Seq(T) /\ IsInjective(s)

LEMMA AppendFacts ==
  ASSUME NEW T, NEW s, Orderly(s, T), NEW r \in T, r \notin ToSet(s)
  PROVE  Orderly(Append(s, r), T) /\ ToSet(Append(s, r)) = ToSet(s) \cup {r}
PROOF
  <1>1. /\ s \in Seq(T) /\ Len(s) \in Nat /\ DOMAIN s = 1..Len(s)
        /\ Append(s, r) \in Seq(T) /\ Len(Append(s, r)) = Len(s) + 1
        /\ DOMAIN Append(s, r) = 1..(Len(s) + 1)
        /\ \A i \in 1..Len(s) : Append(s, r)[i] = s[i]
        /\ Append(s, r)[Len(s) + 1] = r
    BY DEF Orderly
  <1>2. \A i \in 1..(Len(s) + 1) : i \in 1..Len(s) \/ i = Len(s) + 1
    BY <1>1
  <1>3. \A i \in 1..Len(s) : s[i] # r
    BY <1>1 DEF ToSet
  <1>4. IsInjective(Append(s, r))
    BY <1>1, <1>2, <1>3 DEF Orderly, IsInjective
  <1>5. ToSet(Append(s, r)) \subseteq ToSet(s) \cup {r}
    BY <1>1, <1>2 DEF ToSet
  <1>6. ToSet(s) \cup {r} \subseteq ToSet(Append(s, r))
    <2>1. \A i \in 1..Len(s) : i \in 1..(Len(s) + 1)
      BY <1>1
    <2>2. Len(s) + 1 \in 1..(Len(s) + 1)
      BY <1>1
    <2> QED BY <1>1, <2>1, <2>2 DEF ToSet
  <1> QED BY <1>1, <1>4, <1>5, <1>6 DEF Orderly

LEMMA RemoveAtFacts ==
  ASSUME NEW T, NEW s \in Seq(T), NEW k \in 1..Len(s)
  PROVE  /\ RemoveAt(s, k) \in Seq(T) /\ Len(RemoveAt(s, k)) = Len(s) - 1
         /\ \A i \in 1..(Len(s) - 1) : RemoveAt(s, k)[i] = IF i < k THEN s[i] ELSE s[i + 1]
PROOF
  <1> DEFINE a == SubSeq(s, 1, k - 1)
             b == SubSeq(s, k + 1, Len(s))
  <1>1. Len(s) \in Nat /\ k \in Nat /\ \A i \in 1..Len(s) : s[i] \in T
    OBVIOUS
  <1>2. /\ a \in Seq(T) /\ Len(a) = k - 1 /\ \A i \in 1..(k - 1) : a[i] = s[i]
    <2>1. \A i \in 1..(k - 1) : s[i] \in T
      BY <1>1
    <2> QED BY <1>1, <2>1, SubSeqProperties
  <1>3. /\ b \in Seq(T) /\ Len(b) = Len(s) - k /\ \A i \in 1..(Len(s) - k) : b[i] = s[k + i]
    <2>1. \A i \in (k + 1)..Len(s) : s[i] \in T
      BY <1>1
    <2> QED BY <1>1, <2>1, SubSeqProperties
  <1> HIDE DEF a, b
  <1>4. /\ a \o b \in Seq(T) /\ Len(a \o b) = Len(s) - 1
        /\ \A i \in 1..(Len(s) - 1) : (a \o b)[i] = IF i <= k - 1 THEN a[i] ELSE b[i - (k - 1)]
    BY <1>1, <1>2, <1>3, ConcatProperties
  <1>5. ASSUME NEW i \in 1..(Len(s) - 1)
        PROVE  (a \o b)[i] = IF i < k THEN s[i] ELSE s[i + 1]
    <2>1. CASE i < k
      BY <1>1, <1>2, <1>4, <2>1
    <2>2. CASE ~(i < k)
      <3>1. i - (k - 1) \in 1..(Len(s) - k) /\ k + (i - (k - 1)) = i + 1
        BY <1>1, <2>2
      <3> QED BY <1>1, <1>3, <1>4, <2>2, <3>1
    <2> QED BY <2>1, <2>2
  <1>6. RemoveAt(s, k) = a \o b
    BY DEF RemoveAt, a, b
  <1> QED BY <1>4, <1>5, <1>6

LEMMA RemoveFacts ==
  ASSUME NEW T, NEW s, Orderly(s, T), NEW r
  PROVE  Orderly(RemoveFirst(s, r), T) /\ ToSet(RemoveFirst(s, r)) = ToSet(s) \ {r}
PROOF
  <1>1. s \in Seq(T) /\ Len(s) \in Nat /\ DOMAIN s = 1..Len(s)
    BY DEF Orderly
  <1>2. CASE ~\E i \in 1..Len(s) : s[i] = r
    BY <1>1, <1>2 DEF RemoveFirst, ToSet
  <1>3. CASE \E i \in 1..Len(s) : s[i] = r
    <2> PICK k \in 1..Len(s) : s[k] = r
      BY <1>3
    <2>1. \A i \in 1..Len(s) : s[i] = r => i = k
      BY <1>1 DEF Orderly, IsInjective
    <2>2. {i \in 1..Len(s) : s[i] = r} = {k}
      BY <2>1
    <2>3. Min({k}) = k
      BY DEF Min
    <2>4. SelectInSeq(s, LAMBDA v : v = r) = k
      BY <2>2, <2>3 DEF SelectInSeq
    <2> DEFINE t == RemoveAt(s, k)
    <2>5. RemoveFirst(s, r) = t
      BY <1>3, <2>4 DEF RemoveFirst
    <2>6. /\ t \in Seq(T) /\ Len(t) = Len(s) - 1
          /\ \A i \in 1..(Len(s) - 1) : t[i] = IF i < k THEN s[i] ELSE s[i + 1]
      BY <1>1, RemoveAtFacts
    <2> HIDE DEF t
    <2>7. DOMAIN t = 1..(Len(s) - 1) /\ Len(s) - 1 \in Nat
      BY <1>1, <2>6
    <2> DEFINE Old(i) == IF i < k THEN i ELSE i + 1
    <2>8. \A i \in 1..(Len(s) - 1) : Old(i) \in 1..Len(s) /\ Old(i) # k /\ t[i] = s[Old(i)]
      BY <1>1, <2>6
    <2>9. \A i, j \in 1..(Len(s) - 1) : Old(i) = Old(j) => i = j
      BY <1>1
    <2>10. \A j \in 1..Len(s) : j # k => \E i \in 1..(Len(s) - 1) : Old(i) = j
      <3> TAKE j \in 1..Len(s)
      <3> HAVE j # k
      <3>1. CASE j < k
        BY <1>1, <3>1
      <3>2. CASE j > k
        <4>1. j - 1 \in 1..(Len(s) - 1) /\ Old(j - 1) = j
          BY <1>1, <3>2
        <4> QED BY <4>1
      <3> QED BY <1>1, <3>1, <3>2
    <2> HIDE DEF Old
    <2>11. IsInjective(t)
      BY <1>1, <2>7, <2>8, <2>9 DEF Orderly, IsInjective
    <2>12. ToSet(t) \subseteq ToSet(s) \ {r}
      BY <1>1, <2>1, <2>7, <2>8 DEF ToSet
    <2>13. ToSet(s) \ {r} \subseteq ToSet(t)
      <3> SUFFICES ASSUME NEW j \in 1..Len(s), s[j] # r PROVE s[j] \in ToSet(t)
        BY <1>1 DEF ToSet
      <3>1. PICK i \in 1..(Len(s) - 1) : Old(i) = j
        BY <2>10
      <3> QED BY <2>7, <2>8, <3>1 DEF ToSet
    <2> QED BY <2>5, <2>6, <2>11, <2>12, <2>13 DEF Orderly
  <1> QED BY <1>2, <1>3

LEMMA OrderlyCardinality ==
  ASSUME NEW T, NEW s, Orderly(s, T)
  PROVE  Cardinality(ToSet(s)) = Len(s)
PROOF
  <1>1. s \in Seq(T) /\ Len(s) \in Nat /\ DOMAIN s = 1..Len(s)
    BY DEF Orderly
  <1>2. s \in Bijection(1..Len(s), ToSet(s))
    BY <1>1 DEF Bijection, Injection, Surjection, ToSet, Orderly, IsInjective
  <1>3. ExistsBijection(1..Len(s), ToSet(s))
    BY <1>2 DEF ExistsBijection
  <1> QED BY <1>1, <1>3, FS_CountingElements

LEMMA TailFacts ==
  ASSUME NEW T, NEW s, Orderly(s, T), s # <<>>
  PROVE  /\ Head(s) \in T /\ Orderly(Tail(s), T)
         /\ Head(s) \in ToSet(s) /\ ToSet(Tail(s)) = ToSet(s) \ {Head(s)}
PROOF
  <1>1. /\ s \in Seq(T) /\ Len(s) \in Nat \ {0} /\ DOMAIN s = 1..Len(s) /\ Head(s) = s[1]
        /\ Tail(s) \in Seq(T) /\ Len(Tail(s)) = Len(s) - 1 /\ DOMAIN Tail(s) = 1..(Len(s) - 1)
        /\ \A i \in 1..(Len(s) - 1) : Tail(s)[i] = s[i + 1]
    BY DEF Orderly
  <1>2. 1 \in 1..Len(s) /\ \A i \in 1..(Len(s) - 1) : i + 1 \in 1..Len(s) /\ i + 1 # 1
    BY <1>1
  <1>3. \A i, j \in 1..Len(s) : s[i] = s[j] => i = j
    BY <1>1 DEF Orderly, IsInjective
  <1>4. Orderly(Tail(s), T)
    BY <1>1, <1>2, <1>3 DEF Orderly, IsInjective
  <1>5. ToSet(Tail(s)) \subseteq ToSet(s) \ {Head(s)}
    BY <1>1, <1>2, <1>3 DEF ToSet
  <1>6. ToSet(s) \ {Head(s)} \subseteq ToSet(Tail(s))
    <2> SUFFICES ASSUME NEW j \in 1..Len(s), j # 1 PROVE s[j] \in ToSet(Tail(s))
      BY <1>1 DEF ToSet
    <2>1. j - 1 \in 1..(Len(s) - 1) /\ (j - 1) + 1 = j
      BY <1>1
    <2> QED BY <1>1, <2>1 DEF ToSet
  <1>7. s[1] \in T /\ s[1] \in ToSet(s)
    BY <1>1, <1>2 DEF ToSet
  <1> QED BY <1>1, <1>4, <1>5, <1>6, <1>7

(* Among the intervals from 0 to a member, one has no other within it.     *)
LEMMA MinFacts ==
  ASSUME NEW S \in SUBSET Nat, S # {}
  PROVE  Min(S) \in S /\ \A x \in S : Min(S) <= x
PROOF
  <1> DEFINE Below == {0..x : x \in S}
             R     == StrictSubsetOrdering(Nat)
  <1>1. \A x \in S : (0..x) \in SUBSET Nat /\ IsFiniteSet(0..x)
    BY FS_Interval
  <1>2. Below \subseteq FiniteSubsetsOf(Nat) /\ Below # {}
    BY <1>1 DEF FiniteSubsetsOf
  <1>3. IsWellFoundedOn(R, FiniteSubsetsOf(Nat))
    BY FS_StrictSubsetOrderingWellFounded
  <1> HIDE DEF R
  <1>4. PICK b \in Below : \A c \in Below : ~(<<c, b>> \in R)
    <2> HIDE DEF Below
    <2> QED BY <1>2, <1>3, WFMin
  <1>5. PICK x \in S : b = 0..x
    BY <1>4
  <1>6. \A y \in S : x <= y
    <2> SUFFICES ASSUME NEW y \in S, y < x PROVE FALSE
      OBVIOUS
    <2>1. (0..y) \subseteq (0..x) /\ x \in 0..x /\ x \notin 0..y
      OBVIOUS
    <2>2. <<0..y, 0..x>> \in R
      BY <2>1 DEF R, StrictSubsetOrdering
    <2> QED BY <1>4, <1>5, <2>2
  <1> QED BY <1>6 DEF Min
=============================================================================
