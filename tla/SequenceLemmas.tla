--------------------------- MODULE SequenceLemmas ---------------------------
(***************************************************************************)
(* Facts about the sequences that stand for Go's lists and for the         *)
(* goroutines blocked on a channel: what is where after an element is      *)
(* added, moved on or removed.  How often an element occurs is what the    *)
(* invariants of the executors and of the bulkhead count with.             *)
(***************************************************************************)
EXTENDS SequencesExt, SequenceTheorems, FiniteSetTheorems, TLAPS

Places(s, x) == {i \in DOMAIN s : s[i] = x}
Occurrences(s, x) == Cardinality(Places(s, x))

LEMMA PlacesFinite ==
  ASSUME NEW S, NEW s \in Seq(S), NEW x
  PROVE  IsFiniteSet(Places(s, x)) /\ Occurrences(s, x) \in Nat
<1>1. Places(s, x) \in SUBSET (1 .. Len(s)) /\ Len(s) \in Int
  BY DEF Places
<1>2. 1 \in Int
  OBVIOUS
<1>3. IsFiniteSet(1 .. Len(s))
  BY <1>1, <1>2, FS_Interval
<1>4. IsFiniteSet(Places(s, x))
  BY <1>1, <1>3, FS_Subset
<1> QED
  BY <1>4, FS_CardinalityType DEF Occurrences

\* What occurs somewhere occurs, and the other way round.
LEMMA OccursSomewhere ==
  ASSUME NEW S, NEW s \in Seq(S), NEW x
  PROVE  Occurrences(s, x) > 0 <=> \E i \in DOMAIN s : s[i] = x
<1>1. Occurrences(s, x) \in Nat /\ (Occurrences(s, x) = 0 <=> Places(s, x) = {})
  BY PlacesFinite, FS_EmptySet DEF Occurrences
<1>2. Places(s, x) = {} <=> ~ \E i \in DOMAIN s : s[i] = x
  BY DEF Places
<1> QED
  BY <1>1, <1>2

LEMMA OccurrencesInShort ==
  ASSUME NEW x
  PROVE  /\ Occurrences(<<>>, x) = 0
         /\ \A y : Occurrences(<<y>>, x) = IF y = x THEN 1 ELSE 0
<1>1. Places(<<>>, x) = {}
  BY DEF Places
<1>2. ASSUME NEW y PROVE Places(<<y>>, x) = IF y = x THEN {1} ELSE {}
  BY DEF Places
<1> QED
  BY <1>1, <1>2, FS_EmptySet, FS_Singleton, Zenon DEF Occurrences

\* Occurrences add up when sequences are joined.
LEMMA OccurrencesInConcat ==
  ASSUME NEW S, NEW s \in Seq(S), NEW t \in Seq(S), NEW x
  PROVE  Occurrences(s \o t, x) = Occurrences(s, x) + Occurrences(t, x)
<1> DEFINE all == s \o t
           moved == [i \in Places(t, x) |-> i + Len(s)]
           Moved == {i + Len(s) : i \in Places(t, x)}
<1>1. /\ all \in Seq(S) /\ Len(all) = Len(s) + Len(t)
      /\ \A i \in 1 .. Len(s) + Len(t) :
           all[i] = IF i <= Len(s) THEN s[i] ELSE t[i - Len(s)]
  BY ConcatProperties
<1>2. /\ Len(s) \in Nat /\ Len(t) \in Nat
      /\ DOMAIN s = 1 .. Len(s) /\ DOMAIN t = 1 .. Len(t)
      /\ DOMAIN all = 1 .. Len(s) + Len(t)
  BY <1>1, LenProperties
<1>3. moved \in Bijection(Places(t, x), Moved)
  <2>1. moved \in [Places(t, x) -> Moved]
    OBVIOUS
  <2>2. \A i \in Places(t, x) : i \in Nat
    BY <1>2 DEF Places
  <2>3. \A i, j \in Places(t, x) : moved[i] = moved[j] => i = j
    BY <1>2, <2>2
  <2> QED
    BY <2>1, <2>3 DEF Bijection, Injection, Surjection, IsInjective
<1>4. IsFiniteSet(Moved) /\ Cardinality(Moved) = Occurrences(t, x)
  <2> HIDE DEF moved, Moved
  <2> QED
    BY <1>3, PlacesFinite, FS_Bijection DEF ExistsBijection, Occurrences
<1>5. Places(all, x) = Places(s, x) \cup Moved
  <2>1. ASSUME NEW i \in Places(all, x) PROVE i \in Places(s, x) \cup Moved
    <3>1. i \in 1 .. Len(s) + Len(t) /\ all[i] = x
      BY <1>2 DEF Places
    <3>2. CASE i <= Len(s)
      BY <1>1, <1>2, <3>1, <3>2 DEF Places
    <3>3. CASE ~ (i <= Len(s))
      <4>1. i - Len(s) \in 1 .. Len(t) /\ (i - Len(s)) + Len(s) = i
        BY <1>2, <3>1, <3>3
      <4>2. t[i - Len(s)] = x
        BY <1>1, <3>1, <3>3
      <4>3. i - Len(s) \in Places(t, x)
        BY <1>2, <4>1, <4>2 DEF Places
      <4> QED
        BY <4>1, <4>3
    <3> QED
      BY <3>2, <3>3
  <2>2. ASSUME NEW i \in Places(s, x) PROVE i \in Places(all, x)
    <3>1. i \in 1 .. Len(s) /\ s[i] = x
      BY <1>2 DEF Places
    <3>2. i \in 1 .. Len(s) + Len(t) /\ all[i] = s[i]
      BY <1>1, <1>2, <3>1
    <3> QED
      BY <1>2, <3>1, <3>2 DEF Places
  <2>3. ASSUME NEW j \in Places(t, x) PROVE j + Len(s) \in Places(all, x)
    <3>1. j \in 1 .. Len(t) /\ t[j] = x
      BY <1>2 DEF Places
    <3>2. j + Len(s) \in 1 .. Len(s) + Len(t) /\ ~ (j + Len(s) <= Len(s))
          /\ (j + Len(s)) - Len(s) = j
      BY <1>2, <3>1
    <3>3. all[j + Len(s)] = t[j]
      BY <1>1, <3>2
    <3> QED
      BY <1>2, <3>1, <3>2, <3>3 DEF Places
  <2> QED
    BY <2>1, <2>2, <2>3
<1>6. Places(s, x) \cap Moved = {}
  BY <1>2 DEF Places
<1>7. Cardinality(Places(s, x) \cup Moved) = Occurrences(s, x) + Cardinality(Moved) - 0
  <2> HIDE DEF Moved
  <2> QED
    BY <1>4, <1>6, PlacesFinite, FS_Union, FS_EmptySet DEF Occurrences
<1> QED
  <2> HIDE DEF Moved, all
  <2>1. Occurrences(all, x) = Occurrences(s, x) + Occurrences(t, x) - 0
    BY <1>4, <1>5, <1>7 DEF Occurrences
  <2>2. Occurrences(s, x) \in Nat /\ Occurrences(t, x) \in Nat
    BY PlacesFinite
  <2>3. Occurrences(all, x) = Occurrences(s, x) + Occurrences(t, x)
    BY <2>1, <2>2
  <2> QED
    BY <2>3 DEF all

-----------------------------------------------------------------------------
\* A goroutine that comes last, and one that is served first.
LEMMA OccurrencesInAppend ==
  ASSUME NEW S, NEW s \in Seq(S), NEW y \in S, NEW x
  PROVE  /\ Append(s, y) \in Seq(S)
         /\ Occurrences(Append(s, y), x) = Occurrences(s, x) + IF y = x THEN 1 ELSE 0
<1> DEFINE last == <<y>>
<1>1. Append(s, y) = s \o last /\ last \in Seq(S) /\ Append(s, y) \in Seq(S)
  BY AppendIsConcat, AppendProperties
<1>2. Occurrences(last, x) = IF y = x THEN 1 ELSE 0
  BY OccurrencesInShort
<1> HIDE DEF last
<1>3. Occurrences(s \o last, x) = Occurrences(s, x) + Occurrences(last, x)
  BY <1>1, OccurrencesInConcat
<1> QED
  BY <1>1, <1>2, <1>3

LEMMA OccurrencesInTail ==
  ASSUME NEW S, NEW s \in Seq(S), s # <<>>, NEW x
  PROVE  /\ Head(s) \in S /\ Tail(s) \in Seq(S)
         /\ Occurrences(s, x) = Occurrences(Tail(s), x) + IF Head(s) = x THEN 1 ELSE 0
<1> DEFINE first == <<Head(s)>>
           rest  == Tail(s)
<1>1. /\ Head(s) \in S /\ rest \in Seq(S) /\ first \in Seq(S)
      /\ s = first \o rest
  BY HeadTailProperties
<1>2. Occurrences(first, x) = IF Head(s) = x THEN 1 ELSE 0
  BY OccurrencesInShort
<1> HIDE DEF first, rest
<1>3. Occurrences(first \o rest, x) = Occurrences(first, x) + Occurrences(rest, x)
  BY <1>1, OccurrencesInConcat
<1>4. Occurrences(rest, x) \in Nat
  BY <1>1, PlacesFinite
<1>5. Occurrences(s, x) = Occurrences(rest, x) + IF Head(s) = x THEN 1 ELSE 0
  BY <1>1, <1>2, <1>3, <1>4
<1> QED
  BY <1>1, <1>5 DEF rest

\* A sequence that is cut in two.
LEMMA CutInTwo ==
  ASSUME NEW S, NEW s \in Seq(S), NEW n \in 0 .. Len(s)
  PROVE  /\ SubSeq(s, 1, n) \in Seq(S) /\ SubSeq(s, n + 1, Len(s)) \in Seq(S)
         /\ Len(SubSeq(s, 1, n)) = n /\ Len(SubSeq(s, n + 1, Len(s))) = Len(s) - n
         /\ s = SubSeq(s, 1, n) \o SubSeq(s, n + 1, Len(s))
<1>1. Len(s) \in Nat /\ n \in Int /\ n + 1 \in Int /\ 1 \in Int
      /\ \A i \in 1 .. Len(s) : s[i] \in S
  OBVIOUS
<1>2. (\A i \in 1 .. n : s[i] \in S) /\ (\A i \in n + 1 .. Len(s) : s[i] \in S)
  BY <1>1
<1>3. /\ SubSeq(s, 1, n) \in Seq(S)
      /\ Len(SubSeq(s, 1, n)) = IF 1 <= n THEN n - 1 + 1 ELSE 0
  BY <1>1, <1>2, SubSeqProperties
<1>4. /\ SubSeq(s, n + 1, Len(s)) \in Seq(S)
      /\ Len(SubSeq(s, n + 1, Len(s)))
           = IF n + 1 <= Len(s) THEN Len(s) - (n + 1) + 1 ELSE 0
  <2> DEFINE m == n + 1
  <2>1. m \in Int /\ Len(s) \in Int /\ \A i \in m .. Len(s) : s[i] \in S
    BY <1>1, <1>2
  <2> HIDE DEF m
  <2>2. /\ SubSeq(s, m, Len(s)) \in Seq(S)
        /\ Len(SubSeq(s, m, Len(s))) = IF m <= Len(s) THEN Len(s) - m + 1 ELSE 0
    BY <2>1, SubSeqProperties
  <2> QED
    BY <2>2 DEF m
<1>5. s = SubSeq(s, 1, n) \o SubSeq(s, n + 1, Len(s))
  <2>1. 1 \in 1 .. Len(s) + 1 /\ n \in 1 - 1 .. Len(s) /\ Len(s) \in n .. Len(s)
    BY <1>1
  <2>2. SubSeq(s, 1, n) \o SubSeq(s, n + 1, Len(s)) = SubSeq(s, 1, Len(s))
    BY <2>1, ConcatAdjacentSubSeq
  <2> QED
    BY <2>2, SubSeqFull
<1>6. Len(SubSeq(s, 1, n)) = n
  BY <1>1, <1>3
<1>7. Len(SubSeq(s, n + 1, Len(s))) = Len(s) - n
  BY <1>1, <1>4
<1> QED
  BY <1>3, <1>4, <1>5, <1>6, <1>7

\* RemoveAt shifts what comes after the element that goes ...
LEMMA RemoveAtProperties ==
  ASSUME NEW S, NEW s \in Seq(S), NEW i \in 1 .. Len(s)
  PROVE  /\ RemoveAt(s, i) \in Seq(S)
         /\ Len(RemoveAt(s, i)) = Len(s) - 1
         /\ \A k \in 1 .. Len(s) - 1 :
              RemoveAt(s, i)[k] = IF k < i THEN s[k] ELSE s[k + 1]
<1> DEFINE n == Len(s)
           left == SubSeq(s, 1, i - 1)
           right == SubSeq(s, i + 1, n)
<1>1. n \in Nat /\ i \in 1 .. n /\ i \in Int /\ \A k \in 1 .. n : s[k] \in S
  OBVIOUS
<1> HIDE DEF n
<1>2. /\ left \in Seq(S)
      /\ Len(left) = i - 1
      /\ \A k \in 1 .. i - 1 : left[k] = s[k]
  <2>1. i - 1 \in Int /\ 1 \in Int /\ \A k \in 1 .. i - 1 : s[k] \in S
    BY <1>1
  <2> DEFINE m == i - 1
  <2> HIDE DEF m
  <2>2. m \in Int /\ 1 \in Int /\ \A k \in 1 .. m : s[k] \in S
    BY <2>1 DEF m
  <2>3. /\ SubSeq(s, 1, m) \in Seq(S)
        /\ Len(SubSeq(s, 1, m)) = IF 1 <= m THEN m - 1 + 1 ELSE 0
        /\ \A k \in 1 .. m - 1 + 1 : SubSeq(s, 1, m)[k] = s[1 + k - 1]
    BY <2>2, SubSeqProperties
  <2>4. m >= 0
    BY <1>1 DEF m
  <2>5. /\ SubSeq(s, 1, m) \in Seq(S)
        /\ Len(SubSeq(s, 1, m)) = m
        /\ \A k \in 1 .. m : SubSeq(s, 1, m)[k] = s[k]
    BY <2>2, <2>3, <2>4
  <2> QED
    BY <2>5 DEF m
<1>3. /\ right \in Seq(S)
      /\ Len(right) = n - i
      /\ \A k \in 1 .. n - i : right[k] = s[i + k]
  <2> DEFINE m == i + 1
  <2>1. m \in Int /\ n \in Int /\ \A k \in m .. n : s[k] \in S
    BY <1>1
  <2>2. m = i + 1
    OBVIOUS
  <2> HIDE DEF m
  <2>3. /\ SubSeq(s, m, n) \in Seq(S)
        /\ Len(SubSeq(s, m, n)) = IF m <= n THEN n - m + 1 ELSE 0
        /\ \A k \in 1 .. n - m + 1 : SubSeq(s, m, n)[k] = s[m + k - 1]
    BY <2>1, SubSeqProperties
  <2>4. /\ SubSeq(s, m, n) \in Seq(S)
        /\ Len(SubSeq(s, m, n)) = n - i
        /\ \A k \in 1 .. n - i : SubSeq(s, m, n)[k] = s[i + k]
    BY <1>1, <2>1, <2>2, <2>3
  <2> QED
    BY <2>4 DEF m
<1>4. RemoveAt(s, i) = left \o right
  BY DEF RemoveAt, n
<1> HIDE DEF left, right
<1>5. /\ left \o right \in Seq(S)
      /\ Len(left \o right) = Len(left) + Len(right)
      /\ \A k \in 1 .. Len(left) + Len(right) :
           (left \o right)[k] = IF k <= Len(left) THEN left[k] ELSE right[k - Len(left)]
  BY <1>2, <1>3, ConcatProperties
<1>6. ASSUME NEW k \in 1 .. n - 1
      PROVE  (left \o right)[k] = IF k < i THEN s[k] ELSE s[k + 1]
  <2>1. CASE k < i
    BY <1>1, <1>2, <1>3, <1>5, <2>1
  <2>2. CASE ~ (k < i)
    <3>1. k - Len(left) \in 1 .. n - i /\ i + (k - Len(left)) = k + 1
      BY <1>1, <1>2, <2>2
    <3>2. k \in 1 .. Len(left) + Len(right) /\ ~ (k <= Len(left))
      BY <1>1, <1>2, <1>3, <2>2
    <3>3. (left \o right)[k] = right[k - Len(left)]
      BY <1>5, <3>2
    <3>4. right[k - Len(left)] = s[i + (k - Len(left))]
      BY <1>3, <3>1
    <3> QED
      BY <2>2, <3>1, <3>3, <3>4
  <2> QED
    BY <2>1, <2>2
<1> QED
  BY <1>1, <1>2, <1>3, <1>4, <1>5, <1>6 DEF n

\* ... and takes one occurrence of it away.
LEMMA OccurrencesInRemoveAt ==
  ASSUME NEW S, NEW s \in Seq(S), NEW i \in 1 .. Len(s), NEW x
  PROVE  /\ RemoveAt(s, i) \in Seq(S)
         /\ Occurrences(s, x) = Occurrences(RemoveAt(s, i), x) + IF s[i] = x THEN 1 ELSE 0
<1> DEFINE m == i - 1
           left == SubSeq(s, 1, m)
           rest == SubSeq(s, i, Len(s))
           right == SubSeq(s, i + 1, Len(s))
<1>1. m \in 0 .. Len(s) /\ m + 1 = i /\ i \in 0 .. Len(s) /\ s[i] \in S
  OBVIOUS
<1>2. left \in Seq(S) /\ rest \in Seq(S) /\ s = left \o rest
  <2> HIDE DEF m
  <2>1. SubSeq(s, m + 1, Len(s)) = rest
    BY <1>1
  <2> QED
    BY <1>1, <2>1, CutInTwo
<1>3. right \in Seq(S)
  BY <1>1, CutInTwo
<1>4. rest = <<s[i]>> \o right /\ <<s[i]>> \in Seq(S)
  <2>1. Len(s) \in i .. Len(s)
    OBVIOUS
  <2> QED
    BY <1>1, <2>1, SubSeqRecursiveFirst
<1>5. RemoveAt(s, i) = left \o right
  BY DEF RemoveAt
<1> HIDE DEF left, rest, right
<1>6. Occurrences(s, x) = Occurrences(left, x) + Occurrences(rest, x)
  BY <1>2, OccurrencesInConcat
<1>7. Occurrences(rest, x) = Occurrences(<<s[i]>>, x) + Occurrences(right, x)
  BY <1>3, <1>4, OccurrencesInConcat
<1>8. Occurrences(RemoveAt(s, i), x) = Occurrences(left, x) + Occurrences(right, x)
  BY <1>2, <1>3, <1>5, OccurrencesInConcat
<1>9. Occurrences(left, x) \in Nat /\ Occurrences(right, x) \in Nat
  BY <1>2, <1>3, PlacesFinite
<1>10. Occurrences(<<s[i]>>, x) = IF s[i] = x THEN 1 ELSE 0
  BY OccurrencesInShort
<1>11. RemoveAt(s, i) \in Seq(S)
  BY RemoveAtProperties
<1> QED
  BY <1>6, <1>7, <1>8, <1>9, <1>10, <1>11

-----------------------------------------------------------------------------
\* A list in which nothing occurs twice is a list of the members of a set.
LEMMA ListOfASet ==
  ASSUME NEW S, NEW s \in Seq(S), NEW T \in SUBSET S
  PROVE  IsInjective(s) /\ ToSet(s) = T
           <=> \A x \in S : Occurrences(s, x) = IF x \in T THEN 1 ELSE 0
<1>1. \A x \in S : Occurrences(s, x) \in Nat /\ IsFiniteSet(Places(s, x))
  BY PlacesFinite
<1>2. \A i \in DOMAIN s : s[i] \in S
  OBVIOUS
<1>3. ASSUME IsInjective(s), ToSet(s) = T, NEW x \in S
      PROVE  Occurrences(s, x) = IF x \in T THEN 1 ELSE 0
  <2>1. CASE x \in T
    <3>1. PICK i \in DOMAIN s : s[i] = x
      BY <1>3, <2>1 DEF ToSet
    <3>2. Places(s, x) = {i}
      BY <1>3, <3>1 DEF Places, IsInjective
    <3> QED
      BY <2>1, <3>2, FS_Singleton DEF Occurrences
  <2>2. CASE x \notin T
    <3>1. Places(s, x) = {}
      BY <1>3, <2>2 DEF Places, ToSet
    <3> QED
      BY <2>2, <3>1, FS_EmptySet DEF Occurrences
  <2> QED
    BY <2>1, <2>2
<1>4. ASSUME \A x \in S : Occurrences(s, x) = IF x \in T THEN 1 ELSE 0
      PROVE  IsInjective(s) /\ ToSet(s) = T
  <2>1. ASSUME NEW i \in DOMAIN s, NEW j \in DOMAIN s, s[i] = s[j] PROVE i = j
    <3>1. i \in Places(s, s[i]) /\ j \in Places(s, s[i])
      BY <2>1 DEF Places
    <3>2. Cardinality(Places(s, s[i])) \in {0, 1} /\ IsFiniteSet(Places(s, s[i]))
      BY <1>1, <1>2, <1>4 DEF Occurrences
    <3>3. Cardinality(Places(s, s[i])) = 1
      BY <3>1, <3>2, FS_EmptySet
    <3>4. \E k : Places(s, s[i]) = {k}
      BY <3>2, <3>3, FS_Singleton
    <3> QED
      BY <3>1, <3>4
  <2>2. ASSUME NEW x \in S PROVE x \in ToSet(s) <=> x \in T
    <3>1. Occurrences(s, x) > 0 <=> x \in T
      BY <1>4
    <3> QED
      BY <3>1, OccursSomewhere DEF ToSet
  <2>3. ToSet(s) \subseteq S
    BY <1>2 DEF ToSet
  <2> QED
    BY <2>1, <2>2, <2>3 DEF IsInjective
<1> QED
  BY <1>3, <1>4

\* So it is enough to count to know that nothing is there twice.
LEMMA CountedOnce ==
  ASSUME NEW S, NEW s \in Seq(S), NEW T, T \subseteq S,
         \A x \in S : Occurrences(s, x) = IF x \in T THEN 1 ELSE 0
  PROVE  IsInjective(s) /\ ToSet(s) = T
BY ListOfASet

\* A list of a set, each member once, is as long as the set has members.
LEMMA LengthOfAList ==
  ASSUME NEW S, NEW s \in Seq(S), IsInjective(s)
  PROVE  IsFiniteSet(ToSet(s)) /\ Cardinality(ToSet(s)) = Len(s)
<1> DEFINE n == Len(s)
<1>1. n \in Nat /\ DOMAIN s = 1 .. n /\ s \in [1 .. n -> S]
  BY LenProperties
<1>2. \A i, j \in 1 .. n : s[i] = s[j] => i = j
  BY <1>1 DEF IsInjective
<1> HIDE DEF n
<1>3. s \in Bijection(1 .. n, ToSet(s))
  <2>1. s \in [1 .. n -> ToSet(s)] /\ \A y \in ToSet(s) : \E i \in 1 .. n : s[i] = y
    BY <1>1 DEF ToSet
  <2> QED
    BY <1>2, <2>1 DEF Bijection, Injection, Surjection, IsInjective
<1>4. IsFiniteSet(1 .. n) /\ Cardinality(1 .. n) = n
  <2>1. 1 \in Int /\ n \in Int
    BY <1>1
  <2>2. IsFiniteSet(1 .. n) /\ Cardinality(1 .. n) = IF 1 > n THEN 0 ELSE n - 1 + 1
    BY <2>1, FS_Interval
  <2> QED
    BY <1>1, <2>2
<1>5. ExistsBijection(1 .. n, ToSet(s))
  BY <1>3 DEF ExistsBijection
<1> QED
  BY <1>4, <1>5, FS_Bijection, Zenon DEF n

\* A list that is prolonged by a list of new members.
LEMMA ListGrows ==
  ASSUME NEW S, NEW s \in Seq(S), IsInjective(s),
         NEW new \in Seq(S), IsInjective(new), ToSet(s) \cap ToSet(new) = {}
  PROVE  /\ s \o new \in Seq(S) /\ IsInjective(s \o new)
         /\ ToSet(s \o new) = ToSet(s) \cup ToSet(new)
<1> DEFINE T == ToSet(s)
           fresh == ToSet(new)
           all == s \o new
<1>1. fresh \in SUBSET S /\ T \in SUBSET S
  BY DEF ToSet
<1>2. all \in Seq(S)
  BY ConcatProperties
<1>3. ASSUME NEW x \in S PROVE Occurrences(all, x) = IF x \in T \cup fresh THEN 1 ELSE 0
  <2>1. ToSet(s) = T /\ ToSet(new) = fresh /\ T \cap fresh = {}
    OBVIOUS
  <2> HIDE DEF fresh, T
  <2>2. Occurrences(s, x) = IF x \in T THEN 1 ELSE 0
    BY <1>1, <2>1, ListOfASet
  <2>3. Occurrences(new, x) = IF x \in fresh THEN 1 ELSE 0
    BY <1>1, <2>1, ListOfASet
  <2>4. Occurrences(all, x) = Occurrences(s, x) + Occurrences(new, x)
    BY OccurrencesInConcat
  <2> HIDE DEF all
  <2>5. CASE x \in T
    BY <2>1, <2>2, <2>3, <2>4, <2>5
  <2>6. CASE x \notin T
    BY <2>2, <2>3, <2>4, <2>6
  <2> QED
    BY <2>5, <2>6
<1> DEFINE grown == T \cup fresh
<1>4. grown \in SUBSET S /\ \A x \in S : Occurrences(all, x) = IF x \in grown THEN 1 ELSE 0
  BY <1>1, <1>3
<1> HIDE DEF grown, all
<1>5. IsInjective(all) /\ ToSet(all) = grown
  BY <1>2, <1>4, ListOfASet
<1> QED
  BY <1>1, <1>2, <1>5 DEF all, grown

\* A list that loses its first n members.
LEMMA ListIsCut ==
  ASSUME NEW S, NEW s \in Seq(S), IsInjective(s), NEW n \in 0 .. Len(s)
  PROVE  LET first == ToSet(SubSeq(s, 1, n))
             rest  == SubSeq(s, n + 1, Len(s))
         IN  /\ first \subseteq ToSet(s)
             /\ rest \in Seq(S) /\ IsInjective(rest) /\ ToSet(rest) = ToSet(s) \ first
<1> DEFINE T == ToSet(s)
           cut == SubSeq(s, 1, n)
           rest == SubSeq(s, n + 1, Len(s))
           left == T \ ToSet(cut)
<1>1. cut \in Seq(S) /\ rest \in Seq(S) /\ s = cut \o rest
  BY CutInTwo
<1>0. T \in SUBSET S /\ ToSet(s) = T
  BY DEF ToSet
<1> HIDE DEF cut, rest, T
<1>2. ASSUME NEW x \in S
      PROVE  /\ Occurrences(rest, x) + Occurrences(cut, x) = IF x \in T THEN 1 ELSE 0
             /\ Occurrences(rest, x) \in Nat /\ Occurrences(cut, x) \in Nat
             /\ x \in ToSet(cut) <=> Occurrences(cut, x) > 0
  <2>1. Occurrences(s, x) = IF x \in T THEN 1 ELSE 0
    BY <1>0, ListOfASet
  <2>2. Occurrences(s, x) = Occurrences(cut, x) + Occurrences(rest, x)
    BY <1>1, OccurrencesInConcat
  <2>3. Occurrences(rest, x) \in Nat /\ Occurrences(cut, x) \in Nat
    BY <1>1, PlacesFinite
  <2>4. x \in ToSet(cut) <=> Occurrences(cut, x) > 0
    BY <1>1, OccursSomewhere DEF ToSet
  <2> QED
    BY <2>1, <2>2, <2>3, <2>4
<1>3. ToSet(cut) \subseteq T
  <2>1. ToSet(cut) \subseteq S
    BY <1>1 DEF ToSet
  <2> QED
    BY <1>2, <2>1
<1>4. left \in SUBSET S
  BY <1>0
<1>5. \A x \in S : Occurrences(rest, x) = IF x \in left THEN 1 ELSE 0
  BY <1>2
<1> HIDE DEF left
<1>6. IsInjective(rest) /\ ToSet(rest) = left
  BY <1>1, <1>4, <1>5, CountedOnce, Zenon
<1> QED
  BY <1>1, <1>3, <1>6 DEF cut, rest, left, T
=============================================================================
