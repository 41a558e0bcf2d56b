-------------------------- MODULE CalculationProofs --------------------------
(* The parts that compute an answer from what they are given: downloads in    *)
(* pages, adjusted prices, the files of the desktop program, the codes of     *)
(* securities, and the bars made of a day's trades.                           *)
EXTENDS PagedDownload, Adjustment, LocalFiles, SecurityCodes, MinuteBars, TLAPS,
        FiniteSetTheorems, SequenceTheorems, WellFoundedInduction

(***************************************************************************)
(* Sorted lists.                                                           *)
(***************************************************************************)
LEMMA RankType ==
  ASSUME NEW S, IsFiniteSet(S), NEW k
  PROVE  Rank(k, S) \in Nat
<1> DEFINE K == {j \in S : j < k}
<1>1. K \in SUBSET S
  OBVIOUS
<1>2. IsFiniteSet(K)
  <2> HIDE DEF K
  <2> QED
    BY <1>1, FS_Subset
<1> QED
  BY <1>2, FS_CardinalityType DEF Rank

LEMMA RankGrows ==
  ASSUME NEW S \in SUBSET Nat, IsFiniteSet(S), NEW k \in S, NEW l \in S, k < l
  PROVE  Rank(k, S) < Rank(l, S)
<1> DEFINE K == {j \in S : j < k}
           L == {j \in S : j < l}
<1>1. Rank(k, S) \in Nat /\ Rank(l, S) \in Nat
  BY RankType
<1>2. K \in SUBSET L /\ k \in L /\ k \notin K /\ L \in SUBSET S
  <2>1. \A j \in S : j \in Int /\ (j < k => j < l)
    OBVIOUS
  <2>2. ~ (k < k)
    OBVIOUS
  <2> QED
    BY <2>1, <2>2
<1>3. Cardinality(K) <= Cardinality(L) /\ Cardinality(L) # Cardinality(K)
  <2> HIDE DEF K, L
  <2> QED
    BY <1>2, FS_Subset
<1> QED
  BY <1>1, <1>3 DEF Rank

LEMMA RankBelow ==
  ASSUME NEW S \in SUBSET Nat, IsFiniteSet(S), NEW k \in S
  PROVE  Rank(k, S) \in 0 .. Cardinality(S) - 1
<1> DEFINE K == {j \in S : j < k}
<1>1. Rank(k, S) \in Nat /\ Cardinality(S) \in Nat
  BY RankType, FS_CardinalityType
<1>2. K \in SUBSET S /\ k \notin K
  OBVIOUS
<1>3. Cardinality(K) <= Cardinality(S) /\ Cardinality(S) # Cardinality(K)
  <2> HIDE DEF K
  <2> QED
    BY <1>2, FS_Subset
<1> QED
  BY <1>1, <1>3 DEF Rank

LEMMA RankOne ==
  ASSUME NEW S \in SUBSET Nat, IsFiniteSet(S), NEW k \in S, NEW l \in S,
         Rank(k, S) = Rank(l, S)
  PROVE  k = l
<1>1. k \in Int /\ l \in Int /\ Rank(k, S) \in Int /\ Rank(l, S) \in Int
  BY RankType
<1>2. ASSUME k < l PROVE FALSE
  <2>1. Rank(k, S) < Rank(l, S)
    BY <1>2, RankGrows
  <2> QED
    BY <1>1, <2>1
<1>3. ASSUME l < k PROVE FALSE
  <2>1. Rank(l, S) < Rank(k, S)
    BY <1>3, RankGrows
  <2> QED
    BY <1>1, <2>1
<1> QED
  BY <1>1, <1>2, <1>3

\* Every place below the size of the set is the rank of one element.
LEMMA RankOnto ==
  ASSUME NEW S \in SUBSET Nat, IsFiniteSet(S), NEW r \in 0 .. Cardinality(S) - 1
  PROVE  \E k \in S : Rank(k, S) = r
<1> DEFINE n == Cardinality(S)
           T == 0 .. n - 1
           f == [k \in S |-> Rank(k, S)]
<1>1. n \in Nat
  BY FS_CardinalityType
<1>2. IsFiniteSet(T) /\ Cardinality(T) = n
  BY <1>1, FS_Interval
<1>3. f \in [S -> T]
  BY RankBelow
<1>4. ASSUME NEW k \in S, NEW l \in S, f[k] = f[l] PROVE k = l
  BY <1>4, RankOne
<1>5. f \in Injection(S, T)
  <2> HIDE DEF f, T
  <2> QED
    BY <1>3, <1>4 DEF Injection, IsInjective
<1>6. f \in Surjection(S, T)
  <2> HIDE DEF f, T
  <2> QED
    BY <1>2, <1>5, FS_Injection
<1>7. \A t \in T : \E k \in S : f[k] = t
  <2> HIDE DEF f, T
  <2> QED
    BY <1>6 DEF Surjection
<1> QED
  BY <1>7

LEMMA SortedFacts ==
  ASSUME NEW S \in SUBSET Nat, IsFiniteSet(S)
  PROVE  /\ Cardinality(S) \in Nat
         /\ Sorted(S) \in Seq(S) /\ Sorted(S) \in Seq(Nat)
         /\ Len(Sorted(S)) = Cardinality(S)
         /\ DOMAIN Sorted(S) = 1 .. Cardinality(S)
         /\ \A i \in 1 .. Cardinality(S) : /\ Sorted(S)[i] \in S
                                           /\ Rank(Sorted(S)[i], S) = i - 1
         /\ \A k \in S : Sorted(S)[Rank(k, S) + 1] = k
         /\ \A i, j \in 1 .. Cardinality(S) : i < j => Sorted(S)[i] < Sorted(S)[j]
         /\ ToSet(Sorted(S)) = S
<1> DEFINE n == Cardinality(S)
           s == Sorted(S)
<1>1. n \in Nat
  BY FS_CardinalityType
<1>2. \A i \in 1 .. n : s[i] \in S /\ Rank(s[i], S) = i - 1
  <2> SUFFICES ASSUME NEW i \in 1 .. n PROVE s[i] \in S /\ Rank(s[i], S) = i - 1
    OBVIOUS
  <2>1. i - 1 \in 0 .. n - 1
    BY <1>1
  <2>2. \E k \in S : Rank(k, S) = i - 1
    BY <2>1, RankOnto
  <2>3. s[i] = CHOOSE k \in S : Rank(k, S) = i - 1
    BY DEF Sorted
  <2> QED
    BY <2>2, <2>3
<1>3. s \in [1 .. n -> S]
  BY <1>2 DEF Sorted
<1> HIDE DEF s
<1>4. s \in Seq(S) /\ Len(s) = n /\ DOMAIN s = 1 .. n
  BY <1>1, <1>3
<1>5. s \in Seq(Nat)
  BY <1>4, SeqMonotonic
<1>6. \A k, l \in S : Rank(k, S) = Rank(l, S) => k = l
  BY RankOne
<1>7. \A k \in S : Rank(k, S) + 1 \in 1 .. n /\ s[Rank(k, S) + 1] = k
  <2> SUFFICES ASSUME NEW k \in S PROVE Rank(k, S) + 1 \in 1 .. n /\ s[Rank(k, S) + 1] = k
    OBVIOUS
  <2>1. Rank(k, S) \in 0 .. n - 1
    BY RankBelow
  <2>2. Rank(k, S) + 1 \in 1 .. n
    BY <1>1, <2>1
  <2>3. s[Rank(k, S) + 1] \in S /\ Rank(s[Rank(k, S) + 1], S) = Rank(k, S)
    BY <1>2, <2>1, <2>2
  <2> QED
    BY <1>6, <2>2, <2>3
<1>8. \A i, j \in 1 .. n : i < j => s[i] < s[j]
  <2> SUFFICES ASSUME NEW i \in 1 .. n, NEW j \in 1 .. n, i < j PROVE s[i] < s[j]
    OBVIOUS
  <2>1. s[i] \in S /\ s[j] \in S /\ Rank(s[i], S) = i - 1 /\ Rank(s[j], S) = j - 1
    BY <1>2
  <2>2. s[i] # s[j]
    <3>1. i - 1 # j - 1
      OBVIOUS
    <3> QED
      BY <2>1, <3>1
  <2>4. s[i] \in Int /\ s[j] \in Int
    <3>1. \A k \in S : k \in Int
      OBVIOUS
    <3> QED
      BY <2>1, <3>1
  <2>3. ASSUME s[j] < s[i] PROVE FALSE
    <3>1. Rank(s[j], S) < Rank(s[i], S)
      BY <2>1, <2>3, RankGrows
    <3> QED
      BY <2>1, <3>1
  <2> QED
    BY <2>2, <2>3, <2>4
<1>9. ToSet(s) = S
  BY <1>2, <1>4, <1>7 DEF ToSet
<1> QED
  BY <1>1, <1>2, <1>4, <1>5, <1>7, <1>8, <1>9 DEF s

\* The numbers from 1 on are their own places.
LEMMA SortedInterval ==
  ASSUME NEW n \in Nat
  PROVE  /\ IsFiniteSet(1 .. n) /\ Cardinality(1 .. n) = n
         /\ Len(Sorted(1 .. n)) = n
         /\ \A i \in 1 .. n : Sorted(1 .. n)[i] = i
<1>1. IsFiniteSet(1 .. n) /\ Cardinality(1 .. n) = n /\ 1 .. n \in SUBSET Nat
  BY FS_Interval
<1>2. \A k \in 1 .. n : Rank(k, 1 .. n) = k - 1
  <2> SUFFICES ASSUME NEW k \in 1 .. n PROVE Rank(k, 1 .. n) = k - 1
    OBVIOUS
  <2>1. {j \in 1 .. n : j < k} = 1 .. k - 1
    OBVIOUS
  <2>2. Cardinality(1 .. k - 1) = k - 1
    BY FS_Interval
  <2> QED
    BY <2>1, <2>2 DEF Rank
<1>3. \A k \in 1 .. n : Sorted(1 .. n)[Rank(k, 1 .. n) + 1] = k
  BY <1>1, SortedFacts
<1> QED
  BY <1>1, <1>2, <1>3, SortedFacts

(***************************************************************************)
(* Lists and their elements.                                               *)
(***************************************************************************)
LEMMA ToSetFacts ==
  ASSUME NEW T, NEW s \in Seq(T)
  PROVE  /\ ToSet(s) \in SUBSET T
         /\ IsFiniteSet(ToSet(s)) /\ Cardinality(ToSet(s)) \in Nat
         /\ Cardinality(ToSet(s)) <= Len(s)
<1>1. Len(s) \in Nat /\ DOMAIN s = 1 .. Len(s) /\ \A i \in 1 .. Len(s) : s[i] \in T
  OBVIOUS
<1>2. ToSet(s) \in SUBSET T
  BY <1>1 DEF ToSet
<1>3. IsFiniteSet(1 .. Len(s)) /\ Cardinality(1 .. Len(s)) = Len(s)
  BY <1>1, SortedInterval
<1>4. s \in Surjection(1 .. Len(s), ToSet(s))
  <2>1. s \in [1 .. Len(s) -> ToSet(s)]
    BY <1>1 DEF ToSet
  <2> QED
    BY <1>1, <2>1 DEF Surjection, ToSet
<1>5. IsFiniteSet(ToSet(s)) /\ Cardinality(ToSet(s)) <= Len(s)
  BY <1>3, <1>4, FS_Surjection
<1> QED
  BY <1>2, <1>5, FS_CardinalityType

\* A list in which every element stands once is as long as its set is large.
LEMMA DistinctFacts ==
  ASSUME NEW T, NEW s \in Seq(T),
         \A i, j \in 1 .. Len(s) : s[i] = s[j] => i = j
  PROVE  Cardinality(ToSet(s)) = Len(s)
<1>1. Len(s) \in Nat /\ DOMAIN s = 1 .. Len(s) /\ \A i \in 1 .. Len(s) : s[i] \in T
  OBVIOUS
<1>2. IsFiniteSet(1 .. Len(s)) /\ Cardinality(1 .. Len(s)) = Len(s)
  BY <1>1, SortedInterval
<1>3. s \in [1 .. Len(s) -> ToSet(s)]
  BY <1>1 DEF ToSet
<1>4. s \in Surjection(1 .. Len(s), ToSet(s))
  BY <1>1, <1>3 DEF Surjection, ToSet
<1>5. s \in Injection(1 .. Len(s), ToSet(s))
  BY <1>1, <1>3 DEF Injection, IsInjective
<1> QED
  BY <1>2, <1>4, <1>5, FS_Surjection

LEMMA ToSetJoin ==
  ASSUME NEW T, NEW s \in Seq(T), NEW u \in Seq(T)
  PROVE  /\ s \o u \in Seq(T)
         /\ Len(s \o u) = Len(s) + Len(u)
         /\ ToSet(s \o u) = ToSet(s) \cup ToSet(u)
         /\ \A i \in 1 .. Len(s) : (s \o u)[i] = s[i]
         /\ \A i \in 1 .. Len(u) : (s \o u)[Len(s) + i] = u[i]
<1>1. ToSet(s \o u) = ToSet(s) \cup ToSet(u)
  <2>1. Range(s \o u) = Range(s) \cup Range(u)
    BY RangeConcatenation
  <2> QED
    BY <2>1 DEF Range, ToSet
<1> QED
  BY <1>1, ConcatProperties

LEMMA ReverseFacts ==
  ASSUME NEW T, NEW s \in Seq(T)
  PROVE  /\ Reverse(s) \in Seq(T)
         /\ Len(Reverse(s)) = Len(s)
         /\ ToSet(Reverse(s)) = ToSet(s)
         /\ \A i \in 1 .. Len(s) : Reverse(s)[i] = s[Len(s) - i + 1]
<1>1. Len(s) \in Nat /\ DOMAIN s = 1 .. Len(s) /\ \A i \in 1 .. Len(s) : s[i] \in T
  OBVIOUS
<1>2. Reverse(s) = [i \in 1 .. Len(s) |-> s[Len(s) - i + 1]]
  BY DEF Reverse
<1>3. Reverse(s) \in [1 .. Len(s) -> T]
  BY <1>1, <1>2
<1>4. Reverse(s) \in Seq(T) /\ Len(Reverse(s)) = Len(s)
  BY <1>1, <1>3
<1>5. ToSet(Reverse(s)) = ToSet(s)
  <2>1. \A i \in 1 .. Len(s) : Len(s) - i + 1 \in 1 .. Len(s) /\ Len(s) - (Len(s) - i + 1) + 1 = i
    BY <1>1
  <2>2. \A i \in 1 .. Len(s) : /\ Reverse(s)[i] = s[Len(s) - i + 1]
                               /\ Reverse(s)[Len(s) - i + 1] = s[i]
    BY <1>1, <1>2, <2>1
  <2>3. DOMAIN Reverse(s) = 1 .. Len(s)
    BY <1>2
  <2>4. ASSUME NEW x \in ToSet(Reverse(s)) PROVE x \in ToSet(s)
    <3>1. PICK i \in 1 .. Len(s) : x = Reverse(s)[i]
      BY <2>3 DEF ToSet
    <3> QED
      BY <1>1, <2>1, <2>2, <3>1 DEF ToSet
  <2>5. ASSUME NEW x \in ToSet(s) PROVE x \in ToSet(Reverse(s))
    <3>1. PICK i \in 1 .. Len(s) : x = s[i]
      BY <1>1 DEF ToSet
    <3> QED
      BY <2>1, <2>2, <2>3, <3>1 DEF ToSet
  <2> QED
    BY <2>4, <2>5
<1> QED
  BY <1>2, <1>4, <1>5

\* A page goes into what is there: what both have, was ahead and is not any
\* more.
LEMMA PageCounted ==
  ASSUME NEW G, NEW P, NEW A, NEW B, IsFiniteSet(G), IsFiniteSet(P),
         A \subseteq G, B \subseteq A, G \cap P \subseteq A \ B,
         NEW n \in Nat, NEW g \in Nat, n + Cardinality(A) <= Cardinality(G) + g
  PROVE  n + Cardinality(P) + Cardinality(B) <= Cardinality(G \cup P) + g
<1>1. IsFiniteSet(A) /\ IsFiniteSet(B) /\ IsFiniteSet(A \ B) /\ IsFiniteSet(G \cap P)
  <2>1. IsFiniteSet(A)
    BY FS_Subset
  <2>2. IsFiniteSet(B)
    BY <2>1, FS_Subset
  <2> QED
    BY <2>1, <2>2, FS_Difference, FS_Intersection
<1>2. /\ Cardinality(G) \in Nat /\ Cardinality(P) \in Nat /\ Cardinality(A) \in Nat
      /\ Cardinality(B) \in Nat /\ Cardinality(A \ B) \in Nat /\ Cardinality(G \cap P) \in Nat
  BY <1>1, FS_CardinalityType
<1>3. Cardinality(G \cup P) = Cardinality(G) + Cardinality(P) - Cardinality(G \cap P)
  BY FS_Union
<1>4. Cardinality(A \ B) = Cardinality(A) - Cardinality(B)
  <2>1. A \cap B = B
    OBVIOUS
  <2>2. Cardinality(A \ B) = Cardinality(A) - Cardinality(A \cap B)
    BY <1>1, FS_Difference
  <2> QED
    BY <2>1, <2>2
<1>5. Cardinality(G \cap P) <= Cardinality(A \ B)
  BY <1>1, FS_Subset
<1> QED
  BY <1>2, <1>3, <1>4, <1>5

(***************************************************************************)
(* A download by page: the inductive invariant.                            *)
(***************************************************************************)
NewestKinds == {"trades", "bars", "daily", "exBars"}

Count == Cardinality(listed)

Elements == IF kind \in FileKinds THEN Nat \X Nat ELSE Nat

PagedTypeOK ==
    /\ kind \in Kinds
    /\ listed \in SUBSET (1 .. MaxListed)
    /\ version \in Nat \ {0} /\ grown \in Nat /\ shrunk \in BOOLEAN
    /\ kept \in SUBSET listed
    /\ load \in [pc : {"page", "ok", "err"}, start : Nat, from : 0 .. MaxListed,
                 got : Seq(Elements), size : Nat]

\* The elements that are there already and will be met again, because what
\* was added has moved them over the border of the next page.
AheadOf(start) == IF kind \in CodeKinds
                  THEN {k \in ToSet(load.got) : start <= Rank(k, listed)}
                  ELSE {k \in ToSet(load.got) : k <= Count - start}
Ahead == AheadOf(load.start)

\* What is there twice and what will be is no more than what was added.
Counted == Len(load.got) + Cardinality(Ahead) <= Cardinality(ToSet(load.got)) + grown

\* The elements a loop asks for; the others are left out of its pages.
Due(k) == kind \in {"daily", "exBars"} => k >= load.from

CodesInLoop ==
    /\ load.start <= MaxListed
    /\ ~shrunk => /\ ToSet(load.got) \subseteq listed
                  /\ \A k \in kept : Rank(k, listed) < load.start => k \in ToSet(load.got)
                  /\ Counted

\* Bars and trades are numbered without a gap, and only the last were added.
NewestInLoop ==
    /\ listed = 1 .. Count /\ grown <= Count /\ kept = 1 .. Count - grown
    /\ load.start <= Count
    /\ ToSet(load.got) \subseteq 1 .. Count
    /\ \A k \in ToSet(load.got) : Count - load.start - grown < k
    /\ \A k \in kept : Count - load.start < k /\ Due(k) => k \in ToSet(load.got)
    /\ kind # "daily" => Counted
    /\ kind \in {"trades", "bars"} => Ordered(load.got)
    /\ kind = "exBars" => Ordered(Reverse(load.got))

BlockInLoop ==
    grown = 0 =>
        /\ load.size \in {0, FileSize(version)}
        /\ load.size = 0 => load.start = 0
        /\ load.start < FileSize(version)
        /\ load.got = SubSeq(File(version), 1, load.start)

PagedInv ==
    /\ PagedTypeOK
    /\ load.pc = "page" => /\ kind \in CodeKinds => CodesInLoop
                           /\ kind \in NewestKinds => NewestInLoop
                           /\ kind = "block" => BlockInLoop
    /\ DownloadComplete

(***************************************************************************)
(* The pages.                                                              *)
(***************************************************************************)
LEMMA MinOfTwo ==
  ASSUME NEW a \in Int, NEW b \in Int
  PROVE  Min({a, b}) = IF a <= b THEN a ELSE b
<1>1. \A x \in {a, b} : (\A y \in {a, b} : x =< y) => x = IF a <= b THEN a ELSE b
  OBVIOUS
<1>2. \E x \in {a, b} : \A y \in {a, b} : x =< y
  <2>1. CASE a <= b
    <3>1. a =< a /\ a =< b
      BY <2>1
    <3> QED
      BY <3>1
  <2>2. CASE ~ (a <= b)
    <3>1. b =< a /\ b =< b
      BY <2>2
    <3> QED
      BY <3>1
  <2> QED
    BY <2>1, <2>2
<1> QED
  BY <1>1, <1>2 DEF Min

LEMMA ListedFinite ==
  ASSUME PagedTypeOK
  PROVE  /\ listed \in SUBSET Nat /\ IsFiniteSet(listed)
         /\ Count \in Nat /\ Count <= MaxListed
<1>1. IsFiniteSet(1 .. MaxListed) /\ Cardinality(1 .. MaxListed) = MaxListed
  BY PagedConstants, SortedInterval
<1>2. listed \in SUBSET (1 .. MaxListed)
  BY DEF PagedTypeOK
<1>3. IsFiniteSet(listed) /\ Cardinality(listed) <= MaxListed
  BY <1>1, <1>2, FS_Subset
<1>4. listed \in SUBSET Nat
  BY <1>2
<1> QED
  BY <1>3, <1>4, FS_CardinalityType DEF Count

\* A page of codes has the elements whose ranks it covers, in order, and is
\* short at the end of the list only.
LEMMA FirstPage ==
  ASSUME PagedTypeOK, NEW start \in Nat
  PROVE  LET page == PageFromFirst(start)
         IN /\ page \in Seq(Nat)
            /\ ToSet(page) = {k \in listed : start <= Rank(k, listed) /\ Rank(k, listed) < start + Size}
            /\ Cardinality(ToSet(page)) = Len(page)
            /\ Len(page) < Size => \A k \in listed : Rank(k, listed) < start + Size
            /\ ~ (Len(page) < Size) => start + Size <= Count
<1> DEFINE page == PageFromFirst(start)
           n == Count
           last == IF start + Size <= n THEN start + Size ELSE n
<1>1. /\ listed \in SUBSET Nat /\ IsFiniteSet(listed) /\ n \in Nat
      /\ Size \in Nat \ {0}
  BY ListedFinite, PagedConstants
<1>2. /\ List \in Seq(Nat) /\ Len(List) = n
      /\ \A i \in 1 .. n : List[i] \in listed /\ Rank(List[i], listed) = i - 1
      /\ \A k \in listed : List[Rank(k, listed) + 1] = k
      /\ \A i, j \in 1 .. n : i < j => List[i] < List[j]
  BY <1>1, SortedFacts DEF List, Count
<1>3. last \in Nat /\ last <= n /\ last <= start + Size
  BY <1>1
<1>4. Min({start + Size, n}) = last
  BY <1>1, MinOfTwo
<1>5. page = SubSeq(List, start + 1, last)
  BY <1>2, <1>4 DEF PageFromFirst, Between
<1>6. \A i \in start + 1 .. last : i \in 1 .. n /\ List[i] \in Nat
  BY <1>1, <1>2, <1>3
<1> HIDE DEF last
<1>7. /\ page \in Seq(Nat)
      /\ Len(page) = IF start + 1 <= last THEN last - start ELSE 0
      /\ \A i \in 1 .. last - start : page[i] = List[start + i]
  <2>1. start + 1 \in Int /\ last \in Int
    BY <1>3
  <2>2. /\ SubSeq(List, start + 1, last) \in Seq(Nat)
        /\ Len(SubSeq(List, start + 1, last)) = IF start + 1 <= last THEN last - (start + 1) + 1 ELSE 0
        /\ \A i \in 1 .. last - (start + 1) + 1 :
              SubSeq(List, start + 1, last)[i] = List[(start + 1) + i - 1]
    BY <1>6, <2>1, SubSeqProperties
  <2>3. last - (start + 1) + 1 = last - start
    BY <2>1
  <2>4. \A i \in 1 .. last - start : (start + 1) + i - 1 = start + i
    BY <2>1
  <2> QED
    BY <1>5, <2>2, <2>3, <2>4
<1> HIDE DEF page
<1>8. \A i \in 1 .. Len(page) : /\ start + i \in 1 .. n /\ start + i <= last
                                /\ page[i] = List[start + i]
  <2> SUFFICES ASSUME NEW i \in 1 .. Len(page)
               PROVE  start + i \in 1 .. n /\ start + i <= last /\ page[i] = List[start + i]
    OBVIOUS
  <2>1. i \in 1 .. last - start
    BY <1>3, <1>7
  <2> QED
    BY <1>1, <1>3, <1>7, <2>1
<1>9. ASSUME NEW k \in ToSet(page)
      PROVE  k \in listed /\ start <= Rank(k, listed) /\ Rank(k, listed) < start + Size
  <2>1. PICK i \in 1 .. Len(page) : k = page[i]
    BY <1>7 DEF ToSet
  <2>2. k \in listed /\ Rank(k, listed) = start + i - 1
    BY <1>2, <1>8, <2>1
  <2>3. start + i <= last /\ i \in Nat /\ i >= 1
    BY <1>7, <1>8, <2>1
  <2> QED
    BY <1>1, <1>3, <2>2, <2>3
<1>10. ASSUME NEW k \in listed, start <= Rank(k, listed), Rank(k, listed) < start + Size
       PROVE  k \in ToSet(page)
  <2> DEFINE i == Rank(k, listed) + 1 - start
  <2>1. Rank(k, listed) \in 0 .. n - 1
    BY <1>1, RankBelow DEF Count
  <2>2. i \in 1 .. last - start /\ start + i = Rank(k, listed) + 1 /\ start + 1 <= last
    BY <1>1, <1>10, <2>1 DEF last
  <2>3. page[i] = k /\ i \in 1 .. Len(page)
    BY <1>2, <1>7, <2>2
  <2> QED
    BY <1>7, <2>3 DEF ToSet
<1>11. Cardinality(ToSet(page)) = Len(page)
  <2>1. ASSUME NEW i \in 1 .. Len(page), NEW j \in 1 .. Len(page), page[i] = page[j]
        PROVE  i = j
    <3>1. List[start + i] = List[start + j] /\ start + i \in 1 .. n /\ start + j \in 1 .. n
      BY <1>8, <2>1
    <3>2. Rank(List[start + i], listed) = start + i - 1 /\ Rank(List[start + j], listed) = start + j - 1
      BY <1>2, <3>1
    <3> QED
      BY <3>1, <3>2
  <2> QED
    BY <1>7, <2>1, DistinctFacts
<1>12. Len(page) < Size => \A k \in listed : Rank(k, listed) < start + Size
  <2>1. Len(page) < Size => n < start + Size
    BY <1>1, <1>7 DEF last
  <2>2. \A k \in listed : Rank(k, listed) \in 0 .. n - 1
    BY <1>1, RankBelow DEF Count
  <2> QED
    BY <1>1, <2>1, <2>2
<1>13. ~ (Len(page) < Size) => start + Size <= Count
  BY <1>1, <1>3, <1>7 DEF last
<1> QED
  BY <1>7, <1>9, <1>10, <1>11, <1>12, <1>13 DEF page

\* Where a page of bars or trades begins.
Before(start) == IF Count > start + Size THEN Count - start - Size ELSE 0

\* A page of them is a stretch of numbers, and is short at the first only.
LEMMA NewestPage ==
  ASSUME PagedTypeOK, listed = 1 .. Count, NEW start \in Nat, start <= Count
  PROVE  LET page == PageFromNewest(start)
         IN /\ Before(start) \in Nat /\ Before(start) <= Count - start
            /\ page \in Seq(Nat) /\ Len(page) = Count - start - Before(start)
            /\ \A i \in 1 .. Len(page) : page[i] = Before(start) + i
            /\ ToSet(page) = Before(start) + 1 .. Count - start
            /\ Cardinality(ToSet(page)) = Len(page)
            /\ Len(page) < Size => Before(start) = 0
            /\ ~ (Len(page) < Size) => /\ start + Size <= Count
                                       /\ Before(start) = Count - (start + Size)
<1> DEFINE page == PageFromNewest(start)
           n == Count
           low == Before(start)
           high == n - start
<1>1. /\ n \in Nat /\ Size \in Nat \ {0} /\ high \in Nat /\ high <= n
      /\ low \in Nat /\ low <= high
  BY ListedFinite, PagedConstants DEF Before
<1>2. Len(List) = n /\ \A i \in 1 .. n : List[i] = i
  BY <1>1, SortedInterval DEF List
<1>3. Min({high, Len(List)}) = high
  BY <1>1, <1>2, MinOfTwo
<1>4. page = SubSeq(List, low + 1, high)
  <2>1. (IF Cardinality(listed) > start + Size THEN Cardinality(listed) - start - Size ELSE 0) = low
    BY DEF Before, Count
  <2>2. (IF Cardinality(listed) > start THEN Cardinality(listed) - start ELSE 0) = high
    BY <1>1 DEF Count
  <2> QED
    BY <1>3, <2>1, <2>2 DEF PageFromNewest, Between
<1>5. low \in Int /\ high \in Int /\ low + 1 \in Int
  BY <1>1
<1>6. \A i \in low + 1 .. high : List[i] = i /\ List[i] \in Nat
  BY <1>1, <1>2
<1> HIDE DEF low, high, page
<1>7. /\ page \in Seq(Nat)
      /\ Len(page) = IF low + 1 <= high THEN high - (low + 1) + 1 ELSE 0
      /\ \A i \in 1 .. high - (low + 1) + 1 : page[i] = List[(low + 1) + i - 1]
  BY <1>4, <1>5, <1>6, SubSeqProperties
<1>8. Len(page) = high - low
  BY <1>1, <1>7
<1>9. \A i \in 1 .. Len(page) : page[i] = low + i
  <2> SUFFICES ASSUME NEW i \in 1 .. Len(page) PROVE page[i] = low + i
    OBVIOUS
  <2>1. /\ i \in 1 .. high - (low + 1) + 1 /\ (low + 1) + i - 1 = low + i
        /\ low + i \in low + 1 .. high
    BY <1>1, <1>8
  <2> QED
    BY <1>6, <1>7, <2>1
<1>10. ToSet(page) = low + 1 .. high
  <2>1. ASSUME NEW k \in ToSet(page) PROVE k \in low + 1 .. high
    <3>1. PICK i \in 1 .. Len(page) : k = page[i]
      BY <1>7 DEF ToSet
    <3> QED
      BY <1>1, <1>8, <1>9, <3>1
  <2>2. ASSUME NEW k \in low + 1 .. high PROVE k \in ToSet(page)
    <3>1. k - low \in 1 .. Len(page) /\ low + (k - low) = k
      BY <1>1, <1>8
    <3>2. page[k - low] = k
      BY <1>9, <3>1
    <3> QED
      BY <1>7, <3>1, <3>2 DEF ToSet
  <2> QED
    BY <2>1, <2>2
<1>11. Cardinality(ToSet(page)) = Len(page)
  <2>1. \A i, j \in 1 .. Len(page) : page[i] = page[j] => i = j
    BY <1>1, <1>9
  <2> QED
    BY <1>7, <2>1, DistinctFacts
<1>12. Len(page) < Size => low = 0
  BY <1>1, <1>8 DEF Before, low, high
<1>13. ~ (Len(page) < Size) => start + Size <= n /\ low = n - (start + Size)
  BY <1>1, <1>8 DEF Before, low, high
<1> QED
  BY <1>1, <1>7, <1>8, <1>9, <1>10, <1>11, <1>12, <1>13 DEF low, high, page

(***************************************************************************)
(* One request for codes.                                                  *)
(***************************************************************************)
LEMMA LoadType ==
  ASSUME PagedTypeOK
  PROVE  /\ load.pc \in {"page", "ok", "err"} /\ load.start \in Nat /\ load.from \in Nat
         /\ load.got \in Seq(Elements) /\ load.size \in Nat
         /\ (kind \notin FileKinds) => load.got \in Seq(Nat)
         /\ load = [pc |-> load.pc, start |-> load.start, from |-> load.from,
                    got |-> load.got, size |-> load.size]
BY PagedConstants DEF PagedTypeOK, Elements

\* Nothing is promised of a loop that has not ended, or has failed.
LEMMA NotOkComplete == load.pc # "ok" => DownloadComplete
BY DEF DownloadComplete

LEMMA SameTypes ==
  ASSUME PagedTypeOK, UNCHANGED <<kind, listed, version, grown, shrunk, kept>>,
         load' = [pc |-> load'.pc, start |-> load'.start, from |-> load.from,
                  got |-> load'.got, size |-> load'.size],
         load'.pc \in {"page", "ok", "err"}, load'.start \in Nat,
         load'.got \in Seq(Elements), load'.size \in Nat
  PROVE  PagedTypeOK'
<1>1. Elements' = Elements
  BY DEF Elements
<1>2. load.from \in 0 .. MaxListed
  BY DEF PagedTypeOK
<1>3. load' \in [pc : {"page", "ok", "err"}, start : Nat, from : 0 .. MaxListed,
                 got : Seq(Elements), size : Nat]
  BY <1>2
<1> QED
  BY <1>1, <1>3 DEF PagedTypeOK

LEMMA FailInv ==
  ASSUME PagedInv, Fail, UNCHANGED <<kind, listed, version, grown, shrunk, kept>>
  PROVE  PagedInv'
<1>1. PagedTypeOK /\ load' = [load EXCEPT !.got = <<>>, !.pc = "err"]
  BY DEF PagedInv, Fail
<1>2. load' = [pc |-> "err", start |-> load.start, from |-> load.from,
               got |-> <<>>, size |-> load.size]
  BY <1>1, LoadType
<1>3. PagedTypeOK' /\ load'.pc = "err"
  <2>1. /\ load'.pc = "err" /\ load'.start = load.start /\ load'.from = load.from
        /\ load'.got = <<>> /\ load'.size = load.size
    BY <1>2
  <2>2. <<>> \in Seq(Elements)
    OBVIOUS
  <2> QED
    BY <1>1, <1>2, <2>1, <2>2, LoadType, SameTypes
<1>4. DownloadComplete'
  BY <1>3 DEF DownloadComplete
<1> QED
  BY <1>3, <1>4 DEF PagedInv

\* The elements of the list that a page adds, and those that were ahead of it.
LEMMA CodesJoin ==
  ASSUME PagedTypeOK, kind \in CodeKinds, CodesInLoop, ~shrunk
  PROVE  LET page == PageFromFirst(load.start)
             whole == load.got \o page
             next == load.start + Size
         IN /\ whole \in Seq(Nat)
            /\ ToSet(whole) \subseteq listed
            /\ \A k \in kept : Rank(k, listed) < next => k \in ToSet(whole)
            /\ Len(whole) + Cardinality({k \in ToSet(whole) : next <= Rank(k, listed)})
                 <= Cardinality(ToSet(whole)) + grown
<1> DEFINE page == PageFromFirst(load.start)
           whole == load.got \o page
           next == load.start + Size
           G == ToSet(load.got)
           P == ToSet(page)
           A == {k \in G : load.start <= Rank(k, listed)}
           B == {k \in G : next <= Rank(k, listed)}
<1>1. load.start \in Nat /\ load.got \in Seq(Nat) /\ Size \in Nat /\ grown \in Nat
  BY LoadType, PagedConstants DEF PagedTypeOK, CodeKinds, FileKinds
<1>2. /\ page \in Seq(Nat) /\ Cardinality(P) = Len(page)
      /\ P = {k \in listed : load.start <= Rank(k, listed) /\ Rank(k, listed) < next}
  BY <1>1, FirstPage
<1>3. \A k \in listed : Rank(k, listed) \in Nat
  BY ListedFinite, RankType
<1>4. G \subseteq listed /\ kept \subseteq listed
  BY DEF CodesInLoop, PagedTypeOK
<1> HIDE DEF page
<1>5. whole \in Seq(Nat) /\ Len(whole) = Len(load.got) + Len(page) /\ ToSet(whole) = G \cup P
  BY <1>1, <1>2, ToSetJoin
<1>6. IsFiniteSet(G) /\ IsFiniteSet(P) /\ Len(load.got) \in Nat /\ Len(page) \in Nat
  <2>1. IsFiniteSet(G)
    BY <1>1, ToSetFacts
  <2>2. IsFiniteSet(P)
    BY <1>2, ToSetFacts
  <2> QED
    BY <1>1, <1>2, <2>1, <2>2
<1>7. Len(load.got) + Cardinality(A) <= Cardinality(G) + grown
  BY DEF CodesInLoop, Counted, Ahead, AheadOf
<1>8. A \subseteq G /\ B \subseteq A /\ G \cap P \subseteq A \ B
  <2>1. \A k \in G : next <= Rank(k, listed) => load.start <= Rank(k, listed)
    BY <1>1, <1>3, <1>4
  <2>2. \A k \in P : load.start <= Rank(k, listed) /\ ~ (next <= Rank(k, listed))
    BY <1>1, <1>2, <1>3
  <2> QED
    BY <2>1, <2>2
<1>9. {k \in ToSet(whole) : next <= Rank(k, listed)} = B
  <2>1. \A k \in P : ~ (next <= Rank(k, listed))
    BY <1>1, <1>2, <1>3
  <2> QED
    BY <1>5, <2>1
<1>10. Len(load.got) + Cardinality(P) + Cardinality(B) <= Cardinality(G \cup P) + grown
  <2> HIDE DEF G, P, A, B
  <2> QED
    BY <1>1, <1>6, <1>7, <1>8, PageCounted
<1>11. \A k \in kept : Rank(k, listed) < next => k \in ToSet(whole)
  <2> SUFFICES ASSUME NEW k \in kept, Rank(k, listed) < next PROVE k \in G \cup P
    BY <1>5
  <2>1. CASE Rank(k, listed) < load.start
    BY <2>1 DEF CodesInLoop
  <2>2. CASE ~ (Rank(k, listed) < load.start)
    BY <1>1, <1>2, <1>3, <1>4, <2>2
  <2> QED
    BY <2>1, <2>2
<1>12. ToSet(whole) \subseteq listed
  BY <1>2, <1>4, <1>5
<1>13. Len(whole) + Cardinality(B) <= Cardinality(ToSet(whole)) + grown
  BY <1>2, <1>5, <1>10
<1> QED
  BY <1>5, <1>9, <1>11, <1>12, <1>13 DEF page

LEMMA NextStartIs ==
  ASSUME NEW start \in Nat, start + Size <= MaxListed
  PROVE  NextStart(start) = start + Size
<1>1. start + Size \in Nat /\ Width \in Nat \ {0} /\ start + Size < Width
  BY PagedConstants
<1>2. \A w \in Nat \ {0}, x \in Nat : x < w => x % w = x
  OBVIOUS
<1> QED
  BY <1>1, <1>2 DEF NextStart

LEMMA Finished ==
  ASSUME PagedTypeOK, UNCHANGED <<kind, listed, version, grown, shrunk, kept>>,
         NEW got \in Seq(Elements), Finish(got)
  PROVE  /\ PagedTypeOK'
         /\ load'.pc = "ok" /\ load'.got = got /\ load'.from = load.from
<1>1. load' = [pc |-> "ok", start |-> load.start, from |-> load.from, got |-> got,
               size |-> load.size]
  BY LoadType DEF Finish
<1>2. /\ load'.pc = "ok" /\ load'.start = load.start /\ load'.from = load.from
      /\ load'.got = got /\ load'.size = load.size
  BY <1>1
<1> QED
  BY <1>1, <1>2, LoadType, SameTypes

LEMMA Continued ==
  ASSUME PagedTypeOK, UNCHANGED <<kind, listed, version, grown, shrunk, kept>>,
         load.pc = "page", load.start + Size <= MaxListed,
         NEW got \in Seq(Elements), Continue(got)
  PROVE  /\ PagedTypeOK'
         /\ load'.pc = "page" /\ load'.got = got /\ load'.from = load.from
         /\ load'.start = load.start + Size
<1>1. load.start \in Nat /\ load.start + Size \in Nat
  BY LoadType, PagedConstants
<1>2. NextStart(load.start) = load.start + Size
  BY <1>1, NextStartIs
<1>3. load' = [pc |-> "page", start |-> load.start + Size, from |-> load.from, got |-> got,
               size |-> load.size]
  BY <1>2, LoadType DEF Continue
<1>4. /\ load'.pc = "page" /\ load'.start = load.start + Size /\ load'.from = load.from
      /\ load'.got = got /\ load'.size = load.size
  BY <1>3
<1> QED
  BY <1>1, <1>3, <1>4, LoadType, SameTypes

LEMMA CodesPageInv ==
  ASSUME PagedInv, load.pc = "page", CodesPage,
         UNCHANGED <<kind, listed, version, grown, shrunk, kept>>
  PROVE  PagedInv'
<1> DEFINE page == PageFromFirst(load.start)
           whole == load.got \o page
           next == load.start + Size
<1>1. PagedTypeOK /\ kind \in CodeKinds /\ CodesInLoop
  BY DEF PagedInv, CodesPage
<1>2. /\ load.start \in Nat /\ load.got \in Seq(Nat) /\ load.size \in Nat /\ Elements = Nat
      /\ Size \in Nat \ {0} /\ grown \in Nat /\ MaxListed \in Nat
  BY <1>1, LoadType, PagedConstants DEF PagedTypeOK, Elements, CodeKinds, FileKinds
<1>3. /\ page \in Seq(Nat)
      /\ Len(page) < Size => \A k \in listed : Rank(k, listed) < next
      /\ ~ (Len(page) < Size) => next <= Count
  BY <1>1, <1>2, FirstPage
<1>4. whole \in Seq(Nat)
  BY <1>2, <1>3, ConcatProperties
<1>5. IF Len(page) < Size THEN Finish(whole) ELSE Continue(whole)
  BY DEF CodesPage
<1>6. kind \notin NewestKinds /\ kind # "block"
  BY <1>1 DEF CodeKinds, NewestKinds
<1>7. ~shrunk => /\ ToSet(whole) \subseteq listed
                 /\ \A k \in kept : Rank(k, listed) < next => k \in ToSet(whole)
                 /\ Len(whole) + Cardinality({k \in ToSet(whole) : next <= Rank(k, listed)})
                       <= Cardinality(ToSet(whole)) + grown
  BY <1>1, CodesJoin
<1> HIDE DEF page, whole
<1>8. CASE Len(page) < Size
  <2>2. PagedTypeOK' /\ load'.pc = "ok" /\ load'.got = whole
    BY <1>1, <1>2, <1>4, <1>5, <1>8, Finished
  <2>3. ASSUME ~shrunk PROVE kept \subseteq ToSet(whole) /\ Doubled(whole) <= grown
    <3>1. kept \subseteq ToSet(whole)
      BY <1>1, <1>3, <1>7, <1>8, <2>3 DEF PagedTypeOK
    <3>2. {k \in ToSet(whole) : next <= Rank(k, listed)} = {}
      <4>1. \A k \in listed : Rank(k, listed) \in Nat
        BY <1>1, ListedFinite, RankType
      <4>2. \A k \in listed : ~ (next <= Rank(k, listed))
        BY <1>2, <1>3, <1>8, <4>1
      <4> QED
        BY <1>7, <2>3, <4>2
    <3>3. Cardinality(ToSet(whole)) \in Nat /\ Len(whole) \in Nat
      BY <1>4, ToSetFacts
    <3>4. Len(whole) + 0 <= Cardinality(ToSet(whole)) + grown
      BY <1>7, <2>3, <3>2, FS_EmptySet
    <3> QED
      BY <1>2, <3>1, <3>3, <3>4 DEF Doubled
  <2>4. DownloadComplete'
    BY <1>1, <2>2, <2>3 DEF DownloadComplete, CodeKinds
  <2> QED
    BY <2>2, <2>4 DEF PagedInv
<1>9. CASE ~ (Len(page) < Size)
  <2>1. next <= Count /\ next <= MaxListed /\ next \in Nat
    BY <1>1, <1>2, <1>3, <1>9, ListedFinite
  <2>4. PagedTypeOK' /\ load'.pc = "page" /\ load'.got = whole /\ load'.start = next
    BY <1>1, <1>2, <1>4, <1>5, <1>9, <2>1, Continued
  <2>5. CodesInLoop'
    <3>1. Ahead' = {k \in ToSet(whole) : next <= Rank(k, listed)}
      BY <1>1, <2>4 DEF Ahead, AheadOf
    <3> QED
      BY <1>7, <2>1, <2>4, <3>1 DEF CodesInLoop, Counted
  <2>6. DownloadComplete'
    BY <2>4 DEF DownloadComplete
  <2> QED
    BY <1>6, <2>4, <2>5, <2>6 DEF PagedInv
<1> QED
  BY <1>8, <1>9

(***************************************************************************)
(* One request for bars or trades.                                         *)
(***************************************************************************)
LEMMA NewestTypes ==
  ASSUME PagedTypeOK, kind \in NewestKinds
  PROVE  /\ load.start \in Nat /\ load.from \in Nat /\ load.got \in Seq(Nat) /\ Elements = Nat
         /\ Size \in Nat \ {0} /\ grown \in Nat /\ Count \in Nat /\ Count <= MaxListed
         /\ kind \notin CodeKinds /\ kind # "block" /\ kind \notin FileKinds
<1>1. kind \notin CodeKinds /\ kind # "block" /\ kind \notin FileKinds
  BY DEF NewestKinds, CodeKinds, FileKinds
<1> QED
  BY <1>1, LoadType, ListedFinite, PagedConstants DEF PagedTypeOK, Elements

\* What a page adds is there once more at most if it was ahead of the page.
LEMMA NewestJoin ==
  ASSUME PagedTypeOK, kind \in NewestKinds, kind # "daily", NewestInLoop,
         NEW more \in Seq(Nat), Cardinality(ToSet(more)) = Len(more),
         ToSet(more) \subseteq Before(load.start) + 1 .. Count - load.start,
         NEW whole \in Seq(Nat), Len(whole) = Len(load.got) + Len(more),
         ToSet(whole) = ToSet(load.got) \cup ToSet(more)
  PROVE  /\ Len(whole) + Cardinality({k \in ToSet(whole) : k <= Before(load.start)})
              <= Cardinality(ToSet(whole)) + grown
         /\ Doubled(whole) <= grown
<1> DEFINE G == ToSet(load.got)
           P == ToSet(more)
           A == {k \in G : k <= Count - load.start}
           low == Before(load.start)
           B == {k \in G : k <= low}
<1>1. /\ load.start \in Nat /\ load.got \in Seq(Nat) /\ grown \in Nat /\ Count \in Nat
      /\ load.start <= Count
  BY NewestTypes DEF NewestInLoop
<1>2. low \in Nat /\ low <= Count - load.start
  BY NewestPage, <1>1 DEF NewestInLoop
<1>3. G \subseteq Nat /\ P \subseteq Nat /\ \A k \in P : low < k /\ k <= Count - load.start
  <2>1. G \subseteq Nat
    BY <1>1, ToSetFacts
  <2>2. P \subseteq Nat
    BY ToSetFacts
  <2> QED
    BY <1>1, <1>2, <2>1, <2>2
<1>4. IsFiniteSet(G)
  BY <1>1, ToSetFacts
<1>5. IsFiniteSet(P) /\ Len(load.got) \in Nat /\ Len(more) \in Nat
  BY <1>1, ToSetFacts
<1>6. Len(load.got) + Cardinality(A) <= Cardinality(G) + grown
  <2>1. kind \notin CodeKinds
    BY DEF NewestKinds, CodeKinds
  <2> QED
    BY <2>1 DEF NewestInLoop, Counted, Ahead, AheadOf
<1>7. A \subseteq G /\ B \subseteq A /\ G \cap P \subseteq A \ B
  <2>1. \A k \in G : k <= low => k <= Count - load.start
    BY <1>1, <1>2, <1>3
  <2>2. \A k \in P : k <= Count - load.start /\ ~ (k <= low)
    BY <1>1, <1>2, <1>3
  <2> QED
    BY <2>1, <2>2
<1>8. {k \in ToSet(whole) : k <= low} = B
  <2>1. \A k \in P : ~ (k <= low)
    BY <1>2, <1>3
  <2> QED
    BY <2>1
<1>9. Len(load.got) + Cardinality(P) + Cardinality(B) <= Cardinality(G \cup P) + grown
  <2> HIDE DEF G, P, A, B
  <2> QED
    BY <1>1, <1>4, <1>5, <1>6, <1>7, PageCounted
<1>10. Len(whole) + Cardinality(B) <= Cardinality(ToSet(whole)) + grown
  BY <1>9
<1>11. Cardinality(B) \in Nat /\ Cardinality(ToSet(whole)) \in Nat /\ Len(whole) \in Nat
  <2>1. IsFiniteSet(B)
    <3> HIDE DEF G, A, B
    <3> QED
      BY <1>4, <1>7, FS_Subset
  <2>2. Cardinality(ToSet(whole)) \in Nat
    BY ToSetFacts
  <2> QED
    BY <2>1, <2>2, FS_CardinalityType
<1>12. Doubled(whole) <= grown
  <2> HIDE DEF B
  <2> QED
    BY <1>1, <1>10, <1>11 DEF Doubled
<1> QED
  BY <1>8, <1>10, <1>12

\* Ascending stretches, the second of which does not begin below the end of
\* the first.
LEMMA OrderedJoin ==
  ASSUME NEW s \in Seq(Nat), NEW u \in Seq(Nat), NEW v \in Int, grown \in Nat,
         Ordered(s), Ordered(u),
         grown <= 1 => /\ \A i \in 1 .. Len(s) : s[i] <= v
                       /\ \A i \in 1 .. Len(u) : v <= u[i]
  PROVE  Ordered(s \o u)
<1>1. CASE grown > 1
  BY <1>1 DEF Ordered
<1>2. CASE ~ (grown > 1)
  <2>1. /\ \A i \in 1 .. Len(s) - 1 : s[i] <= s[i + 1]
        /\ \A i \in 1 .. Len(u) - 1 : u[i] <= u[i + 1]
        /\ \A i \in 1 .. Len(s) : s[i] <= v
        /\ \A i \in 1 .. Len(u) : v <= u[i]
    BY <1>2 DEF Ordered
  <2>2. /\ Len(s \o u) = Len(s) + Len(u)
        /\ \A i \in 1 .. Len(s) : (s \o u)[i] = s[i]
        /\ \A i \in 1 .. Len(u) : (s \o u)[Len(s) + i] = u[i]
    BY ToSetJoin
  <2>3. Len(s) \in Nat /\ Len(u) \in Nat /\ (\A i \in 1 .. Len(s) : s[i] \in Nat)
        /\ (\A i \in 1 .. Len(u) : u[i] \in Nat)
    OBVIOUS
  <2>4. ASSUME NEW i \in 1 .. Len(s) + Len(u) - 1 PROVE (s \o u)[i] <= (s \o u)[i + 1]
    <3>1. CASE i < Len(s)
      <4>1. i \in 1 .. Len(s) - 1 /\ i \in 1 .. Len(s) /\ i + 1 \in 1 .. Len(s)
        BY <2>3, <3>1
      <4> QED
        BY <2>1, <2>2, <4>1
    <3>2. CASE i = Len(s)
      <4>1. i \in 1 .. Len(s) /\ 1 \in 1 .. Len(u)
        BY <2>3, <3>2
      <4>2. (s \o u)[i] = s[i] /\ (s \o u)[i + 1] = u[1]
        BY <2>2, <3>2, <4>1
      <4>3. s[i] <= v /\ v <= u[1] /\ s[i] \in Int /\ u[1] \in Int
        BY <2>1, <2>3, <4>1
      <4> QED
        BY <4>2, <4>3
    <3>3. CASE i > Len(s)
      <4>1. i - Len(s) \in 1 .. Len(u) - 1 /\ i - Len(s) \in 1 .. Len(u)
            /\ i - Len(s) + 1 \in 1 .. Len(u)
            /\ Len(s) + (i - Len(s)) = i /\ Len(s) + (i - Len(s) + 1) = i + 1
        BY <2>3, <3>3
      <4>2. (s \o u)[i] = u[i - Len(s)] /\ (s \o u)[i + 1] = u[i - Len(s) + 1]
        BY <2>2, <4>1
      <4> QED
        BY <2>1, <4>1, <4>2
    <3> QED
      BY <2>3, <3>1, <3>2, <3>3
  <2> QED
    BY <2>2, <2>4 DEF Ordered
<1> QED
  BY <1>1, <1>2

\* Newest first: the list read backwards.
LEMMA ReverseJoin ==
  ASSUME NEW s \in Seq(Nat), NEW u \in Seq(Nat)
  PROVE  Reverse(s \o Reverse(u)) = u \o Reverse(s)
<1> DEFINE r == Reverse(u)
           l == s \o r
           a == Reverse(l)
           b == u \o Reverse(s)
<1>1. r \in Seq(Nat) /\ Len(r) = Len(u) /\ \A i \in 1 .. Len(u) : r[i] = u[Len(u) - i + 1]
  BY ReverseFacts
<1>2. /\ Reverse(s) \in Seq(Nat) /\ Len(Reverse(s)) = Len(s)
      /\ \A i \in 1 .. Len(s) : Reverse(s)[i] = s[Len(s) - i + 1]
  BY ReverseFacts
<1> HIDE DEF r
<1>3. /\ l \in Seq(Nat) /\ Len(l) = Len(s) + Len(u)
      /\ \A i \in 1 .. Len(s) : l[i] = s[i]
      /\ \A i \in 1 .. Len(u) : l[Len(s) + i] = r[i]
  <2>1. /\ l \in Seq(Nat) /\ Len(l) = Len(s) + Len(r)
        /\ \A i \in 1 .. Len(s) : l[i] = s[i]
        /\ \A i \in 1 .. Len(r) : l[Len(s) + i] = r[i]
    <3>1. r \in Seq(Nat)
      BY <1>1
    <3> QED
      BY <3>1, ToSetJoin
  <2> HIDE DEF l
  <2> QED
    BY <1>1, <2>1
<1> HIDE DEF l
<1>4. a \in Seq(Nat) /\ Len(a) = Len(l) /\ \A i \in 1 .. Len(l) : a[i] = l[Len(l) - i + 1]
  BY <1>3, ReverseFacts
<1>5. /\ b \in Seq(Nat) /\ Len(b) = Len(u) + Len(s)
      /\ \A i \in 1 .. Len(u) : b[i] = u[i]
      /\ \A i \in 1 .. Len(s) : b[Len(u) + i] = Reverse(s)[i]
  <2>1. /\ b \in Seq(Nat) /\ Len(b) = Len(u) + Len(Reverse(s))
        /\ \A i \in 1 .. Len(u) : b[i] = u[i]
        /\ \A i \in 1 .. Len(Reverse(s)) : b[Len(u) + i] = Reverse(s)[i]
    <3>1. Reverse(s) \in Seq(Nat)
      BY <1>2
    <3> QED
      BY <3>1, ToSetJoin
  <2> HIDE DEF b
  <2> QED
    BY <1>2, <2>1
<1> HIDE DEF a, b
<1>6. Len(s) \in Nat /\ Len(u) \in Nat
  OBVIOUS
<1>7. ASSUME NEW i \in 1 .. Len(s) + Len(u) PROVE a[i] = b[i]
  <2>1. CASE i <= Len(u)
    <3>1. /\ Len(u) - i + 1 \in 1 .. Len(u) /\ i \in 1 .. Len(u)
          /\ Len(l) - i + 1 = Len(s) + (Len(u) - i + 1) /\ i \in 1 .. Len(l)
          /\ Len(u) - (Len(u) - i + 1) + 1 = i
      <4>1. PICK n \in Nat, m \in Nat : n = Len(s) /\ m = Len(u)
        BY <1>6
      <4>2. i \in 1 .. n + m /\ i <= m /\ Len(l) = n + m
        BY <1>3, <2>1, <4>1
      <4>3. /\ m - i + 1 \in 1 .. m /\ i \in 1 .. m
            /\ (n + m) - i + 1 = n + (m - i + 1) /\ i \in 1 .. n + m
            /\ m - (m - i + 1) + 1 = i
        BY <4>2
      <4> QED
        BY <4>1, <4>2, <4>3
    <3>2. a[i] = r[Len(u) - i + 1]
      BY <1>3, <1>4, <3>1
    <3>3. r[Len(u) - i + 1] = u[Len(u) - (Len(u) - i + 1) + 1]
      BY <1>1, <3>1
    <3> QED
      BY <1>5, <3>1, <3>2, <3>3
  <2>2. CASE i > Len(u)
    <3> DEFINE j == i - Len(u)
    <3>1. /\ j \in 1 .. Len(s) /\ i = Len(u) + j /\ i \in 1 .. Len(l)
          /\ Len(l) - i + 1 = Len(s) - j + 1 /\ Len(s) - j + 1 \in 1 .. Len(s)
      BY <1>3, <1>6, <2>2
    <3>2. a[i] = s[Len(s) - j + 1]
      BY <1>3, <1>4, <3>1
    <3>3. b[i] = s[Len(s) - j + 1]
      BY <1>2, <1>5, <3>1
    <3> QED
      BY <3>2, <3>3
  <2> QED
    BY <1>6, <2>1, <2>2
<1>8. a = b
  <2>1. a \in Seq(Nat) /\ b \in Seq(Nat) /\ Len(a) = Len(b) /\ Len(a) = Len(s) + Len(u)
    BY <1>3, <1>4, <1>5, <1>6
  <2>2. \A i \in 1 .. Len(a) : a[i] = b[i]
    BY <1>7, <2>1
  <2> QED
    BY <2>1, <2>2, SeqEqual
<1> QED
  BY <1>8 DEF a, b, l, r

LEMMA NewestGoesOn ==
  ASSUME PagedTypeOK, kind \in NewestKinds, NewestInLoop,
         UNCHANGED <<kind, listed, version, grown, shrunk, kept>>,
         load'.start = load.start + Size, load'.from = load.from,
         load.start + Size <= Count, Before(load.start) = Count - (load.start + Size),
         NEW more \in Seq(Nat),
         ToSet(more) \subseteq Before(load.start) + 1 .. Count - load.start,
         load'.got \in Seq(Nat), ToSet(load'.got) = ToSet(load.got) \cup ToSet(more),
         \A k \in Before(load.start) + 1 .. Count - load.start : Due(k) => k \in ToSet(load'.got),
         kind # "daily" => /\ Cardinality(ToSet(more)) = Len(more)
                           /\ Len(load'.got) = Len(load.got) + Len(more),
         kind \in {"trades", "bars"} => Ordered(load'.got),
         kind = "exBars" => Ordered(Reverse(load'.got))
  PROVE  NewestInLoop'
<1> DEFINE low == Before(load.start)
           next == load.start + Size
           whole == load'.got
<1>1. /\ load.start \in Nat /\ load.got \in Seq(Nat) /\ grown \in Nat /\ Count \in Nat
      /\ load.start <= Count /\ Size \in Nat \ {0} /\ kind \notin CodeKinds
  BY NewestTypes DEF NewestInLoop
<1>2. low \in Nat /\ low = Count - next /\ low < Count - load.start
  BY <1>1
<1>3. Count' = Count
  BY DEF Count
<1>4. kept \subseteq 1 .. Count /\ ToSet(load.got) \subseteq 1 .. Count
  BY DEF NewestInLoop, PagedTypeOK
<1>5. ToSet(whole) \subseteq 1 .. Count
  BY <1>1, <1>2, <1>4
<1>6. ASSUME NEW k \in ToSet(whole) PROVE Count - next - grown < k
  <2>1. CASE k \in ToSet(load.got)
    <3>1. Count - load.start - grown < k /\ k \in Nat
      BY <1>4, <2>1 DEF NewestInLoop
    <3> QED
      BY <1>1, <1>2, <3>1
  <2>2. CASE k \in ToSet(more)
    <3>1. k \in Int /\ low + 1 <= k
      BY <1>2, <2>2
    <3> QED
      BY <1>1, <1>2, <3>1
  <2> QED
    BY <2>1, <2>2
<1>7. ASSUME NEW k \in kept, Count - next < k, Due(k) PROVE k \in ToSet(whole)
  <2>1. k \in 1 .. Count
    BY <1>4
  <2>2. CASE Count - load.start < k
    BY <1>7, <2>2 DEF NewestInLoop
  <2>3. CASE ~ (Count - load.start < k)
    <3>1. k \in low + 1 .. Count - load.start
      BY <1>1, <1>2, <1>7, <2>1, <2>3
    <3> QED
      BY <1>7, <3>1
  <2> QED
    BY <2>2, <2>3
<1>8. kind # "daily" => Len(whole) + Cardinality({k \in ToSet(whole) : k <= low})
                           <= Cardinality(ToSet(whole)) + grown
  BY NewestJoin
<1>9. Ahead' = {k \in ToSet(whole) : k <= low}
  BY <1>1, <1>2, <1>3 DEF Ahead, AheadOf
<1>10. kind # "daily" => Counted'
  BY <1>8, <1>9 DEF Counted
<1>11. \A k : Due(k)' <=> Due(k)
  BY DEF Due
<1>12. (kind \in {"trades", "bars"} => Ordered(load.got)') /\ (kind = "exBars" => Ordered(Reverse(load.got))')
  BY DEF Ordered
<1>13. listed' = 1 .. Count' /\ grown' <= Count' /\ kept' = 1 .. Count' - grown'
       /\ load'.start <= Count'
  BY <1>3 DEF NewestInLoop
<1> HIDE DEF low, next, whole
<1> QED
  BY <1>3, <1>5, <1>6, <1>7, <1>10, <1>11, <1>12, <1>13
  DEF NewestInLoop, whole, next

\* What a finished loop has to have: what it had before, or what its last
\* page has.
LEMMA NewestIsWhole ==
  ASSUME PagedTypeOK, kind \in NewestKinds, NewestInLoop,
         NEW whole, ToSet(load.got) \subseteq ToSet(whole), NEW D \in SUBSET kept,
         \A k \in D : Due(k) /\ Before(load.start) < k
                      /\ (k \in Before(load.start) + 1 .. Count - load.start => k \in ToSet(whole))
  PROVE  D \subseteq ToSet(whole)
<1> SUFFICES ASSUME NEW k \in D PROVE k \in ToSet(whole)
  OBVIOUS
<1>1. load.start \in Nat /\ Count \in Nat /\ load.start <= Count
  BY NewestTypes DEF NewestInLoop
<1>2. k \in 1 .. Count /\ k \in kept
  BY DEF PagedTypeOK, NewestInLoop
<1>3. Before(load.start) \in Nat
  BY <1>1, NewestPage DEF NewestInLoop
<1>4. CASE Count - load.start < k
  BY <1>2, <1>4 DEF NewestInLoop
<1>5. CASE ~ (Count - load.start < k)
  BY <1>1, <1>2, <1>3, <1>5
<1> QED
  BY <1>4, <1>5

\* An old page goes in front of the newer ones.
LEMMA InFront ==
  ASSUME PagedTypeOK, kind \in NewestKinds, NewestInLoop,
         NEW more \in Seq(Nat), Ordered(more),
         ToSet(more) \subseteq Before(load.start) + 1 .. Count - load.start,
         NEW rest \in Seq(Nat), Ordered(rest), ToSet(rest) = ToSet(load.got)
  PROVE  Ordered(more \o rest)
<1>2. /\ load.start \in Nat /\ load.got \in Seq(Nat) /\ grown \in Nat /\ Count \in Nat
      /\ load.start <= Count
  BY NewestTypes DEF NewestInLoop
<1>3. Before(load.start) \in Nat
  BY <1>2, NewestPage DEF NewestInLoop
<1>4. \A i \in 1 .. Len(more) : more[i] <= Count - load.start
  <2> SUFFICES ASSUME NEW i \in 1 .. Len(more) PROVE more[i] <= Count - load.start
    OBVIOUS
  <2>1. more[i] \in ToSet(more)
    BY DEF ToSet
  <2>2. more[i] \in Before(load.start) + 1 .. Count - load.start
    BY <2>1
  <2> QED
    BY <1>2, <1>3, <2>2
<1>5. ASSUME grown <= 1, NEW i \in 1 .. Len(rest) PROVE Count - load.start <= rest[i]
  <2>1. rest[i] \in ToSet(rest) /\ rest[i] \in Nat
    BY DEF ToSet
  <2>2. Count - load.start - grown < rest[i]
    BY <2>1 DEF NewestInLoop
  <2> QED
    BY <1>2, <1>5, <2>1, <2>2
<1>7. Count - load.start \in Int
  BY <1>2
<1> QED
  BY <1>2, <1>4, <1>5, <1>7, OrderedJoin

LEMMA StretchOrdered ==
  ASSUME NEW s \in Seq(Nat), NEW n \in Nat, \A i \in 1 .. Len(s) : s[i] = n + i
  PROVE  Ordered(s)
<1>1. \A i \in 1 .. Len(s) - 1 : s[i] = n + i /\ s[i + 1] = n + (i + 1)
  OBVIOUS
<1> QED
  BY <1>1 DEF Ordered

LEMMA TradesPageInv ==
  ASSUME PagedInv, load.pc = "page", TradesPage,
         UNCHANGED <<kind, listed, version, grown, shrunk, kept>>
  PROVE  PagedInv'
<1> DEFINE page == PageFromNewest(load.start)
           low == Before(load.start)
           high == Count - load.start
           whole == page \o load.got
<1>1. PagedTypeOK /\ kind = "trades" /\ kind \in NewestKinds /\ NewestInLoop
  BY DEF PagedInv, TradesPage, NewestKinds
<1>2. /\ load.start \in Nat /\ load.got \in Seq(Nat) /\ Elements = Nat /\ grown \in Nat
      /\ Count \in Nat /\ Count <= MaxListed /\ load.start <= Count
      /\ Size \in Nat \ {0} /\ MaxListed \in Nat
      /\ kind \notin CodeKinds /\ kind # "block"
  BY <1>1, NewestTypes, PagedConstants DEF NewestInLoop
<1>3. /\ low \in Nat /\ low <= high
      /\ page \in Seq(Nat) /\ Len(page) = high - low
      /\ \A i \in 1 .. Len(page) : page[i] = low + i
      /\ ToSet(page) = low + 1 .. high
      /\ Cardinality(ToSet(page)) = Len(page)
      /\ Len(page) < Size => low = 0
      /\ ~ (Len(page) < Size) => load.start + Size <= Count /\ low = Count - (load.start + Size)
  BY <1>1, <1>2, NewestPage DEF NewestInLoop
<1>4. IF Len(page) < Size THEN Finish(whole) ELSE Continue(whole)
  BY DEF TradesPage
<1> HIDE DEF page
<1>5. /\ whole \in Seq(Nat) /\ Len(whole) = Len(load.got) + Len(page)
      /\ ToSet(whole) = ToSet(load.got) \cup ToSet(page)
  <2>1. page \in Seq(Nat)
    BY <1>3
  <2>2. /\ whole \in Seq(Nat) /\ Len(whole) = Len(page) + Len(load.got)
        /\ ToSet(whole) = ToSet(page) \cup ToSet(load.got)
    BY <1>2, <2>1, ToSetJoin
  <2>3. Len(page) \in Nat /\ Len(load.got) \in Nat
    BY <1>2, <2>1
  <2> HIDE DEF whole
  <2> QED
    BY <2>2, <2>3
<1>6. Ordered(whole)
  <2>1. Ordered(page)
    BY <1>3, StretchOrdered
  <2> QED
    BY <1>1, <1>2, <1>3, <2>1, InFront DEF NewestInLoop
<1> HIDE DEF whole
<1>7. Doubled(whole) <= grown
  BY <1>1, <1>3, <1>5, NewestJoin
<1>8. CASE Len(page) < Size
  <2>1. PagedTypeOK' /\ load'.pc = "ok" /\ load'.got = whole
    BY <1>1, <1>2, <1>4, <1>5, <1>8, Finished
  <2>2. kept \subseteq ToSet(whole)
    <3>1. \A k \in kept : k \in 1 .. Count
      BY <1>1 DEF PagedTypeOK, NewestInLoop
    <3>2. \A k \in kept : Due(k) /\ low < k /\ (k \in low + 1 .. high => k \in ToSet(whole))
      BY <1>1, <1>3, <1>5, <1>8, <3>1 DEF Due
    <3>3. ToSet(load.got) \subseteq ToSet(whole)
      BY <1>5
    <3> QED
      BY <1>1, <3>2, <3>3, NewestIsWhole
  <2>3. DownloadComplete'
    <3>1. Ordered(load.got)'
      BY <1>6, <2>1 DEF Ordered
    <3> QED
      BY <1>1, <1>7, <2>1, <2>2, <3>1 DEF DownloadComplete, CodeKinds
  <2> QED
    BY <2>1, <2>3 DEF PagedInv
<1>9. CASE ~ (Len(page) < Size)
  <2>1. load.start + Size <= MaxListed
    BY <1>2, <1>3, <1>9
  <2>2. /\ PagedTypeOK' /\ load'.pc = "page" /\ load'.got = whole /\ load'.from = load.from
        /\ load'.start = load.start + Size
    BY <1>1, <1>2, <1>4, <1>5, <1>9, <2>1, Continued
  <2>3. NewestInLoop'
    BY <1>1, <1>3, <1>5, <1>6, <1>9, <2>2, NewestGoesOn
  <2>4. DownloadComplete'
    BY <2>2 DEF DownloadComplete
  <2> QED
    BY <1>2, <2>2, <2>3, <2>4 DEF PagedInv
<1> QED
  BY <1>8, <1>9

LEMMA MaxOfPlaces ==
  ASSUME NEW n \in Nat, NEW S \in SUBSET (1 .. n), S # {}
  PROVE  Max(S) \in S /\ \A k \in S : k <= Max(S)
<1> DEFINE T == {n - k : k \in S}
           R == OpToRel(<, Nat)
<1>1. T \subseteq Nat /\ T # {}
  <2>1. \A k \in S : n - k \in Nat
    OBVIOUS
  <2> QED
    BY <2>1
<1>2. IsWellFoundedOn(R, Nat)
  BY NatLessThanWellFounded
<1>3. PICK t \in T : \A u \in T : ~ (<<u, t>> \in R)
  <2> HIDE DEF T, R
  <2> QED
    BY <1>1, <1>2, WFMin
<1>4. \A u \in T : t <= u
  <2>0. T \subseteq Int
    BY <1>1
  <2> HIDE DEF T
  <2> SUFFICES ASSUME NEW u \in T, u < t PROVE FALSE
    BY <2>0
  <2>1. <<u, t>> \in R
    BY <1>1 DEF OpToRel
  <2> QED
    BY <1>3, <2>1
<1>5. PICK m \in S : t = n - m
  OBVIOUS
<1>6. \A k \in S : k <= m
  <2> SUFFICES ASSUME NEW k \in S PROVE k <= m
    OBVIOUS
  <2>1. t <= n - k
    BY <1>4
  <2> QED
    BY <1>5, <2>1
<1>7. \E x \in S : \A y \in S : x >= y
  BY <1>6
<1>8. Max(S) \in S /\ \A k \in S : Max(S) >= k
  BY <1>7 DEF Max
<1> QED
  BY <1>8

\* The end of a page from one of its elements on.
LEMMA PageEnd ==
  ASSUME NEW page \in Seq(Nat), NEW low \in Nat, NEW m \in 1 .. Len(page),
         \A i \in 1 .. Len(page) : page[i] = low + i
  PROVE  LET more == SubSeq(page, m, Len(page))
         IN /\ more \in Seq(Nat)
            /\ ToSet(more) = low + m .. low + Len(page)
            /\ Cardinality(ToSet(more)) = Len(more)
            /\ Ordered(more)
<1> DEFINE more == SubSeq(page, m, Len(page))
           n == Len(page)
<1>1. n \in Nat /\ m \in Int /\ n \in Int /\ \A i \in m .. n : page[i] \in Nat
  OBVIOUS
<1>2. /\ more \in Seq(Nat)
      /\ Len(more) = IF m <= n THEN n - m + 1 ELSE 0
      /\ \A i \in 1 .. n - m + 1 : more[i] = page[m + i - 1]
  BY <1>1, SubSeqProperties
<1> HIDE DEF more
<1>3. Len(more) = n - m + 1
  BY <1>1, <1>2
<1>4. \A i \in 1 .. Len(more) : more[i] = (low + m - 1) + i
  <2> SUFFICES ASSUME NEW i \in 1 .. Len(more) PROVE more[i] = (low + m - 1) + i
    OBVIOUS
  <2>1. m + i - 1 \in 1 .. n /\ i \in 1 .. n - m + 1
    BY <1>1, <1>3
  <2>2. more[i] = low + (m + i - 1)
    BY <1>2, <2>1
  <2> QED
    BY <1>1, <2>2
<1>5. low + m - 1 \in Nat
  OBVIOUS
<1>6. Ordered(more)
  BY <1>2, <1>4, <1>5, StretchOrdered
<1>7. Cardinality(ToSet(more)) = Len(more)
  <2>1. \A i, j \in 1 .. Len(more) : more[i] = more[j] => i = j
    BY <1>2, <1>4, <1>5
  <2> QED
    BY <1>2, <2>1, DistinctFacts
<1>8. ToSet(more) = low + m .. low + n
  <2>1. ASSUME NEW k \in ToSet(more) PROVE k \in low + m .. low + n
    <3>1. PICK i \in 1 .. Len(more) : k = more[i]
      BY <1>2 DEF ToSet
    <3> QED
      BY <1>1, <1>3, <1>4, <1>5, <3>1
  <2>2. ASSUME NEW k \in low + m .. low + n PROVE k \in ToSet(more)
    <3>1. k - (low + m - 1) \in 1 .. Len(more) /\ (low + m - 1) + (k - (low + m - 1)) = k
      BY <1>1, <1>3
    <3>2. more[k - (low + m - 1)] = k
      BY <1>4, <3>1
    <3>3. k - (low + m - 1) \in DOMAIN more
      BY <1>2, <3>1
    <3>4. \E i \in DOMAIN more : more[i] = k
      BY <3>2, <3>3
    <3> QED
      BY <3>4 DEF ToSet
  <2> QED
    BY <2>1, <2>2
<1> QED
  BY <1>2, <1>6, <1>7, <1>8 DEF more

LEMMA BarsPageInv ==
  ASSUME PagedInv, load.pc = "page", BarsPage,
         UNCHANGED <<kind, listed, version, grown, shrunk, kept>>
  PROVE  PagedInv'
<1> DEFINE page == PageFromNewest(load.start)
           low == Before(load.start)
           high == Count - load.start
           stop == {i \in 1 .. Len(page) : page[i] <= load.from}
           more == IF stop # {} THEN SubSeq(page, Max(stop), Len(page)) ELSE page
           whole == more \o load.got
           due == {k \in kept : k >= load.from}
<1>1. PagedTypeOK /\ kind = "bars" /\ kind \in NewestKinds /\ NewestInLoop
  BY DEF PagedInv, BarsPage, NewestKinds
<1>2. /\ load.start \in Nat /\ load.got \in Seq(Nat) /\ Elements = Nat /\ grown \in Nat
      /\ Count \in Nat /\ Count <= MaxListed /\ load.start <= Count /\ load.from \in Nat
      /\ Size \in Nat \ {0} /\ MaxListed \in Nat
      /\ kind \notin CodeKinds /\ kind # "block"
  BY <1>1, NewestTypes, PagedConstants DEF NewestInLoop
<1>3. /\ low \in Nat /\ low <= high
      /\ page \in Seq(Nat) /\ Len(page) = high - low
      /\ \A i \in 1 .. Len(page) : page[i] = low + i
      /\ ToSet(page) = low + 1 .. high
      /\ Cardinality(ToSet(page)) = Len(page)
      /\ Len(page) < Size => low = 0
      /\ ~ (Len(page) < Size) => load.start + Size <= Count /\ low = Count - (load.start + Size)
  BY <1>1, <1>2, NewestPage DEF NewestInLoop
<1>4. IF stop # {} \/ Len(page) < Size THEN Finish(whole) ELSE Continue(whole)
  BY DEF BarsPage
<1>5. stop # {} => Max(stop) \in 1 .. Len(page) /\ page[Max(stop)] <= load.from
  <2>1. Len(page) \in Nat
    BY <1>3
  <2>2. stop \in SUBSET (1 .. Len(page)) /\ \A m \in stop : page[m] <= load.from
    OBVIOUS
  <2> HIDE DEF stop, page
  <2> QED
    BY <2>1, <2>2, MaxOfPlaces
<1> HIDE DEF stop, page
<1>6. stop # {} => /\ more \in Seq(Nat) /\ ToSet(more) = low + Max(stop) .. low + Len(page)
                   /\ Cardinality(ToSet(more)) = Len(more) /\ Ordered(more)
  BY <1>3, <1>5, PageEnd
<1>7. stop = {} => /\ more \in Seq(Nat) /\ ToSet(more) = low + 1 .. high
                   /\ Cardinality(ToSet(more)) = Len(more) /\ Ordered(more)
  BY <1>3, StretchOrdered
<1> HIDE DEF more
<1>8. /\ more \in Seq(Nat) /\ Cardinality(ToSet(more)) = Len(more) /\ Ordered(more)
      /\ ToSet(more) \subseteq low + 1 .. high
  <2>1. ASSUME stop # {} PROVE low + Max(stop) .. low + Len(page) \subseteq low + 1 .. high
    <3>1. Max(stop) \in Nat /\ 1 <= Max(stop)
      BY <1>3, <1>5, <2>1
    <3>2. low + Len(page) = high /\ high \in Nat
      <4>1. high \in Nat
        BY <1>2
      <4>2. low \in Nat /\ Len(page) = high - low
        BY <1>3
      <4> HIDE DEF high, low
      <4> QED
        BY <4>1, <4>2
    <3>3. \A m \in Nat : 1 <= m => low + m .. high \subseteq low + 1 .. high
      BY <1>3, <3>2
    <3> QED
      BY <3>1, <3>2, <3>3
  <2> QED
    BY <1>6, <1>7, <2>1
<1>9. /\ whole \in Seq(Nat) /\ Len(whole) = Len(load.got) + Len(more)
      /\ ToSet(whole) = ToSet(load.got) \cup ToSet(more)
  <2>1. more \in Seq(Nat)
    BY <1>8
  <2>2. /\ whole \in Seq(Nat) /\ Len(whole) = Len(more) + Len(load.got)
        /\ ToSet(whole) = ToSet(more) \cup ToSet(load.got)
    BY <1>2, <2>1, ToSetJoin
  <2>3. Len(more) \in Nat /\ Len(load.got) \in Nat
    BY <1>2, <2>1
  <2> HIDE DEF whole
  <2> QED
    BY <2>2, <2>3
<1>10. Ordered(whole)
  BY <1>1, <1>2, <1>8, InFront DEF NewestInLoop
<1> HIDE DEF whole
<1>11. Doubled(whole) <= grown
  BY <1>1, <1>8, <1>9, NewestJoin
<1>12. \A k \in low + 1 .. high : k \in ToSet(whole) \/ k < load.from
  <2> SUFFICES ASSUME NEW k \in low + 1 .. high PROVE k \in ToSet(whole) \/ k < load.from
    OBVIOUS
  <2>1. CASE stop = {}
    BY <1>7, <1>9, <2>1
  <2>2. CASE stop # {}
    <3>1. low + Max(stop) <= load.from /\ Max(stop) \in Nat
      <4>1. page[Max(stop)] = low + Max(stop)
        BY <1>3, <1>5, <2>2
      <4>2. Max(stop) \in Nat
        BY <1>5, <2>2
      <4> QED
        BY <1>5, <2>2, <4>1, <4>2
    <3>2. low + Len(page) = high /\ k \in Nat /\ k <= high
      BY <1>2, <1>3
    <3>3. \A m \in Nat : low + m <= load.from => k < load.from \/ k \in low + m .. high
      BY <1>2, <1>3, <3>2
    <3>4. k < load.from \/ k \in low + Max(stop) .. low + Len(page)
      BY <3>1, <3>2, <3>3
    <3> QED
      BY <1>6, <1>9, <2>2, <3>4
  <2> QED
    BY <2>1, <2>2
<1>13. CASE stop # {} \/ Len(page) < Size
  <2>1. PagedTypeOK' /\ load'.pc = "ok" /\ load'.got = whole /\ load'.from = load.from
    BY <1>1, <1>2, <1>4, <1>9, <1>13, Finished
  <2>2. due \subseteq ToSet(whole)
    <3>1. \A k \in kept : k \in 1 .. Count
      BY <1>1 DEF PagedTypeOK, NewestInLoop
    <3>2. ASSUME NEW k \in due PROVE low < k
      <4>1. CASE stop # {}
        <5>1. low + Max(stop) <= load.from /\ Max(stop) \in Nat /\ 1 <= Max(stop)
          <6>1. page[Max(stop)] = low + Max(stop)
            BY <1>3, <1>5, <4>1
          <6>2. Max(stop) \in Nat /\ 1 <= Max(stop)
            BY <1>5, <4>1
          <6> QED
            BY <1>5, <4>1, <6>1, <6>2
        <5>2. k \in Nat /\ load.from <= k
          BY <3>1
        <5> QED
          BY <1>2, <1>3, <5>1, <5>2
      <4>2. CASE stop = {}
        BY <1>3, <1>13, <3>1, <4>2
      <4> QED
        BY <4>1, <4>2
    <3>3. ASSUME NEW k \in due, k \in low + 1 .. high PROVE k \in ToSet(whole)
      <4>1. ~ (k < load.from)
        BY <1>2, <3>1
      <4> QED
        BY <1>12, <3>3, <4>1
    <3>4. ToSet(load.got) \subseteq ToSet(whole) /\ due \in SUBSET kept
      BY <1>9
    <3>5. \A k \in due : Due(k)
      BY <1>1 DEF Due
    <3> HIDE DEF due
    <3> QED
      BY <1>1, <3>2, <3>3, <3>4, <3>5, NewestIsWhole
  <2>3. DownloadComplete'
    <3>1. Ordered(load.got)'
      BY <1>10, <2>1 DEF Ordered
    <3> QED
      BY <1>1, <1>11, <2>1, <2>2, <3>1 DEF DownloadComplete, CodeKinds
  <2> QED
    BY <2>1, <2>3 DEF PagedInv
<1>14. CASE ~ (stop # {} \/ Len(page) < Size)
  <2>1. load.start + Size <= MaxListed
    BY <1>2, <1>3, <1>14
  <2>2. /\ PagedTypeOK' /\ load'.pc = "page" /\ load'.got = whole /\ load'.from = load.from
        /\ load'.start = load.start + Size
    BY <1>1, <1>2, <1>4, <1>9, <1>14, <2>1, Continued
  <2>3. \A k \in low + 1 .. high : k \in ToSet(load'.got)
    BY <1>7, <1>9, <1>14, <2>2
  <2>4. NewestInLoop'
    BY <1>1, <1>3, <1>8, <1>9, <1>10, <1>14, <2>2, <2>3, NewestGoesOn
  <2>5. DownloadComplete'
    BY <2>2 DEF DownloadComplete
  <2> QED
    BY <1>2, <2>2, <2>4, <2>5 DEF PagedInv
<1> QED
  BY <1>13, <1>14

\* The elements of a page that a loop keeps, in order.
LEMMA KeptOfPage ==
  ASSUME NEW page \in Seq(Nat), NEW E \in SUBSET ToSet(page)
  PROVE  /\ IsFiniteSet(E)
         /\ Sorted(E) \in Seq(Nat) /\ ToSet(Sorted(E)) = E
         /\ Len(Sorted(E)) = Cardinality(E)
         /\ Ordered(Sorted(E))
<1>1. ToSet(page) \in SUBSET Nat /\ IsFiniteSet(ToSet(page))
  BY ToSetFacts
<1>2. E \in SUBSET Nat
  BY <1>1
<1>3. IsFiniteSet(E)
  BY <1>1, FS_Subset
<1>4. /\ Sorted(E) \in Seq(Nat) /\ ToSet(Sorted(E)) = E
      /\ Len(Sorted(E)) = Cardinality(E) /\ Cardinality(E) \in Nat
      /\ \A i, j \in 1 .. Cardinality(E) : i < j => Sorted(E)[i] < Sorted(E)[j]
      /\ \A i \in 1 .. Cardinality(E) : Sorted(E)[i] \in E
  BY <1>2, <1>3, SortedFacts
<1>5. ASSUME NEW i \in 1 .. Len(Sorted(E)) - 1 PROVE Sorted(E)[i] <= Sorted(E)[i + 1]
  <2>1. i \in 1 .. Cardinality(E) /\ i + 1 \in 1 .. Cardinality(E) /\ i < i + 1
    BY <1>4
  <2>2. Sorted(E)[i] < Sorted(E)[i + 1] /\ Sorted(E)[i] \in E /\ Sorted(E)[i + 1] \in E
    BY <1>4, <2>1
  <2>3. \A k \in E : k \in Int
    BY <1>2
  <2> QED
    BY <2>2, <2>3
<1> QED
  BY <1>3, <1>4, <1>5 DEF Ordered

LEMMA IngestPageInv ==
  ASSUME PagedInv, load.pc = "page", IngestPage,
         UNCHANGED <<kind, listed, version, grown, shrunk, kept>>
  PROVE  PagedInv'
<1> DEFINE page == PageFromNewest(load.start)
           low == Before(load.start)
           high == Count - load.start
           new == {k \in ToSet(page) : k >= load.from /\ k \notin ToSet(load.got)}
           more == Sorted(new)
           all == more \o load.got
           whole == Sorted(ToSet(all))
           due == {k \in kept : k >= load.from}
           down == \E i \in 1 .. Len(page) : page[i] < load.from
<1>1. PagedTypeOK /\ kind = "daily" /\ kind \in NewestKinds /\ NewestInLoop
  BY DEF PagedInv, IngestPage, NewestKinds
<1>2. /\ load.start \in Nat /\ load.got \in Seq(Nat) /\ Elements = Nat /\ grown \in Nat
      /\ Count \in Nat /\ Count <= MaxListed /\ load.start <= Count /\ load.from \in Nat
      /\ Size \in Nat \ {0} /\ MaxListed \in Nat
      /\ kind \notin CodeKinds /\ kind # "block"
  BY <1>1, NewestTypes, PagedConstants DEF NewestInLoop
<1>3. /\ low \in Nat /\ low <= high
      /\ page \in Seq(Nat)
      /\ \A i \in 1 .. Len(page) : page[i] = low + i
      /\ ToSet(page) = low + 1 .. high
      /\ Len(page) < Size => low = 0
      /\ ~ (Len(page) < Size) => load.start + Size <= Count /\ low = Count - (load.start + Size)
  BY <1>1, <1>2, NewestPage DEF NewestInLoop
<1>4. \/ (Len(page) < Size \/ down) /\ Finish(whole)
      \/ Fail
      \/ ~ (Len(page) < Size \/ down) /\ Continue(all)
  BY DEF IngestPage
<1> HIDE DEF page
<1>5. more \in Seq(Nat) /\ ToSet(more) = new
  <2>1. new \in SUBSET ToSet(page)
    OBVIOUS
  <2> HIDE DEF new
  <2> QED
    BY <1>3, <2>1, KeptOfPage
<1> HIDE DEF more
<1>6. all \in Seq(Nat) /\ ToSet(all) = ToSet(load.got) \cup new
  <2>1. more \in Seq(Nat)
    BY <1>5
  <2>2. all \in Seq(Nat) /\ ToSet(all) = ToSet(more) \cup ToSet(load.got)
    BY <1>2, <2>1, ToSetJoin
  <2> HIDE DEF all
  <2> QED
    BY <1>5, <2>2
<1> HIDE DEF all
<1>7. /\ whole \in Seq(Nat) /\ ToSet(whole) = ToSet(all) /\ Ordered(whole)
      /\ Len(whole) = Cardinality(ToSet(all)) /\ Cardinality(ToSet(all)) \in Nat
  <2>1. ToSet(all) \in SUBSET ToSet(all) /\ Cardinality(ToSet(all)) \in Nat
    BY <1>6, ToSetFacts
  <2> QED
    BY <1>6, <2>1, KeptOfPage
<1> HIDE DEF whole
<1>8. CASE (Len(page) < Size \/ down) /\ Finish(whole)
  <2>1. PagedTypeOK' /\ load'.pc = "ok" /\ load'.got = whole /\ load'.from = load.from
    BY <1>1, <1>2, <1>7, <1>8, Finished
  <2>2. due \subseteq ToSet(whole)
    <3>1. \A k \in kept : k \in 1 .. Count
      BY <1>1 DEF PagedTypeOK, NewestInLoop
    <3>2. ASSUME NEW k \in due PROVE low < k
      <4>1. CASE down
        <5>1. PICK i \in 1 .. Len(page) : page[i] < load.from
          BY <4>1
        <5>2. page[i] = low + i /\ i \in Nat /\ 1 <= i
          BY <1>3
        <5>3. k \in Nat /\ load.from <= k
          BY <3>1
        <5> QED
          BY <1>2, <1>3, <5>1, <5>2, <5>3
      <4>2. CASE ~ down
        BY <1>3, <1>8, <3>1, <4>2
      <4> QED
        BY <4>1, <4>2
    <3>3. ASSUME NEW k \in due, k \in low + 1 .. high PROVE k \in ToSet(whole)
      <4>1. k >= load.from
        OBVIOUS
      <4> QED
        BY <1>3, <1>6, <1>7, <3>3, <4>1
    <3>4. ToSet(load.got) \subseteq ToSet(whole) /\ due \in SUBSET kept
      BY <1>6, <1>7
    <3>5. \A k \in due : Due(k)
      BY DEF Due
    <3> HIDE DEF due
    <3> QED
      BY <1>1, <3>2, <3>3, <3>4, <3>5, NewestIsWhole
  <2>3. DownloadComplete'
    <3>1. Ordered(load.got)'
      BY <1>7, <2>1 DEF Ordered
    <3>2. Doubled(whole) = 0
      BY <1>7 DEF Doubled
    <3> QED
      BY <1>1, <2>1, <2>2, <3>1, <3>2 DEF DownloadComplete, CodeKinds
  <2> QED
    BY <2>1, <2>3 DEF PagedInv
<1>9. CASE Fail
  BY <1>9, FailInv
<1>10. CASE ~ (Len(page) < Size \/ down) /\ Continue(all)
  <2>1. load.start + Size <= MaxListed
    BY <1>2, <1>3, <1>10
  <2>2. /\ PagedTypeOK' /\ load'.pc = "page" /\ load'.got = all /\ load'.from = load.from
        /\ load'.start = load.start + Size
    BY <1>1, <1>2, <1>6, <1>10, <2>1, Continued
  <2>3. \A k \in low + 1 .. high : Due(k) => k \in ToSet(load'.got)
    BY <1>1, <1>3, <1>6, <2>2 DEF Due
  <2>4. ToSet(more) \subseteq low + 1 .. high /\ ToSet(all) = ToSet(load.got) \cup ToSet(more)
    BY <1>3, <1>5, <1>6
  <2>5. NewestInLoop'
    BY <1>1, <1>3, <1>5, <1>6, <1>10, <2>2, <2>3, <2>4, NewestGoesOn
  <2>6. DownloadComplete'
    BY <2>2 DEF DownloadComplete
  <2> QED
    BY <1>2, <2>2, <2>5, <2>6 DEF PagedInv
<1> QED
  BY <1>4, <1>8, <1>9, <1>10

LEMMA ExBarsPageInv ==
  ASSUME PagedInv, load.pc = "page", ExBarsPage,
         UNCHANGED <<kind, listed, version, grown, shrunk, kept>>
  PROVE  PagedInv'
<1> DEFINE oldest == PageFromNewest(load.start)
           page == Reverse(oldest)
           low == Before(load.start)
           high == Count - load.start
           new == {k \in ToSet(page) : k >= load.from}
           more == Reverse(Sorted(new))
           whole == load.got \o more
           due == {k \in kept : k >= load.from}
           down == \E i \in 1 .. Len(page) : page[i] <= load.from
<1>1. PagedTypeOK /\ kind = "exBars" /\ kind \in NewestKinds /\ NewestInLoop
  BY DEF PagedInv, ExBarsPage, NewestKinds
<1>2. /\ load.start \in Nat /\ load.got \in Seq(Nat) /\ Elements = Nat /\ grown \in Nat
      /\ Count \in Nat /\ Count <= MaxListed /\ load.start <= Count /\ load.from \in Nat
      /\ Size \in Nat \ {0} /\ MaxListed \in Nat
      /\ kind \notin CodeKinds /\ kind # "block"
  BY <1>1, NewestTypes, PagedConstants DEF NewestInLoop
<1>3. /\ low \in Nat /\ low <= high
      /\ oldest \in Seq(Nat)
      /\ ToSet(oldest) = low + 1 .. high
      /\ Len(oldest) < Size => low = 0
      /\ ~ (Len(oldest) < Size) => load.start + Size <= Count /\ low = Count - (load.start + Size)
  BY <1>1, <1>2, NewestPage DEF NewestInLoop
<1>4. \/ (Len(page) < Size \/ down) /\ Finish(whole)
      \/ Fail
      \/ ~ (Len(page) < Size \/ down) /\ Continue(whole)
  BY DEF ExBarsPage
<1>5. page \in Seq(Nat) /\ Len(page) = Len(oldest) /\ ToSet(page) = low + 1 .. high
  BY <1>3, ReverseFacts
<1> HIDE DEF page, oldest
<1>6. /\ Sorted(new) \in Seq(Nat) /\ ToSet(Sorted(new)) = new
      /\ Len(Sorted(new)) = Cardinality(new) /\ Ordered(Sorted(new))
  <2>1. new \in SUBSET ToSet(page)
    OBVIOUS
  <2> HIDE DEF new
  <2> QED
    BY <1>5, <2>1, KeptOfPage
<1>7. /\ more \in Seq(Nat) /\ ToSet(more) = new /\ Len(more) = Cardinality(new)
      /\ new \subseteq low + 1 .. high
  <2>1. new \subseteq low + 1 .. high
    BY <1>5
  <2>2. Sorted(new) \in Seq(Nat)
    BY <1>6
  <2>3. /\ more \in Seq(Nat) /\ ToSet(more) = ToSet(Sorted(new))
        /\ Len(more) = Len(Sorted(new))
    BY <2>2, ReverseFacts
  <2> HIDE DEF more, new
  <2> QED
    BY <1>6, <2>1, <2>3
<1>8. Ordered(Reverse(whole))
  <2> DEFINE rest == Reverse(load.got)
             sorted == Sorted(new)
  <2>1. rest \in Seq(Nat) /\ ToSet(rest) = ToSet(load.got)
    BY <1>2, ReverseFacts
  <2>2. Ordered(rest)
    BY <1>1 DEF NewestInLoop
  <2>3. sorted \in Seq(Nat) /\ Ordered(sorted) /\ ToSet(sorted) \subseteq low + 1 .. high
    BY <1>6, <1>7
  <2>4. Reverse(whole) = sorted \o rest
    BY <1>2, <2>3, ReverseJoin
  <2> HIDE DEF rest, sorted
  <2>5. Ordered(sorted \o rest)
    BY <1>1, <2>1, <2>2, <2>3, InFront
  <2> HIDE DEF whole
  <2> QED
    BY <2>4, <2>5
<1> HIDE DEF more, new
<1>9. /\ whole \in Seq(Nat) /\ Len(whole) = Len(load.got) + Len(more)
      /\ ToSet(whole) = ToSet(load.got) \cup ToSet(more)
  <2>1. more \in Seq(Nat)
    BY <1>7
  <2> QED
    BY <1>2, <2>1, ToSetJoin
<1> HIDE DEF whole
<1>10. Doubled(whole) <= grown
  BY <1>1, <1>7, <1>9, NewestJoin
<1>11. \A k \in low + 1 .. high : k >= load.from => k \in ToSet(whole)
  BY <1>5, <1>7, <1>9 DEF new
<1>12. CASE (Len(page) < Size \/ down) /\ Finish(whole)
  <2>1. PagedTypeOK' /\ load'.pc = "ok" /\ load'.got = whole /\ load'.from = load.from
    BY <1>1, <1>2, <1>9, <1>12, Finished
  <2>2. due \subseteq ToSet(whole)
    <3>1. \A k \in kept : k \in 1 .. Count
      BY <1>1 DEF PagedTypeOK, NewestInLoop
    <3>2. ASSUME NEW k \in due PROVE low < k
      <4>1. CASE down
        <5>1. PICK i \in 1 .. Len(page) : page[i] <= load.from
          BY <4>1
        <5>2. page[i] \in low + 1 .. high
          BY <1>5 DEF ToSet
        <5>3. k \in Nat /\ load.from <= k
          BY <3>1
        <5> QED
          BY <1>2, <1>3, <5>1, <5>2, <5>3
      <4>2. CASE ~ down
        BY <1>3, <1>5, <1>12, <3>1, <4>2
      <4> QED
        BY <4>1, <4>2
    <3>3. ASSUME NEW k \in due, k \in low + 1 .. high PROVE k \in ToSet(whole)
      BY <1>11, <3>3
    <3>4. ToSet(load.got) \subseteq ToSet(whole) /\ due \in SUBSET kept
      BY <1>9
    <3>5. \A k \in due : Due(k)
      BY DEF Due
    <3> HIDE DEF due
    <3> QED
      BY <1>1, <3>2, <3>3, <3>4, <3>5, NewestIsWhole
  <2>3. DownloadComplete'
    <3>1. Ordered(Reverse(load.got))'
      BY <1>8, <2>1 DEF Ordered
    <3> QED
      BY <1>1, <1>10, <2>1, <2>2, <3>1 DEF DownloadComplete, CodeKinds
  <2> QED
    BY <2>1, <2>3 DEF PagedInv
<1>13. CASE Fail
  BY <1>13, FailInv
<1>14. CASE ~ (Len(page) < Size \/ down) /\ Continue(whole)
  <2>1. load.start + Size <= MaxListed
    BY <1>2, <1>3, <1>5, <1>14
  <2>2. /\ PagedTypeOK' /\ load'.pc = "page" /\ load'.got = whole /\ load'.from = load.from
        /\ load'.start = load.start + Size
    BY <1>1, <1>2, <1>9, <1>14, <2>1, Continued
  <2>3. \A k \in low + 1 .. high : Due(k) => k \in ToSet(load'.got)
    BY <1>1, <1>11, <2>2 DEF Due
  <2>4. NewestInLoop'
    BY <1>1, <1>3, <1>5, <1>7, <1>8, <1>9, <1>14, <2>2, <2>3, NewestGoesOn
  <2>5. DownloadComplete'
    BY <2>2 DEF DownloadComplete
  <2> QED
    BY <1>2, <2>2, <2>4, <2>5 DEF PagedInv
<1> QED
  BY <1>4, <1>12, <1>13, <1>14

(***************************************************************************)
(* One request for a piece of a file.                                      *)
(***************************************************************************)
LEMMA FileFacts ==
  ASSUME NEW v \in Nat
  PROVE  /\ FileSize(v) \in Nat \ {0}
         /\ File(v) \in Seq(Nat \X Nat) /\ Len(File(v)) = FileSize(v)
         /\ \A i \in 1 .. FileSize(v) : File(v)[i] = <<v, i>>
<1>1. FileSize(v) \in Nat \ {0}
  BY PagedConstants DEF FileSize
<1>2. \A i \in 1 .. FileSize(v) : <<v, i>> \in Nat \X Nat
  BY <1>1
<1>3. File(v) = [i \in 1 .. FileSize(v) |-> <<v, i>>]
  BY DEF File
<1>4. File(v) \in [1 .. FileSize(v) -> Nat \X Nat]
  BY <1>2, <1>3
<1>5. FileSize(v) \in Nat
  BY <1>1
<1>6. File(v) \in Seq(Nat \X Nat) /\ Len(File(v)) = FileSize(v)
  BY <1>4, <1>5
<1> QED
  BY <1>1, <1>3, <1>6

\* A chunk is the piece of the file that was asked for, as far as there is one.
LEMMA ChunkFacts ==
  ASSUME PagedTypeOK, NEW start \in Nat, NEW n \in Int
  PROVE  /\ Chunk(start, n) \in Seq(Nat \X Nat)
         /\ n \in Nat /\ start + n <= FileSize(version) =>
               /\ Len(Chunk(start, n)) = n
               /\ \A i \in 1 .. n : Chunk(start, n)[i] = <<version, start + i>>
<1> DEFINE size == FileSize(version)
           last == IF start + n <= size THEN start + n ELSE size
           piece == SubSeq(File(version), start + 1, last)
<1>1. /\ version \in Nat /\ size \in Nat
      /\ File(version) \in Seq(Nat \X Nat) /\ Len(File(version)) = size
      /\ \A i \in 1 .. size : File(version)[i] = <<version, i>>
  BY FileFacts DEF PagedTypeOK
<1> HIDE DEF size
<1>2. start + 1 \in Int /\ last \in Int /\ last <= size /\ start + n \in Int
  BY <1>1
<1>3. Chunk(start, n) = piece
  <2>1. Min({start + n, size}) = last
    BY <1>1, <1>2, MinOfTwo
  <2> HIDE DEF last
  <2> QED
    BY <1>1, <2>1 DEF Chunk, Between
<1>4. \A i \in start + 1 .. last : i \in 1 .. size /\ File(version)[i] \in Nat \X Nat
  <2>1. \A i \in start + 1 .. last : i \in 1 .. size
    BY <1>1, <1>2
  <2> QED
    BY <1>1, <2>1
<1>5. /\ piece \in Seq(Nat \X Nat)
      /\ Len(piece) = IF start + 1 <= last THEN last - (start + 1) + 1 ELSE 0
      /\ \A i \in 1 .. last - (start + 1) + 1 : piece[i] = File(version)[(start + 1) + i - 1]
  <2> HIDE DEF last
  <2> QED
    BY <1>2, <1>4, SubSeqProperties
<1>6. ASSUME n \in Nat, start + n <= size
      PROVE  Len(piece) = n /\ \A i \in 1 .. n : piece[i] = <<version, start + i>>
  <2>1. last = start + n /\ last - (start + 1) + 1 = n
    BY <1>6
  <2>2. Len(piece) = n
    BY <1>5, <1>6, <2>1
  <2>3. \A i \in 1 .. n : start + i \in 1 .. size /\ (start + 1) + i - 1 = start + i
    BY <1>1, <1>6
  <2> HIDE DEF piece, last
  <2> QED
    BY <1>1, <1>5, <2>1, <2>2, <2>3
<1> HIDE DEF piece
<1> QED
  BY <1>3, <1>5, <1>6 DEF size

\* The archive is only accepted if it is one version of the file.
LEMMA ZhbChunkInv ==
  ASSUME PagedInv, load.pc = "page", ZhbChunk,
         UNCHANGED <<kind, listed, version, grown, shrunk, kept>>
  PROVE  PagedInv'
<1> DEFINE chunk == Chunk(load.start, Size)
           whole == load.got \o chunk
<1>1. PagedTypeOK /\ kind = "zhb" /\ kind \notin CodeKinds /\ kind \notin NewestKinds
  BY DEF PagedInv, ZhbChunk, CodeKinds, NewestKinds
<1>2. /\ load.start \in Nat /\ Size \in Nat /\ Size \in Int
      /\ Elements = Nat \X Nat /\ load.got \in Seq(Nat \X Nat)
  BY <1>1, LoadType, PagedConstants DEF Elements, FileKinds
<1>3. whole \in Seq(Nat \X Nat)
  BY <1>1, <1>2, ChunkFacts, ConcatProperties
<1>4. \/ load' = [load EXCEPT !.got = whole, !.start = @ + Size]
      \/ (\E v \in 1 .. version : whole = File(v)) /\ Finish(whole)
      \/ Fail
  BY DEF ZhbChunk
<1> HIDE DEF whole
<1>5. CASE load' = [load EXCEPT !.got = whole, !.start = @ + Size]
  <2>1. load' = [pc |-> "page", start |-> load.start + Size, from |-> load.from,
                 got |-> whole, size |-> load.size]
    BY <1>1, <1>5, LoadType
  <2>2. /\ load'.pc = "page" /\ load'.start = load.start + Size /\ load'.from = load.from
        /\ load'.got = whole /\ load'.size = load.size /\ load.start + Size \in Nat
    BY <1>2, <2>1
  <2>3. PagedTypeOK'
    BY <1>1, <1>2, <1>3, <2>1, <2>2, LoadType, SameTypes
  <2>4. DownloadComplete'
    BY <2>2 DEF DownloadComplete
  <2> QED
    BY <1>1, <2>3, <2>4 DEF PagedInv
<1>6. CASE (\E v \in 1 .. version : whole = File(v)) /\ Finish(whole)
  <2>1. PagedTypeOK' /\ load'.pc = "ok" /\ load'.got = whole
    BY <1>1, <1>2, <1>3, <1>6, Finished
  <2>2. PICK v \in 1 .. version : whole = File(v)
    BY <1>6
  <2>3. File(v)' = File(v)
    BY DEF File, FileSize
  <2>4. (\E w \in 1 .. version : load.got = File(w))'
    BY <2>1, <2>2, <2>3
  <2>5. DownloadComplete'
    BY <1>1, <2>1, <2>4 DEF DownloadComplete, CodeKinds
  <2> QED
    BY <1>1, <2>1, <2>5 DEF PagedInv
<1>7. CASE Fail
  BY <1>7, FailInv
<1> QED
  BY <1>4, <1>5, <1>6, <1>7

\* What is read of a block file that is not replaced is its beginning.
LEMMA BlockJoin ==
  ASSUME PagedTypeOK, kind = "block", BlockInLoop, grown = 0, load.size # 0
  PROVE  LET size == FileSize(version)
             left == load.size - Len(load.got)
             n == IF left < Size THEN left ELSE Size
             chunk == Chunk(load.start, n)
         IN /\ left = size - load.start /\ left \in Nat
            /\ Len(chunk) = n /\ n \in Nat \ {0} /\ load.start + n <= size
            /\ load.got \o chunk = SubSeq(File(version), 1, load.start + n)
            /\ n = left => load.got \o chunk = File(version)
<1> DEFINE size == FileSize(version)
           left == load.size - Len(load.got)
           n == IF left < Size THEN left ELSE Size
           chunk == Chunk(load.start, n)
           next == load.start + n
<1>1. /\ version \in Nat /\ size \in Nat \ {0}
      /\ File(version) \in Seq(Nat \X Nat) /\ Len(File(version)) = size
      /\ \A i \in 1 .. size : File(version)[i] = <<version, i>>
  BY FileFacts DEF PagedTypeOK
<1>2. /\ load.start \in Nat /\ Size \in Nat \ {0}
      /\ load.got \in Seq(Nat \X Nat)
  BY LoadType, PagedConstants DEF Elements, FileKinds
<1>3. load.size = size /\ load.start < size /\ load.got = SubSeq(File(version), 1, load.start)
  BY DEF BlockInLoop
<1> HIDE DEF size
<1>4. ASSUME NEW m \in 0 .. size
      PROVE  /\ SubSeq(File(version), 1, m) \in Seq(Nat \X Nat)
             /\ Len(SubSeq(File(version), 1, m)) = m
             /\ \A i \in 1 .. m : SubSeq(File(version), 1, m)[i] = <<version, i>>
  <2>1. \A i \in 1 .. m : i \in 1 .. size /\ File(version)[i] \in Nat \X Nat
    <3>1. \A i \in 1 .. m : i \in 1 .. size
      BY <1>1
    <3> QED
      BY <1>1, <3>1
  <2>2. /\ SubSeq(File(version), 1, m) \in Seq(Nat \X Nat)
        /\ Len(SubSeq(File(version), 1, m)) = IF 1 <= m THEN m - 1 + 1 ELSE 0
        /\ \A i \in 1 .. m - 1 + 1 : SubSeq(File(version), 1, m)[i] = File(version)[1 + i - 1]
    BY <2>1, SubSeqProperties
  <2>3. m - 1 + 1 = m /\ m \in Nat /\ (~ (1 <= m) => m = 0)
    BY <1>1
  <2>4. \A i \in 1 .. m : 1 + i - 1 = i
    OBVIOUS
  <2> QED
    BY <1>1, <2>1, <2>2, <2>3, <2>4
<1>5. Len(load.got) = load.start /\ \A i \in 1 .. load.start : load.got[i] = <<version, i>>
  BY <1>1, <1>2, <1>3, <1>4
<1>6. left = size - load.start /\ left \in Nat /\ n \in Nat \ {0} /\ next <= size /\ next \in 0 .. size
  BY <1>1, <1>2, <1>3, <1>5
<1>7. /\ chunk \in Seq(Nat \X Nat) /\ Len(chunk) = n
      /\ \A i \in 1 .. n : chunk[i] = <<version, load.start + i>>
  <2>1. n \in Int /\ n \in Nat
    BY <1>6
  <2> HIDE DEF n
  <2> QED
    BY <1>2, <1>6, <2>1, ChunkFacts DEF size
<1> HIDE DEF left, n
<1>8. /\ load.got \o chunk \in Seq(Nat \X Nat) /\ Len(load.got \o chunk) = next
      /\ \A i \in 1 .. next : (load.got \o chunk)[i] = <<version, i>>
  <2> HIDE DEF chunk
  <2>1. /\ load.got \o chunk \in Seq(Nat \X Nat) /\ Len(load.got \o chunk) = next
        /\ \A i \in 1 .. load.start : (load.got \o chunk)[i] = load.got[i]
        /\ \A i \in 1 .. n : (load.got \o chunk)[load.start + i] = chunk[i]
    <3>1. /\ load.got \o chunk \in Seq(Nat \X Nat)
          /\ Len(load.got \o chunk) = Len(load.got) + Len(chunk)
          /\ \A i \in 1 .. Len(load.got) : (load.got \o chunk)[i] = load.got[i]
          /\ \A i \in 1 .. Len(chunk) : (load.got \o chunk)[Len(load.got) + i] = chunk[i]
      <4> DEFINE T == Nat \X Nat
      <4>1. load.got \in Seq(T) /\ chunk \in Seq(T)
        BY <1>2, <1>7
      <4> HIDE DEF T
      <4>2. /\ load.got \o chunk \in Seq(T)
            /\ Len(load.got \o chunk) = Len(load.got) + Len(chunk)
            /\ \A i \in 1 .. Len(load.got) : (load.got \o chunk)[i] = load.got[i]
            /\ \A i \in 1 .. Len(chunk) : (load.got \o chunk)[Len(load.got) + i] = chunk[i]
        BY <4>1, ToSetJoin
      <4> QED
        BY <4>2 DEF T
    <3> QED
      BY <1>5, <1>7, <3>1
  <2>2. ASSUME NEW i \in 1 .. next PROVE (load.got \o chunk)[i] = <<version, i>>
    <3>1. CASE i <= load.start
      BY <1>2, <1>5, <2>1, <3>1
    <3>2. CASE ~ (i <= load.start)
      <4>1. i - load.start \in 1 .. n /\ load.start + (i - load.start) = i
        BY <1>2, <1>6, <3>2
      <4> QED
        BY <1>7, <2>1, <4>1
    <3> QED
      BY <3>1, <3>2
  <2> QED
    BY <2>1, <2>2
<1>9. load.got \o chunk = SubSeq(File(version), 1, next)
  <2>1. /\ SubSeq(File(version), 1, next) \in Seq(Nat \X Nat)
        /\ Len(SubSeq(File(version), 1, next)) = next
        /\ \A i \in 1 .. next : SubSeq(File(version), 1, next)[i] = <<version, i>>
    BY <1>4, <1>6
  <2> HIDE DEF chunk, next
  <2> DEFINE s == load.got \o chunk
             t == SubSeq(File(version), 1, next)
  <2>2. Len(s) = Len(t) /\ \A i \in 1 .. Len(s) : s[i] = t[i]
    BY <1>8, <2>1
  <2>3. s \in Seq(Nat \X Nat) /\ t \in Seq(Nat \X Nat)
    BY <1>8, <2>1
  <2> HIDE DEF s, t
  <2>4. s = t
    BY <2>2, <2>3, SeqEqual
  <2> QED
    BY <2>4 DEF s, t
<1>10. ASSUME n = left PROVE load.got \o chunk = File(version)
  <2>1. next = size
    BY <1>1, <1>2, <1>6, <1>10
  <2> HIDE DEF chunk, next
  <2> QED
    BY <1>1, <1>8, <2>1, SeqEqual
<1> QED
  BY <1>6, <1>7, <1>9, <1>10 DEF size, left, n

LEMMA BlockChunkInv ==
  ASSUME PagedInv, load.pc = "page", BlockChunk,
         UNCHANGED <<kind, listed, version, grown, shrunk, kept>>
  PROVE  PagedInv'
<1> DEFINE size == FileSize(version)
           left == load.size - Len(load.got)
           n == IF left < Size THEN left ELSE Size
           chunk == Chunk(load.start, n)
           whole == load.got \o chunk
<1>1. PagedTypeOK /\ kind = "block" /\ kind \notin CodeKinds /\ kind \notin NewestKinds /\ BlockInLoop
  BY DEF PagedInv, BlockChunk, CodeKinds, NewestKinds
<1>2. /\ load.start \in Nat /\ load.size \in Nat /\ Size \in Nat \ {0}
      /\ Elements = Nat \X Nat /\ load.got \in Seq(Nat \X Nat)
      /\ version \in Nat /\ size \in Nat \ {0} /\ grown \in Nat
  BY <1>1, LoadType, PagedConstants, FileFacts DEF Elements, FileKinds, PagedTypeOK
<1>3. chunk \in Seq(Nat \X Nat) /\ Len(chunk) \in Nat /\ whole \in Seq(Nat \X Nat)
  <2>1. n \in Int
    BY <1>2
  <2>2. chunk \in Seq(Nat \X Nat)
    <3> HIDE DEF n
    <3> QED
      BY <1>1, <1>2, <2>1, ChunkFacts
  <2> HIDE DEF chunk
  <2> QED
    BY <1>2, <2>2, ConcatProperties
<1>4. \/ load.size = 0 /\ load' = [load EXCEPT !.size = size]
      \/ load.size # 0 /\ (chunk = <<>> \/ Len(chunk) = left) /\ Finish(whole)
      \/ /\ load.size # 0 /\ ~ (chunk = <<>> \/ Len(chunk) = left)
         /\ load' = [load EXCEPT !.got = @ \o chunk, !.start = @ + Len(chunk)]
  BY DEF BlockChunk
<1>5. ASSUME grown = 0, load.size # 0
      PROVE  /\ Len(chunk) = n /\ n \in Nat \ {0} /\ load.start + n <= size
             /\ left = size - load.start
             /\ whole = SubSeq(File(version), 1, load.start + n)
             /\ n = left => whole = File(version)
  BY <1>1, <1>5, BlockJoin
<1>6. FileSize(version)' = size /\ File(version)' = File(version)
  BY DEF File, FileSize
<1>7. ASSUME grown = 0 PROVE load.size \in {0, size}
  BY <1>1, <1>7 DEF BlockInLoop
<1>8. left < Size => n = left
  OBVIOUS
<1>9. ~ (left < Size) => n = Size
  OBVIOUS
<1> HIDE DEF whole, chunk, size, n
<1>10. CASE load.size = 0 /\ load' = [load EXCEPT !.size = size]
  <2>1. load' = [pc |-> "page", start |-> load.start, from |-> load.from,
                 got |-> load.got, size |-> size]
    BY <1>1, <1>10, LoadType
  <2>2. /\ load'.pc = "page" /\ load'.start = load.start /\ load'.from = load.from
        /\ load'.got = load.got /\ load'.size = size
    BY <2>1
  <2>3. PagedTypeOK'
    BY <1>1, <1>2, <2>1, <2>2, SameTypes
  <2>4. BlockInLoop'
    BY <1>1, <1>2, <1>6, <2>2 DEF BlockInLoop, size
  <2>5. DownloadComplete'
    BY <2>2 DEF DownloadComplete
  <2> QED
    BY <1>1, <2>3, <2>4, <2>5 DEF PagedInv
<1>11. CASE load.size # 0 /\ (chunk = <<>> \/ Len(chunk) = left) /\ Finish(whole)
  <2>1. PagedTypeOK' /\ load'.pc = "ok" /\ load'.got = whole
    BY <1>1, <1>2, <1>3, <1>11, Finished
  <2>2. ASSUME grown = 0 PROVE whole = File(version)
    <3>1. Len(chunk) # 0 /\ Len(chunk) = n
      BY <1>5, <1>11, <2>2
    <3>2. Len(chunk) = left
      BY <1>11, <3>1
    <3> QED
      BY <1>5, <1>11, <2>2, <3>1, <3>2
  <2>3. (grown = 0 => load.got = File(version))'
    BY <1>6, <2>1, <2>2
  <2>4. DownloadComplete'
    BY <1>1, <2>1, <2>3 DEF DownloadComplete, CodeKinds
  <2> QED
    BY <1>1, <2>1, <2>4 DEF PagedInv
<1>12. CASE /\ load.size # 0 /\ ~ (chunk = <<>> \/ Len(chunk) = left)
            /\ load' = [load EXCEPT !.got = @ \o chunk, !.start = @ + Len(chunk)]
  <2>1. load' = [pc |-> "page", start |-> load.start + Len(chunk), from |-> load.from,
                 got |-> whole, size |-> load.size]
    BY <1>1, <1>12, LoadType DEF whole
  <2>2. /\ load'.pc = "page" /\ load'.start = load.start + Len(chunk) /\ load'.from = load.from
        /\ load'.got = whole /\ load'.size = load.size
        /\ load.start + Len(chunk) \in Nat
    BY <1>2, <1>3, <2>1
  <2>3. PagedTypeOK'
    BY <1>1, <1>2, <1>3, <2>1, <2>2, SameTypes
  <2>4. ASSUME grown = 0
        PROVE  /\ load.size = size /\ load.start + Len(chunk) < size
               /\ whole = SubSeq(File(version), 1, load.start + Len(chunk))
    <3>1. Len(chunk) = n /\ n # left /\ left = size - load.start /\ load.start + n <= size
      BY <1>5, <1>12, <2>4
    <3>2. load.start + n # size
      BY <1>2, <3>1
    <3>3. load.start + Len(chunk) < size
      BY <1>2, <3>1, <3>2
    <3>4. load.size = size
      BY <1>7, <1>12, <2>4
    <3>5. whole = SubSeq(File(version), 1, load.start + Len(chunk))
      BY <1>5, <1>12, <2>4, <3>1
    <3> QED
      BY <3>3, <3>4, <3>5
  <2>5. BlockInLoop'
    BY <1>2, <1>6, <1>12, <2>2, <2>4 DEF BlockInLoop, size
  <2>6. DownloadComplete'
    BY <2>2 DEF DownloadComplete
  <2> QED
    BY <1>1, <2>2, <2>3, <2>5, <2>6 DEF PagedInv
<1> QED
  BY <1>4, <1>10, <1>11, <1>12

(***************************************************************************)
(* The server's data changes.                                              *)
(***************************************************************************)
LEMMA RankAdded ==
  ASSUME NEW S \in SUBSET Nat, IsFiniteSet(S), NEW k \in Nat, k \notin S, NEW j \in S
  PROVE  Rank(j, S \cup {k}) = IF k < j THEN Rank(j, S) + 1 ELSE Rank(j, S)
<1> DEFINE A == {i \in S : i < j}
           B == {i \in S \cup {k} : i < j}
<1>1. IsFiniteSet(A)
  <2>1. A \in SUBSET S
    OBVIOUS
  <2> HIDE DEF A
  <2> QED
    BY <2>1, FS_Subset
<1>2. CASE k < j
  <2>1. B = A \cup {k} /\ k \notin A
    BY <1>2
  <2>2. Cardinality(B) = Cardinality(A) + 1
    <3> HIDE DEF A, B
    <3> QED
      BY <1>1, <2>1, FS_AddElement
  <2> QED
    BY <1>2, <2>2 DEF Rank
<1>3. CASE ~ (k < j)
  <2>1. B = A
    BY <1>3
  <2> QED
    BY <1>3, <2>1 DEF Rank
<1> QED
  BY <1>2, <1>3

\* One more code moves at most one that is there over the border of the next page.
LEMMA CodesGrow ==
  ASSUME PagedTypeOK, kind \in CodeKinds, CodesInLoop, ~shrunk,
         NEW k \in Nat, k \notin listed
  PROVE  LET more == listed \cup {k}
         IN /\ ToSet(load.got) \subseteq more
            /\ \A j \in kept : Rank(j, more) < load.start => j \in ToSet(load.got)
            /\ Len(load.got) + Cardinality({j \in ToSet(load.got) : load.start <= Rank(j, more)})
                 <= Cardinality(ToSet(load.got)) + (grown + 1)
<1> DEFINE more == listed \cup {k}
           G == ToSet(load.got)
           A == {j \in G : load.start <= Rank(j, listed)}
           B == {j \in G : load.start <= Rank(j, more)}
           X == {j \in G : Rank(j, listed) = load.start - 1}
<1>1. /\ load.start \in Nat /\ load.got \in Seq(Nat) /\ grown \in Nat
      /\ listed \in SUBSET Nat /\ IsFiniteSet(listed) /\ kept \subseteq listed
  BY LoadType, ListedFinite DEF PagedTypeOK, CodeKinds, FileKinds
<1>2. /\ G \subseteq listed
      /\ \A j \in kept : Rank(j, listed) < load.start => j \in G
      /\ Len(load.got) + Cardinality(A) <= Cardinality(G) + grown
  BY DEF CodesInLoop, Counted, Ahead, AheadOf
<1>3. \A j \in listed : /\ Rank(j, listed) \in Nat
                        /\ Rank(j, more) = IF k < j THEN Rank(j, listed) + 1 ELSE Rank(j, listed)
  BY <1>1, RankType, RankAdded
<1>4. IsFiniteSet(G) /\ Cardinality(G) \in Nat /\ Len(load.got) \in Nat
  BY <1>1, ToSetFacts
<1>5. B \subseteq A \cup X /\ A \in SUBSET G /\ X \in SUBSET G
  <2>1. ASSUME NEW j \in B PROVE j \in A \cup X
    <3>1. j \in listed /\ j \in G /\ load.start <= Rank(j, more)
      BY <1>2
    <3>2. \/ load.start <= Rank(j, listed)
          \/ load.start <= Rank(j, listed) + 1 /\ ~ (load.start <= Rank(j, listed))
      BY <1>3, <3>1
    <3>3. Rank(j, listed) \in Nat
      BY <1>3, <3>1
    <3> HIDE DEF more
    <3> QED
      BY <1>1, <3>1, <3>2, <3>3
  <2> QED
    BY <2>1
<1>6. IsFiniteSet(A) /\ IsFiniteSet(X) /\ Cardinality(A) \in Nat /\ Cardinality(X) \in Nat
      /\ Cardinality(X) <= 1
  <2>1. \A i, j \in X : i = j
    BY <1>1, <1>2, RankOne
  <2> HIDE DEF A, X
  <2>2. IsFiniteSet(A) /\ IsFiniteSet(X)
    BY <1>4, <1>5, FS_Subset
  <2>3. X = {} \/ \E x : X = {x}
    BY <2>1
  <2>4. Cardinality(X) <= 1
    <3>1. Cardinality(X) = 0 \/ Cardinality(X) = 1
      BY <2>3, FS_EmptySet, FS_Singleton
    <3> QED
      BY <3>1
  <2> QED
    BY <2>2, <2>4, FS_CardinalityType
<1>7. Cardinality(B) <= Cardinality(A) + 1 /\ Cardinality(B) \in Nat
  <2> HIDE DEF A, B, X
  <2>1. IsFiniteSet(A \cup X) /\ IsFiniteSet(A \cap X)
        /\ Cardinality(A \cup X) = Cardinality(A) + Cardinality(X) - Cardinality(A \cap X)
    BY <1>6, FS_Union, FS_Intersection
  <2>2. Cardinality(A \cap X) \in Nat
    BY <2>1, FS_CardinalityType
  <2>3. IsFiniteSet(B) /\ Cardinality(B) <= Cardinality(A \cup X)
    BY <1>5, <2>1, FS_Subset
  <2>4. Cardinality(B) \in Nat
    BY <2>3, FS_CardinalityType
  <2> QED
    BY <1>6, <2>1, <2>2, <2>3, <2>4
<1>8. Len(load.got) + Cardinality(B) <= Cardinality(G) + (grown + 1)
  <2> HIDE DEF A, B, G
  <2> QED
    BY <1>1, <1>2, <1>4, <1>6, <1>7
<1>9. ASSUME NEW j \in kept, Rank(j, more) < load.start PROVE j \in G
  <2>0. j \in listed
    BY <1>1
  <2>1. /\ Rank(j, listed) \in Nat
        /\ Rank(j, more) = Rank(j, listed) \/ Rank(j, more) = Rank(j, listed) + 1
    BY <1>3, <2>0
  <2>2. Rank(j, more) \in Nat /\ Rank(j, listed) <= Rank(j, more)
    <3> HIDE DEF more
    <3> QED
      BY <2>1
  <2>3. Rank(j, listed) < load.start
    <3> HIDE DEF more
    <3> QED
      BY <1>1, <1>9, <2>1, <2>2
  <2> QED
    BY <1>2, <2>3
<1> QED
  BY <1>2, <1>8, <1>9

\* The bars and trades that are there stay as they are, and one more is the newest.
LEMMA NewestGrow ==
  ASSUME PagedTypeOK, kind \in NewestKinds, NewestInLoop,
         NEW k, k = Max(listed \cup {0}) + 1,
         listed' = listed \cup {k}, grown' = grown + 1,
         UNCHANGED <<kind, version, shrunk, kept, load>>
  PROVE  NewestInLoop'
<1> DEFINE G == ToSet(load.got)
           n == Count
           A == {j \in G : j <= n - load.start}
           B == {j \in G : j <= n + 1 - load.start}
<1>1. /\ load.start \in Nat /\ load.got \in Seq(Nat) /\ grown \in Nat /\ n \in Nat
      /\ kind \notin CodeKinds
  BY NewestTypes
<1>2. /\ listed = 1 .. n /\ grown <= n /\ kept = 1 .. n - grown /\ load.start <= n
      /\ G \subseteq 1 .. n
      /\ \A j \in G : n - load.start - grown < j
      /\ \A j \in kept : n - load.start < j /\ Due(j) => j \in G
      /\ kind # "daily" => Len(load.got) + Cardinality(A) <= Cardinality(G) + grown
      /\ kind \in {"trades", "bars"} => Ordered(load.got)
      /\ kind = "exBars" => Ordered(Reverse(load.got))
  BY <1>1 DEF NewestInLoop, Counted, Ahead, AheadOf
<1> HIDE DEF n
<1>3. k = n + 1
  <2>1. Max(0 .. n) = n
    <3>1. \A x \in 0 .. n : (\A y \in 0 .. n : x >= y) => x = n
      BY <1>1
    <3>2. n \in 0 .. n /\ \A y \in 0 .. n : n >= y
      BY <1>1
    <3>3. \E x \in 0 .. n : \A y \in 0 .. n : x >= y
      BY <3>2
    <3> QED
      BY <3>1, <3>3 DEF Max
  <2>2. listed \cup {0} = 0 .. n
    BY <1>1, <1>2
  <2> QED
    BY <2>1, <2>2
<1>4. listed' = 1 .. n + 1
  BY <1>1, <1>2, <1>3
<1>5. Count' = n + 1
  <2>1. n + 1 \in Nat
    BY <1>1
  <2>2. Cardinality(1 .. n + 1) = n + 1
    BY <2>1, SortedInterval
  <2> QED
    BY <1>4, <2>2 DEF Count
<1>6. load' = load /\ kind' = kind /\ kept' = kept /\ grown' = grown + 1
  OBVIOUS
<1>7. IsFiniteSet(G) /\ Cardinality(G) \in Nat /\ Len(load.got) \in Nat
  BY <1>1, ToSetFacts
<1>8. Cardinality(B) <= Cardinality(A) + 1 /\ Cardinality(A) \in Nat /\ Cardinality(B) \in Nat
  <2>1. B \subseteq A \cup {n + 1 - load.start} /\ A \subseteq G
    BY <1>1, <1>2
  <2> DEFINE x == n + 1 - load.start
  <2> HIDE DEF A, B, G, x
  <2>2. IsFiniteSet(A) /\ Cardinality(A) \in Nat
    BY <1>7, <2>1, FS_Subset, FS_CardinalityType
  <2>3. /\ IsFiniteSet(A \cup {x})
        /\ Cardinality(A \cup {x}) = IF x \in A THEN Cardinality(A) ELSE Cardinality(A) + 1
    BY <2>2, FS_AddElement
  <2>4. IsFiniteSet(B) /\ Cardinality(B) <= Cardinality(A \cup {x})
    BY <2>1, <2>3, FS_Subset DEF x
  <2>5. Cardinality(B) \in Nat
    BY <2>4, FS_CardinalityType
  <2>6. Cardinality(A \cup {x}) \in Nat /\ Cardinality(A \cup {x}) <= Cardinality(A) + 1
    BY <2>2, <2>3
  <2> QED
    BY <2>2, <2>4, <2>5, <2>6
<1>9. Ahead' = B
  BY <1>1, <1>5, <1>6 DEF Ahead, AheadOf
<1>10. kind # "daily" => Counted'
  <2> SUFFICES ASSUME kind # "daily" PROVE Counted'
    OBVIOUS
  <2>1. Len(load.got) + Cardinality(A) <= Cardinality(G) + grown
    BY <1>2
  <2> HIDE DEF A, B
  <2> QED
    BY <1>1, <1>6, <1>7, <1>8, <1>9, <2>1 DEF Counted
<1>11. \A s : Ordered(s) => Ordered(s)'
  <2> SUFFICES ASSUME NEW s, Ordered(s) PROVE Ordered(s)'
    OBVIOUS
  <2> QED
    BY <1>1 DEF Ordered
<1>12. /\ kind' \in {"trades", "bars"} => Ordered(load.got)'
       /\ kind' = "exBars" => Ordered(Reverse(load.got))'
  <2>1. load'.got = load.got /\ (grown > 1 => grown' > 1)
    BY <1>1, <1>6
  <2>2. Ordered(load.got) => Ordered(load.got)'
    BY <2>1 DEF Ordered
  <2>3. Ordered(Reverse(load.got)) => Ordered(Reverse(load.got))'
    BY <2>1 DEF Ordered
  <2> QED
    BY <1>2, <1>6, <2>2, <2>3
<1>13. /\ kept' = 1 .. Count' - grown' /\ grown' <= Count' /\ load'.start <= Count'
       /\ ToSet(load.got)' \subseteq 1 .. Count'
       /\ \A j \in ToSet(load.got)' : Count' - load'.start - grown' < j
  <2>1. (n + 1) - (grown + 1) = n - grown
    BY <1>1
  <2>2. ToSet(load.got)' = G /\ load'.start = load.start
    BY <1>6
  <2> HIDE DEF G
  <2>3. \A j \in G : j \in 1 .. n
    BY <1>2
  <2>4. G \subseteq 1 .. n + 1
    BY <1>1, <2>3
  <2>5. \A j \in G : (n + 1) - load.start - (grown + 1) < j
    BY <1>1, <1>2, <2>3
  <2>6. kept' = 1 .. Count' - grown'
    BY <1>2, <1>5, <1>6, <2>1
  <2>7. grown' <= Count' /\ load'.start <= Count'
    BY <1>1, <1>2, <1>5, <1>6
  <2>8. ToSet(load.got)' \subseteq 1 .. Count'
    BY <1>5, <2>2, <2>4
  <2>9. \A j \in ToSet(load.got)' : Count' - load'.start - grown' < j
    BY <1>5, <1>6, <2>2, <2>5
  <2> QED
    BY <2>6, <2>7, <2>8, <2>9
<1>14. \A j \in kept' : Count' - load'.start < j /\ Due(j)' => j \in ToSet(load.got)'
  <2>1. ASSUME NEW j \in kept, n + 1 - load.start < j, Due(j) PROVE j \in G
    <3>1. j \in 1 .. n - grown
      BY <1>2
    <3>2. n - load.start < j
      BY <1>1, <2>1, <3>1
    <3> QED
      BY <1>2, <2>1, <3>2
  <2>2. ToSet(load.got)' = G /\ load'.start = load.start /\ kept' = kept
    BY <1>6
  <2>3. ASSUME NEW j \in kept', Count' - load'.start < j, Due(j)' PROVE j \in ToSet(load.got)'
    <3>1. Due(j)
      BY <1>6, <2>3 DEF Due
    <3>2. j \in kept /\ n + 1 - load.start < j
      <4>1. Count' - load'.start = n + 1 - load.start
        BY <1>1, <1>5, <2>2
      <4>2. kept' = kept
        BY <2>2
      <4> QED
        BY <2>3, <4>1, <4>2
    <3> QED
      BY <2>1, <2>2, <3>1, <3>2
  <2> QED
    BY <2>3
<1> QED
  BY <1>4, <1>5, <1>6, <1>10, <1>12, <1>13, <1>14 DEF NewestInLoop

LEMMA ListGrowsInv ==
  ASSUME PagedInv, NEW k \in 1 .. MaxListed, ListGrows(k)
  PROVE  PagedInv'
<1>1. /\ PagedTypeOK /\ load.pc = "page" /\ kind \notin FileKinds /\ k \notin listed
      /\ kind \in CodeKinds \/ k = Max(listed \cup {0}) + 1
      /\ listed' = listed \cup {k} /\ grown' = grown + 1
      /\ UNCHANGED <<kind, version, shrunk, kept, load>>
  BY DEF PagedInv, ListGrows
<1>2. PagedTypeOK'
  <2>1. Elements' = Elements
    BY <1>1 DEF Elements
  <2> QED
    BY <1>1, <2>1 DEF PagedTypeOK
<1>3. load'.pc = "page" /\ DownloadComplete'
  BY <1>1 DEF DownloadComplete
<1>4. kind' # "block"
  BY <1>1 DEF FileKinds
<1>5. ASSUME kind \in CodeKinds PROVE CodesInLoop'
  <2>1. CodesInLoop /\ k \in Nat
    BY <1>1, <1>5 DEF PagedInv
  <2>2. ASSUME ~shrunk
        PROVE  /\ ToSet(load.got) \subseteq listed'
               /\ \A j \in kept : Rank(j, listed') < load.start => j \in ToSet(load.got)
               /\ Len(load.got) + Cardinality({j \in ToSet(load.got) : load.start <= Rank(j, listed')})
                    <= Cardinality(ToSet(load.got)) + (grown + 1)
    BY <1>1, <1>5, <2>1, <2>2, CodesGrow
  <2>3. Ahead' = {j \in ToSet(load.got) : load.start <= Rank(j, listed')}
    BY <1>1, <1>5 DEF Ahead, AheadOf
  <2> QED
    BY <1>1, <2>1, <2>2, <2>3 DEF CodesInLoop, Counted
<1>6. ASSUME kind \in NewestKinds PROVE NewestInLoop'
  <2>1. NewestInLoop /\ kind \notin CodeKinds
    BY <1>1, <1>6 DEF PagedInv, NewestKinds, CodeKinds
  <2> QED
    BY <1>1, <1>6, <2>1, NewestGrow
<1> QED
  BY <1>1, <1>2, <1>3, <1>4, <1>5, <1>6 DEF PagedInv

\* After a delisting nothing is promised of a list of codes.
LEMMA DelistInv ==
  ASSUME PagedInv, NEW k \in 1 .. MaxListed, Delist(k)
  PROVE  PagedInv'
<1>1. /\ PagedTypeOK /\ load.pc = "page" /\ kind \in CodeKinds
      /\ listed' = listed \ {k} /\ kept' = kept \ {k} /\ grown' = grown + 1 /\ shrunk' = TRUE
      /\ UNCHANGED <<kind, version, load>>
  BY DEF PagedInv, Delist
<1>2. PagedTypeOK'
  <2>1. Elements' = Elements
    BY <1>1 DEF Elements
  <2> QED
    BY <1>1, <2>1 DEF PagedTypeOK
<1>3. DownloadComplete'
  BY <1>1 DEF DownloadComplete
<1>4. CodesInLoop'
  BY <1>1 DEF PagedInv, CodesInLoop
<1>5. kind' \notin NewestKinds /\ kind' # "block"
  BY <1>1 DEF CodeKinds, NewestKinds
<1> QED
  BY <1>2, <1>3, <1>4, <1>5 DEF PagedInv

LEMMA FileReplacedInv ==
  ASSUME PagedInv, FileReplaced
  PROVE  PagedInv'
<1>1. /\ PagedTypeOK /\ load.pc = "page" /\ kind \in FileKinds
      /\ version' = version + 1 /\ grown' = grown + 1
      /\ UNCHANGED <<kind, listed, shrunk, kept, load>>
  BY DEF PagedInv, FileReplaced
<1>2. PagedTypeOK'
  <2>1. Elements' = Elements
    BY <1>1 DEF Elements
  <2> QED
    BY <1>1, <2>1 DEF PagedTypeOK
<1>3. DownloadComplete'
  BY <1>1 DEF DownloadComplete
<1>4. BlockInLoop'
  BY <1>1 DEF BlockInLoop, PagedTypeOK
<1>5. kind' \notin NewestKinds /\ kind' \notin CodeKinds
  BY <1>1 DEF CodeKinds, NewestKinds, FileKinds
<1> QED
  BY <1>2, <1>3, <1>4, <1>5 DEF PagedInv

LEMMA PagedInitInv == PagedInit => PagedInv
<1> SUFFICES ASSUME PagedInit PROVE PagedInv
  OBVIOUS
<1>1. PICK n \in 0 .. MaxListed - 1 : listed = 1 .. n
  BY DEF PagedInit
<1>2. /\ kind \in Kinds /\ version = 1 /\ grown = 0 /\ shrunk = FALSE /\ kept = listed
      /\ n \in Nat /\ n <= MaxListed /\ MaxListed \in Nat
  BY <1>1, PagedConstants DEF PagedInit
<1>3. PICK from \in 0 .. MaxListed :
         load = [pc |-> "page", start |-> 0, from |-> from, got |-> <<>>, size |-> 0]
  BY DEF PagedInit
<1>4. /\ load.pc = "page" /\ load.start = 0 /\ load.got = <<>> /\ load.size = 0
      /\ <<>> \in Seq(Elements)
  BY <1>3
<1>5. PagedTypeOK
  <2>1. listed \in SUBSET (1 .. MaxListed) /\ kept \in SUBSET listed
    BY <1>1, <1>2
  <2>2. load \in [pc : {"page", "ok", "err"}, start : Nat, from : 0 .. MaxListed,
                  got : Seq(Elements), size : Nat]
    BY <1>3, <1>4
  <2>3. shrunk \in BOOLEAN
    BY <1>2
  <2>4. version \in Nat \ {0} /\ grown \in Nat
    BY <1>2
  <2> QED
    BY <1>2, <2>1, <2>2, <2>3, <2>4 DEF PagedTypeOK
<1>6. ToSet(load.got) = {} /\ Len(load.got) = 0 /\ Reverse(load.got) = <<>>
  BY <1>4 DEF ToSet, Reverse
<1>7. Count = n
  BY <1>1, <1>2, SortedInterval DEF Count
<1>8. Counted /\ \A s : Len(s) = 0 => Ordered(s)
  <2>1. Ahead = {}
    BY <1>6 DEF Ahead, AheadOf
  <2>2. Cardinality({}) = 0
    BY FS_EmptySet
  <2>3. Counted
    BY <1>2, <1>6, <2>1, <2>2 DEF Counted
  <2>4. \A s : Len(s) = 0 => Ordered(s)
    BY DEF Ordered
  <2> QED
    BY <2>3, <2>4
<1>9. CodesInLoop
  <2>1. \A j \in kept : Rank(j, listed) \in Nat
    BY <1>5, ListedFinite, RankType
  <2>2. \A j \in kept : ~ (Rank(j, listed) < 0)
    BY <2>1
  <2> QED
    BY <1>2, <1>4, <1>6, <1>8, <2>2 DEF CodesInLoop
<1>10. NewestInLoop
  <2>1. Ordered(load.got) /\ Ordered(Reverse(load.got))
    BY <1>4, <1>6, <1>8
  <2>2. \A j \in kept : ~ (Count - load.start < j)
    BY <1>1, <1>2, <1>4, <1>7
  <2> QED
    BY <1>1, <1>2, <1>4, <1>6, <1>7, <1>8, <2>1, <2>2 DEF NewestInLoop
<1>11. BlockInLoop
  <2>1. version \in Nat
    BY <1>2
  <2>2. FileSize(version) \in Nat \ {0}
    BY <2>1, FileFacts
  <2>3. SubSeq(File(version), 1, 0) = <<>>
    BY <2>1, FileFacts, SubSeqEmpty
  <2> QED
    BY <1>4, <2>2, <2>3 DEF BlockInLoop
<1>12. DownloadComplete
  BY <1>4 DEF DownloadComplete
<1> QED
  BY <1>5, <1>9, <1>10, <1>11, <1>12 DEF PagedInv

LEMMA RequestInv ==
  ASSUME PagedInv, Request
  PROVE  PagedInv'
<1>1. load.pc = "page" /\ UNCHANGED <<kind, listed, version, grown, shrunk, kept>>
  BY DEF Request
<1>2. CASE CodesPage
  BY <1>1, <1>2, CodesPageInv
<1>3. CASE TradesPage
  BY <1>1, <1>3, TradesPageInv
<1>4. CASE BarsPage
  BY <1>1, <1>4, BarsPageInv
<1>5. CASE IngestPage
  BY <1>1, <1>5, IngestPageInv
<1>6. CASE ExBarsPage
  BY <1>1, <1>6, ExBarsPageInv
<1>7. CASE ZhbChunk
  BY <1>1, <1>7, ZhbChunkInv
<1>8. CASE BlockChunk
  BY <1>1, <1>8, BlockChunkInv
<1>9. CASE Fail
  BY <1>1, <1>9, FailInv
<1> QED
  BY <1>2, <1>3, <1>4, <1>5, <1>6, <1>7, <1>8, <1>9 DEF Request

LEMMA PagedNextInv == PagedInv /\ [PagedNext]_pagedVars => PagedInv'
<1> SUFFICES ASSUME PagedInv, [PagedNext]_pagedVars PROVE PagedInv'
  OBVIOUS
<1>1. CASE Request
  BY <1>1, RequestInv
<1>2. ASSUME NEW k \in 1 .. MaxListed, ListGrows(k) PROVE PagedInv'
  BY <1>2, ListGrowsInv
<1>3. ASSUME NEW k \in 1 .. MaxListed, Delist(k) PROVE PagedInv'
  BY <1>3, DelistInv
<1>4. CASE FileReplaced
  BY <1>4, FileReplacedInv
<1>5. CASE UNCHANGED pagedVars
  <2>1. /\ kind' = kind /\ listed' = listed /\ version' = version /\ grown' = grown
        /\ shrunk' = shrunk /\ kept' = kept /\ load' = load
    BY <1>5 DEF pagedVars
  <2>2. Elements' = Elements /\ Count' = Count
    BY <2>1 DEF Elements, Count
  <2>3. PagedTypeOK'
    BY <2>1, <2>2 DEF PagedInv, PagedTypeOK
  <2>4. Counted' = Counted
    BY <2>1, <2>2 DEF Counted, Ahead, AheadOf
  <2>5. CodesInLoop => CodesInLoop'
    BY <2>1, <2>4 DEF CodesInLoop
  <2>6. NewestInLoop => NewestInLoop'
    BY <2>1, <2>2, <2>4 DEF NewestInLoop, Due, Ordered, Reverse
  <2>7. File(version)' = File(version) /\ FileSize(version)' = FileSize(version)
    BY <2>1 DEF File, FileSize
  <2>8. BlockInLoop => BlockInLoop'
    BY <2>1, <2>7 DEF BlockInLoop
  <2>9. DownloadComplete => DownloadComplete'
    BY <2>1 DEF DownloadComplete, Doubled, Ordered, Reverse, File, FileSize
  <2> QED
    BY <2>1, <2>3, <2>5, <2>6, <2>8, <2>9 DEF PagedInv
<1> QED
  BY <1>1, <1>2, <1>3, <1>4, <1>5 DEF PagedNext

\* What a loop of pages returns with success is complete and in order, and
\* holds an element twice at most as often as the server's list grew, however
\* long the list, the page and the download are.
THEOREM DownloadsAreComplete == PagedSpec => []DownloadComplete
<1>1. PagedInv => DownloadComplete
  BY DEF PagedInv
<1> QED
  BY <1>1, PagedInitInv, PagedNextInv, PTL DEF PagedSpec

(***************************************************************************)
(* Recursion over an interval.                                             *)
(***************************************************************************)
LEMMA IntervalInduction ==
  ASSUME NEW n \in Nat, NEW S, 0 \in S, \A i \in 1 .. n : i - 1 \in S => i \in S
  PROVE  \A i \in 0 .. n : i \in S
<1> DEFINE T == {i \in 0 .. n : i \notin S}
           R == OpToRel(<, Nat)
<1> SUFFICES ASSUME T # {} PROVE FALSE
  OBVIOUS
<1>1. T \subseteq Nat
  OBVIOUS
<1>2. PICK t \in T : \A u \in T : ~ (<<u, t>> \in R)
  <2> HIDE DEF T, R
  <2> QED
    BY <1>1, NatLessThanWellFounded, WFMin DEF R
<1>3. t \in 1 .. n /\ t - 1 \in 0 .. n /\ t - 1 < t /\ t - 1 \in Nat /\ t \in Nat
  OBVIOUS
<1>4. t - 1 \in S
  <2> SUFFICES ASSUME t - 1 \notin S PROVE FALSE
    OBVIOUS
  <2>1. t - 1 \in T
    BY <1>3
  <2>2. <<t - 1, t>> \in R
    BY <1>3 DEF OpToRel
  <2> QED
    BY <1>2, <2>1, <2>2
<1> QED
  BY <1>3, <1>4

\* f begins with base, and every later value is made of the one before.
Steps(f, n, T, base, step) ==
    /\ f \in [0 .. n -> T]
    /\ f[0] = base
    /\ \A i \in 1 .. n : f[i] = step[i][f[i - 1]]

LEMMA StepsExist ==
  ASSUME NEW n \in Nat, NEW T, NEW base \in T, NEW step \in [1 .. n -> [T -> T]]
  PROVE  \E f : Steps(f, n, T, base, step)
<1> DEFINE Upto(m, f) == f \in [0 .. m -> T] /\ f[0] = base
                         /\ \A i \in 1 .. m : f[i] = step[i][f[i - 1]]
           S == {m \in 0 .. n : \E f : Upto(m, f)}
<1>1. 0 \in S
  <2> DEFINE f == [i \in 0 .. 0 |-> base]
  <2>1. Upto(0, f)
    OBVIOUS
  <2>2. \E g : Upto(0, g)
    <3> HIDE DEF f, Upto
    <3> QED
      BY <2>1
  <2> QED
    BY <2>2
<1>2. ASSUME NEW m \in 1 .. n, m - 1 \in S PROVE m \in S
  <2>1. PICK f : Upto(m - 1, f)
    BY <1>2
  <2>2. f[m - 1] \in T /\ m \in 1 .. n /\ m \in Nat
    BY <2>1
  <2> DEFINE g == [i \in 0 .. m |-> IF i = m THEN step[m][f[m - 1]] ELSE f[i]]
  <2>3. step[m][f[m - 1]] \in T
    BY <2>2
  <2>4. \A i \in 0 .. m : i # m => i \in 0 .. m - 1
    BY <2>2
  <2>5. g \in [0 .. m -> T]
    BY <2>1, <2>3, <2>4
  <2>6. g[0] = base
    BY <2>1, <2>2
  <2>7. ASSUME NEW i \in 1 .. m PROVE g[i] = step[i][g[i - 1]]
    <3>1. i - 1 \in 0 .. m /\ i - 1 # m /\ i \in 0 .. m
      BY <2>2
    <3>2. g[i - 1] = f[i - 1]
      BY <3>1
    <3>3. CASE i = m
      BY <3>1, <3>2, <3>3
    <3>4. CASE i # m
      <4>1. i \in 1 .. m - 1
        BY <2>2, <3>4
      <4>2. f[i] = step[i][f[i - 1]]
        BY <2>1, <4>1
      <4> QED
        BY <3>1, <3>2, <3>4, <4>2
    <3> QED
      BY <3>3, <3>4
  <2>8. Upto(m, g)
    <3> HIDE DEF g
    <3> QED
      BY <2>5, <2>6, <2>7
  <2>9. \E h : Upto(m, h)
    <3> HIDE DEF g, Upto
    <3> QED
      BY <2>8
  <2> QED
    BY <2>2, <2>9
<1>3. n \in S
  <2>1. \A i \in 1 .. n : i - 1 \in S => i \in S
    BY <1>2
  <2>2. n \in 0 .. n
    OBVIOUS
  <2> HIDE DEF S
  <2> QED
    BY <1>1, <2>1, <2>2, IntervalInduction
<1>4. PICK f : Upto(n, f)
  BY <1>3
<1> QED
  BY <1>4 DEF Steps

(***************************************************************************)
(* Price adjustment.                                                       *)
(***************************************************************************)
AdjustTypeOK ==
    /\ days \in SUBSET (1 .. LastDay)
    /\ events \in [1 .. LastEvent -> Events \cup {NoEvent}]

Maps   == [mul : Nat \ {0}, den : Nat \ {0}, minus : Int]
Prices == [num : Int, den : Nat \ {0}]

LEMMA EventNumbers ==
  /\ LastEvent \in Nat /\ Portions \in Nat \ {0}
  /\ \A d \in 1 .. LastDay : DayEnd(d) \in 1 .. LastEvent
  /\ \A d, e \in 1 .. LastDay : d <= e => DayEnd(d) <= DayEnd(e)
<1>1. /\ LastDay \in Nat /\ PerDay \in Nat \ {0} /\ Portions \in Nat \ {0}
  BY AdjustConstants
<1>2. LastDay * PerDay \in Nat
  BY <1>1
<1>3. ASSUME NEW d \in 1 .. LastDay, NEW e \in 1 .. LastDay, d <= e
      PROVE  d * PerDay <= e * PerDay
  <2>1. e * PerDay = d * PerDay + (e - d) * PerDay
    BY <1>1
  <2>2. (e - d) * PerDay \in Nat /\ d * PerDay \in Nat
    BY <1>1, <1>3
  <2> QED
    BY <2>1, <2>2
<1>4. ASSUME NEW d \in 1 .. LastDay PROVE d * PerDay \in 1 .. LastDay * PerDay
  <2>1. LastDay * PerDay = d * PerDay + (LastDay - d) * PerDay
    BY <1>1
  <2>2. (LastDay - d) * PerDay \in Nat /\ d * PerDay \in Nat \ {0}
    BY <1>1
  <2> QED
    BY <2>1, <2>2
<1> QED
  BY <1>1, <1>2, <1>3, <1>4 DEF LastEvent, DayEnd

LEMMA EventType ==
  ASSUME AdjustTypeOK, NEW d \in 1 .. LastEvent
  PROVE  events[d].m \in Nat \ {0} /\ events[d].c \in Int
<1>1. events[d] \in Events \cup {NoEvent}
  BY DEF AdjustTypeOK
<1>2. NoEvent.m = Portions /\ NoEvent.c = 0
  BY DEF NoEvent
<1> QED
  BY <1>1, <1>2, AdjustConstants

LEMMA ProductType ==
  ASSUME NEW a \in Nat \ {0}, NEW b \in Nat \ {0}
  PROVE  a * b \in Nat \ {0}
OBVIOUS

LEMMA CompoundType ==
  ASSUME AdjustTypeOK, NEW d \in 1 .. LastEvent, NEW x \in Maps
  PROVE  Compound(x, events[d]) \in Maps
<1>1. /\ x.mul \in Nat \ {0} /\ x.den \in Nat \ {0} /\ x.minus \in Int
      /\ events[d].m \in Nat \ {0} /\ events[d].c \in Int /\ Portions \in Nat \ {0}
  BY EventType, AdjustConstants DEF Maps
<1>2. /\ x.mul * Portions \in Nat \ {0} /\ x.den * events[d].m \in Nat \ {0}
      /\ x.minus * events[d].m + x.mul * events[d].c \in Int
  BY <1>1, ProductType
<1> QED
  BY <1>2 DEF Compound, Maps

LEMMA PreOfType ==
  ASSUME AdjustTypeOK, NEW d \in 1 .. LastEvent, NEW x \in Prices
  PROVE  PreOf(events[d], x) \in Prices
<1>1. /\ x.den \in Nat \ {0} /\ x.num \in Int
      /\ events[d].m \in Nat \ {0} /\ events[d].c \in Int /\ Portions \in Nat \ {0}
  BY EventType, AdjustConstants DEF Prices
<1>2. x.den * events[d].m \in Nat \ {0} /\ Portions * x.num - events[d].c * x.den \in Int
  BY <1>1, ProductType
<1> QED
  BY <1>2 DEF PreOf, Prices

\* The maps of Factors, one day after the other back from the newest.
LEMMA EventMapsFacts ==
  ASSUME AdjustTypeOK, NEW newest \in 0 .. LastEvent, NEW ex \in SUBSET (1 .. LastEvent)
  PROVE  LET map == EventMaps(ex, newest)
         IN /\ map \in [0 .. newest -> Maps]
            /\ map[0] = Identity
            /\ \A i \in 1 .. newest :
                  map[i] = IF newest - (i - 1) \in ex
                           THEN Compound(map[i - 1], events[newest - (i - 1)]) ELSE map[i - 1]
<1> DEFINE Step(i, x) == IF newest - (i - 1) \in ex
                         THEN Compound(x, events[newest - (i - 1)]) ELSE x
           F(g) == [i \in 0 .. newest |-> IF i = 0 THEN Identity ELSE Step(i, g[i - 1])]
           step == [i \in 1 .. newest |-> [x \in Maps |-> Step(i, x)]]
           map == EventMaps(ex, newest)
<1>1. newest \in Nat /\ Identity \in Maps
  BY EventNumbers DEF Identity, Maps
<1>2. ASSUME NEW i \in 1 .. newest, NEW x \in Maps PROVE Step(i, x) \in Maps
  <2>1. newest - (i - 1) \in 1 .. LastEvent
    BY <1>1, EventNumbers
  <2> QED
    BY <2>1, CompoundType
<1> HIDE DEF Step
<1>3. step \in [1 .. newest -> [Maps -> Maps]]
  BY <1>2
<1>4. PICK f : Steps(f, newest, Maps, Identity, step)
  <2> HIDE DEF step
  <2> QED
    BY <1>1, <1>3, StepsExist
<1>5. f = F(f)
  <2>0. /\ f \in [0 .. newest -> Maps] /\ f[0] = Identity
        /\ \A i \in 1 .. newest : f[i] = step[i][f[i - 1]]
    <3> HIDE DEF step
    <3> QED
      BY <1>4 DEF Steps
  <2>1. ASSUME NEW i \in 0 .. newest, i # 0 PROVE f[i] = Step(i, f[i - 1])
    <3>1. i \in 1 .. newest /\ i - 1 \in 0 .. newest
      BY <1>1, <2>1
    <3>2. f[i - 1] \in Maps /\ f[i] = step[i][f[i - 1]]
      <4> HIDE DEF step
      <4> QED
        BY <2>0, <3>1
    <3> QED
      BY <3>1, <3>2
  <2>2. \A i \in 0 .. newest : f[i] = IF i = 0 THEN Identity ELSE Step(i, f[i - 1])
    BY <2>0, <2>1
  <2> QED
    BY <2>0, <2>2
<1>6. map = CHOOSE g : g = F(g)
  BY DEF EventMaps, Step
<1>7. map = F(map)
  <2> HIDE DEF F, map
  <2> QED
    BY <1>5, <1>6
<1> HIDE DEF map
<1>8. /\ map[0] = Identity
      /\ \A i \in 1 .. newest : map[i] = Step(i, map[i - 1])
  <2>1. 0 \in 0 .. newest /\ \A i \in 1 .. newest : i \in 0 .. newest /\ i # 0
    BY <1>1
  <2> QED
    BY <1>7, <2>1
<1>9. \A i \in 0 .. newest : map[i] \in Maps
  <2> DEFINE S == {i \in 0 .. newest : map[i] \in Maps}
  <2>1. 0 \in S
    BY <1>1, <1>8
  <2>2. ASSUME NEW i \in 1 .. newest, i - 1 \in S PROVE i \in S
    BY <1>1, <1>2, <1>8, <2>2
  <2>3. \A i \in 0 .. newest : i \in S
    <3> HIDE DEF S
    <3> QED
      BY <1>1, <2>1, <2>2, IntervalInduction
  <2> QED
    BY <2>3
<1>10. map \in [0 .. newest -> Maps]
  BY <1>7, <1>9
<1> QED
  BY <1>8, <1>10 DEF Step, map

\* What the events of some days make of a price, day after day.
Taken(after, price, ex, first, last) ==
    /\ after \in [0 .. last - first -> Prices]
    /\ after[0] = price
    /\ PriceAfter(price, ex, first, last) = after[last - first]
    /\ \A i \in 1 .. last - first :
          after[i] = IF first + i \in ex THEN PreOf(events[first + i], after[i - 1])
                     ELSE after[i - 1]

LEMMA PriceAfterFacts ==
  ASSUME AdjustTypeOK, NEW first \in 1 .. LastEvent, NEW last \in 1 .. LastEvent, first <= last,
         NEW ex \in SUBSET (1 .. LastEvent), NEW price \in Prices
  PROVE  \E after : Taken(after, price, ex, first, last)
<1> DEFINE n == last - first
           Step(i, x) == IF first + i \in ex THEN PreOf(events[first + i], x) ELSE x
           F(g) == [i \in 0 .. n |-> IF i = 0 THEN price ELSE Step(i, g[i - 1])]
           step == [i \in 1 .. n |-> [x \in Prices |-> Step(i, x)]]
           after == CHOOSE g : g = F(g)
<1>1. n \in Nat
  BY EventNumbers
<1>2. ASSUME NEW i \in 1 .. n, NEW x \in Prices PROVE Step(i, x) \in Prices
  <2>1. first + i \in 1 .. LastEvent
    BY <1>1, EventNumbers
  <2> QED
    BY <2>1, PreOfType
<1>3. PriceAfter(price, ex, first, last) = after[n]
  BY DEF PriceAfter
<1> HIDE DEF Step, n
<1>4. step \in [1 .. n -> [Prices -> Prices]]
  BY <1>2
<1>5. PICK f : Steps(f, n, Prices, price, step)
  <2> HIDE DEF step
  <2> QED
    BY <1>1, <1>4, StepsExist
<1>6. f = F(f)
  <2>1. /\ f \in [0 .. n -> Prices] /\ f[0] = price
        /\ \A i \in 1 .. n : f[i] = step[i][f[i - 1]]
    <3> HIDE DEF step
    <3> QED
      BY <1>5 DEF Steps
  <2>2. ASSUME NEW i \in 0 .. n, i # 0 PROVE f[i] = Step(i, f[i - 1])
    <3>1. i \in 1 .. n /\ i - 1 \in 0 .. n
      BY <1>1, <2>2
    <3>2. f[i - 1] \in Prices /\ f[i] = step[i][f[i - 1]]
      <4> HIDE DEF step
      <4> QED
        BY <2>1, <3>1
    <3> QED
      BY <3>1, <3>2
  <2>3. \A i \in 0 .. n : f[i] = IF i = 0 THEN price ELSE Step(i, f[i - 1])
    BY <2>1, <2>2
  <2> QED
    BY <2>1, <2>3
<1>7. after = F(after)
  <2> HIDE DEF F
  <2> QED
    BY <1>6
<1> HIDE DEF after
<1>8. after[0] = price /\ \A i \in 1 .. n : after[i] = Step(i, after[i - 1])
  <2>1. 0 \in 0 .. n /\ \A i \in 1 .. n : i \in 0 .. n /\ i # 0
    BY <1>1
  <2> QED
    BY <1>7, <2>1
<1>9. \A i \in 0 .. n : after[i] \in Prices
  <2> DEFINE S == {i \in 0 .. n : after[i] \in Prices}
  <2>1. 0 \in S
    BY <1>1, <1>8
  <2>2. ASSUME NEW i \in 1 .. n, i - 1 \in S PROVE i \in S
    BY <1>1, <1>2, <1>8, <2>2
  <2>3. \A i \in 0 .. n : i \in S
    <3> HIDE DEF S
    <3> QED
      BY <1>1, <2>1, <2>2, IntervalInduction
  <2> QED
    BY <2>3
<1>10. after \in [0 .. n -> Prices]
  BY <1>7, <1>9
<1>11. Taken(after, price, ex, first, last)
  BY <1>3, <1>8, <1>10 DEF Step, n, Taken
<1> QED
  BY <1>11

\* The map before an event is that after it with the event compounded.
LEMMA OneEvent ==
  ASSUME NEW p \in Prices, NEW x \in Maps, NEW e, e.m \in Int, e.c \in Int
  PROVE  /\ x.mul * PreOf(e, p).num - x.minus * PreOf(e, p).den
               = Compound(x, e).mul * p.num - Compound(x, e).minus * p.den
         /\ PreOf(e, p).den * x.den = p.den * Compound(x, e).den
<1>1. PICK num \in Int, den \in Int, mul \in Int, minus \in Int, back \in Int, m \in Int, c \in Int,
           k \in Int :
         /\ num = p.num /\ den = p.den /\ mul = x.mul /\ minus = x.minus /\ back = x.den
         /\ m = e.m /\ c = e.c /\ k = Portions
  <2>1. /\ p.num \in Int /\ p.den \in Int /\ x.mul \in Int /\ x.minus \in Int /\ x.den \in Int
        /\ e.m \in Int /\ e.c \in Int /\ Portions \in Int
    BY AdjustConstants DEF Prices, Maps
  <2> QED
    BY ONLY <2>1, Zenon
<1>2. /\ PreOf(e, p).num = k * num - c * den /\ PreOf(e, p).den = den * m
      /\ Compound(x, e).mul = mul * k
      /\ Compound(x, e).minus = minus * m + mul * c /\ Compound(x, e).den = back * m
  BY <1>1 DEF PreOf, Compound
<1>3. /\ mul * (k * num - c * den) - minus * (den * m)
            = (mul * k) * num - (minus * m + mul * c) * den
      /\ (den * m) * back = den * (back * m)
  <2>1. mul * (k * num - c * den) = mul * (k * num) - mul * (c * den)
    OBVIOUS
  <2>2. (minus * m + mul * c) * den = (minus * m) * den + (mul * c) * den
    OBVIOUS
  <2>3. /\ mul * (k * num) = (mul * k) * num /\ mul * (c * den) = (mul * c) * den
        /\ minus * (den * m) = (minus * m) * den /\ (den * m) * back = den * (back * m)
    OBVIOUS
  <2>4. PICK a \in Int, b \in Int, d \in Int : a = (mul * k) * num /\ b = (mul * c) * den /\ d = (minus * m) * den
    OBVIOUS
  <2>5. (a - b) - d = a - (d + b)
    OBVIOUS
  <2> QED
    BY <2>1, <2>2, <2>3, <2>4, <2>5
<1> QED
  BY <1>1, <1>2, <1>3

\* Taking the events after one up to a later one is what the map after the later
\* says of the price it makes, compared to that after the earlier.
LEMMA TakeAll ==
  ASSUME AdjustTypeOK, NEW newest \in 1 .. LastEvent,
         NEW first \in 1 .. LastEvent, NEW last \in 1 .. LastEvent, first <= last, last <= newest,
         NEW known \in SUBSET (1 .. LastEvent), NEW ex \in SUBSET (1 .. LastEvent),
         \A d \in 1 .. newest : d \in known <=> d \in ex,
         NEW price \in Prices
  PROVE  LET map == EventMaps(known, newest)
             early == map[newest - first]
             late == map[newest - last]
             q == PriceAfter(price, ex, first, last)
         IN /\ q \in Prices /\ early \in Maps /\ late \in Maps
            /\ late.mul * q.num - late.minus * q.den = early.mul * price.num - early.minus * price.den
            /\ q.den * late.den = price.den * early.den
<1> DEFINE map == EventMaps(known, newest)
           n == last - first
           at(i) == map[newest - (first + i)]
<1>1. n \in Nat /\ newest \in Nat /\ newest \in 0 .. LastEvent
  BY EventNumbers
<1>2. /\ map \in [0 .. newest -> Maps]
      /\ \A i \in 1 .. newest :
            map[i] = IF newest - (i - 1) \in known
                     THEN Compound(map[i - 1], events[newest - (i - 1)]) ELSE map[i - 1]
  BY <1>1, EventMapsFacts
<1> HIDE DEF map
<1>30. PICK after : Taken(after, price, ex, first, last)
  BY PriceAfterFacts
<1>3. /\ after \in [0 .. n -> Prices] /\ after[0] = price
      /\ PriceAfter(price, ex, first, last) = after[n]
      /\ \A i \in 1 .. n :
            after[i] = IF first + i \in ex THEN PreOf(events[first + i], after[i - 1])
                       ELSE after[i - 1]
  BY <1>30 DEF Taken
<1>4. \A i \in 0 .. n : at(i) \in Maps /\ after[i] \in Prices
  <2>1. \A i \in 0 .. n : newest - (first + i) \in 0 .. newest
    BY <1>1
  <2> QED
    BY <1>2, <1>3, <2>1
<1>5. ASSUME NEW i \in 1 .. n
      PROVE  /\ at(i).mul * after[i].num - at(i).minus * after[i].den
                  = at(i - 1).mul * after[i - 1].num - at(i - 1).minus * after[i - 1].den
             /\ after[i].den * at(i).den = after[i - 1].den * at(i - 1).den
  <2> DEFINE d == first + i
             back == newest - (first + (i - 1))
             x == at(i)
             p == after[i - 1]
  <2>1. /\ d \in 1 .. newest /\ d \in 1 .. LastEvent /\ back \in 1 .. newest
        /\ back - 1 = newest - d /\ newest - (back - 1) = d
        /\ i \in 0 .. n /\ i - 1 \in 0 .. n
    <3>1. first \in Int /\ last \in Int /\ i \in Int /\ 1 <= i /\ i <= last - first
          /\ 1 <= first /\ last <= newest /\ newest <= LastEvent /\ LastEvent \in Int
      BY <1>1, EventNumbers
    <3> QED
      BY <1>1, <3>1
  <2>2. x \in Maps /\ p \in Prices
    BY <1>4, <2>1
  <2>3. map[back] = IF d \in known THEN Compound(map[back - 1], events[d]) ELSE map[back - 1]
    BY <1>2, <2>1
  <2>4. at(i - 1) = IF d \in known THEN Compound(x, events[d]) ELSE x
    BY <2>1, <2>3
  <2>5. after[i] = IF d \in ex THEN PreOf(events[d], p) ELSE p
    BY <1>3
  <2>6. CASE d \in ex
    <3>1. at(i - 1) = Compound(x, events[d]) /\ after[i] = PreOf(events[d], p)
      BY <2>1, <2>4, <2>5, <2>6
    <3>2. events[d].m \in Int /\ events[d].c \in Int
      BY <2>1, EventType
    <3> HIDE DEF x, p, at, d
    <3>3. /\ x.mul * PreOf(events[d], p).num - x.minus * PreOf(events[d], p).den
                = Compound(x, events[d]).mul * p.num - Compound(x, events[d]).minus * p.den
          /\ PreOf(events[d], p).den * x.den = p.den * Compound(x, events[d]).den
      BY <2>2, <3>2, OneEvent
    <3> QED
      BY <3>1, <3>3 DEF x, p
  <2>7. CASE d \notin ex
    BY <2>1, <2>4, <2>5, <2>7
  <2> QED
    BY <2>6, <2>7
<1> HIDE DEF at
<1>6. \A i \in 0 .. n : /\ at(i).mul * after[i].num - at(i).minus * after[i].den
                             = at(0).mul * after[0].num - at(0).minus * after[0].den
                        /\ after[i].den * at(i).den = after[0].den * at(0).den
  <2> DEFINE S == {i \in 0 .. n : /\ at(i).mul * after[i].num - at(i).minus * after[i].den
                                       = at(0).mul * after[0].num - at(0).minus * after[0].den
                                  /\ after[i].den * at(i).den = after[0].den * at(0).den}
  <2>1. 0 \in S
    BY <1>1
  <2>2. ASSUME NEW i \in 1 .. n, i - 1 \in S PROVE i \in S
    <3>1. i \in 0 .. n
      BY <1>1
    <3> QED
      BY <1>5, <2>2, <3>1
  <2>3. \A i \in 0 .. n : i \in S
    <3> HIDE DEF S
    <3> QED
      BY <1>1, <2>1, <2>2, IntervalInduction
  <2> QED
    BY <2>3
<1>7. first + 0 = first /\ first + n = last /\ n \in 0 .. n /\ 0 \in 0 .. n
  BY <1>1
<1>8. at(0) = map[newest - first] /\ at(n) = map[newest - last]
  <2> HIDE DEF n
  <2> QED
    BY <1>7 DEF at
<1>9. PriceAfter(price, ex, first, last) = after[n] /\ after[0] = price
  BY <1>3
<1>10. at(0) \in Maps /\ at(n) \in Maps /\ after[n] \in Prices
  BY <1>4, <1>7
<1>11. /\ at(n).mul * after[n].num - at(n).minus * after[n].den
            = at(0).mul * after[0].num - at(0).minus * after[0].den
       /\ after[n].den * at(n).den = after[0].den * at(0).den
  BY <1>6, <1>7
<1> HIDE DEF n
<1> QED
  BY <1>8, <1>9, <1>10, <1>11 DEF map

LEMMA MinOfPlaces ==
  ASSUME NEW n \in Nat, NEW S \in SUBSET (1 .. n), S # {}
  PROVE  Min(S) \in S /\ \A k \in S : Min(S) <= k
<1> DEFINE R == OpToRel(<, Nat)
<1>1. S \subseteq Nat
  OBVIOUS
<1>2. PICK t \in S : \A u \in S : ~ (<<u, t>> \in R)
  <2> HIDE DEF R
  <2> QED
    BY <1>1, NatLessThanWellFounded, WFMin DEF R
<1>3. \A u \in S : t <= u
  <2> SUFFICES ASSUME NEW u \in S, u < t PROVE FALSE
    BY <1>1
  <2>1. <<u, t>> \in R
    BY <1>1 DEF OpToRel
  <2> QED
    BY <1>2, <2>1
<1>4. \E x \in S : \A y \in S : x <= y
  BY <1>3
<1> QED
  BY <1>4 DEF Min

\* What holds of products with a factor holds without it.
LEMMA CancelFactor ==
  ASSUME NEW f \in Nat \ {0}, NEW a \in Int, NEW b \in Int, f * a <= f * b
  PROVE  a <= b
<1> SUFFICES ASSUME a >= b + 1 PROVE FALSE
  OBVIOUS
<1>1. f * a >= f * (b + 1)
  BY SMT
<1>2. f * (b + 1) = f * b + f
  BY SMT
<1>3. f * a \in Int /\ f * b \in Int
  OBVIOUS
<1> QED
  BY <1>1, <1>2, <1>3

\* The prices of one bar.
LEMMA BarComposes ==
  ASSUME AdjustTypeOK, NEW newest \in 1 .. LastEvent, NEW oldest \in 1 .. newest,
         NEW d \in oldest .. newest,
         NEW known \in SUBSET (1 .. LastEvent), NEW ex \in SUBSET (1 .. LastEvent),
         \A e \in 1 .. newest : e \in known <=> e \in ex,
         NEW p \in Int
  PROVE  LET map == EventMaps(known, newest)
             own == map[newest - d]
             old == map[newest - oldest]
             raw == [num |-> p, den |-> 1]
             forward == [num |-> own.mul * p - own.minus, den |-> own.den]
             backward == [num |-> old.den * forward.num + old.minus * own.den,
                          den |-> own.den * old.mul]
         IN /\ SamePrice(forward, PriceAfter(raw, ex, d, newest))
            /\ SamePrice(PriceAfter(backward, ex, oldest, d), raw)
<1> DEFINE map == EventMaps(known, newest)
           own == map[newest - d]
           old == map[newest - oldest]
           raw == [num |-> p, den |-> 1]
           forward == [num |-> own.mul * p - own.minus, den |-> own.den]
           backward == [num |-> old.den * forward.num + old.minus * own.den,
                        den |-> own.den * old.mul]
           q == PriceAfter(raw, ex, d, newest)
           r == PriceAfter(backward, ex, oldest, d)
<1>1. /\ newest \in 0 .. LastEvent /\ newest \in Nat
      /\ d \in 1 .. LastEvent /\ oldest \in 1 .. LastEvent
      /\ d <= newest /\ oldest <= d
  BY EventNumbers
<1>2. /\ map \in [0 .. newest -> Maps] /\ map[0] = Identity
  BY <1>1, EventMapsFacts
<1> HIDE DEF map
<1>3. newest - newest = 0 /\ newest - d \in 0 .. newest /\ newest - oldest \in 0 .. newest
  BY <1>1
<1>4. own \in Maps /\ old \in Maps /\ raw \in Prices
  BY <1>2, <1>3 DEF Prices
<1>5. PICK u \in Nat \ {0}, a \in Nat \ {0}, b \in Int, M \in Nat \ {0}, A \in Nat \ {0}, B \in Int :
         /\ u = own.mul /\ a = own.den /\ b = own.minus
         /\ M = old.mul /\ A = old.den /\ B = old.minus
  BY <1>4 DEF Maps
<1> DEFINE f == u * p - b
<1>6. f \in Int /\ forward = [num |-> f, den |-> a]
  BY <1>5
<1>7. backward = [num |-> A * f + B * a, den |-> a * M] /\ backward \in Prices
  <2>1. A * f + B * a \in Int /\ a * M \in Nat \ {0}
    BY <1>5, <1>6, ProductType
  <2>2. backward = [num |-> A * forward.num + B * a, den |-> a * M]
    BY <1>5
  <2> HIDE DEF backward, f, forward
  <2>3. backward = [num |-> A * f + B * a, den |-> a * M]
    BY <1>6, <2>2
  <2> QED
    BY <2>1, <2>3 DEF Prices
<1> HIDE DEF own, old, raw, backward, forward
<1>8. SamePrice(forward, q)
  <2>1. /\ map[newest - newest].mul * q.num - map[newest - newest].minus * q.den
              = own.mul * raw.num - own.minus * raw.den
        /\ q.den * map[newest - newest].den = raw.den * own.den
        /\ q \in Prices
    <3> HIDE DEF q
    <3> QED
      BY <1>1, <1>4, TakeAll DEF map, own, q
  <2>2. /\ map[newest - newest].mul = 1 /\ map[newest - newest].minus = 0
        /\ map[newest - newest].den = 1
    BY <1>2, <1>3 DEF Identity
  <2>3. raw.num = p /\ raw.den = 1
    BY DEF raw
  <2> HIDE DEF q
  <2>4. PICK m \in Int, n \in Int : m = q.num /\ n = q.den
    BY <2>1 DEF Prices
  <2>5. 1 * m - 0 * n = u * p - b * 1 /\ n * 1 = 1 * a
    BY <1>5, <2>1, <2>2, <2>3, <2>4
  <2>6. m = f /\ n = a
    BY <2>5
  <2> HIDE DEF f
  <2>7. forward.num = f /\ forward.den = a
    BY <1>6
  <2> QED
    BY <2>4, <2>6, <2>7 DEF SamePrice
<1>9. SamePrice(r, raw)
  <2>1. /\ own.mul * r.num - own.minus * r.den = old.mul * backward.num - old.minus * backward.den
        /\ r.den * own.den = backward.den * old.den
        /\ r \in Prices
    <3> HIDE DEF r
    <3> QED
      BY <1>1, <1>7, TakeAll DEF map, own, old, r
  <2> HIDE DEF r
  <2>2. PICK m \in Int, n \in Int : m = r.num /\ n = r.den
    BY <2>1 DEF Prices
  <2>3. backward.num = A * f + B * a /\ backward.den = a * M
    <3> HIDE DEF f
    <3> QED
      BY <1>7
  <2>4. u * m - b * n = M * (A * f + B * a) - B * (a * M) /\ n * a = (a * M) * A
    <3> HIDE DEF f
    <3> QED
      BY <1>5, <2>1, <2>2, <2>3
  <2>5. n = M * A
    <3>1. a * n = a * (M * A)
      BY <2>4
    <3>2. a * n <= a * (M * A) /\ a * (M * A) <= a * n
      BY <3>1
    <3>3. M * A \in Int
      OBVIOUS
    <3>4. n <= M * A /\ M * A <= n
      BY <3>2, <3>3, CancelFactor
    <3> QED
      BY <3>3, <3>4
  <2>6. u * m = u * (p * n)
    <3>1. M * (A * f + B * a) - B * (a * M) = n * f
      <4>1. M * (A * f + B * a) - B * (a * M) = (M * A) * f
        <5> HIDE DEF f
        <5> QED
          BY <1>6
      <4> QED
        BY <2>5, <4>1
    <3>2. n * f = n * (u * p) - b * n
      OBVIOUS
    <3>3. u * m - b * n = n * (u * p) - b * n
      BY <2>4, <3>1, <3>2
    <3>4. n * (u * p) = u * (p * n)
      OBVIOUS
    <3> HIDE DEF f
    <3>5. u * m \in Int /\ b * n \in Int /\ n * (u * p) \in Int
      OBVIOUS
    <3> QED
      BY <3>3, <3>4, <3>5
  <2>7. m = p * n
    <3>1. u * m <= u * (p * n) /\ u * (p * n) <= u * m
      BY <2>6
    <3>2. p * n \in Int
      OBVIOUS
    <3>3. m <= p * n /\ p * n <= m
      BY <3>1, <3>2, CancelFactor
    <3> QED
      BY <3>2, <3>3
  <2>8. r.num = p * r.den /\ r.den \in Int
    BY <2>2, <2>7
  <2>9. raw.num = p /\ raw.den = 1
    BY DEF raw
  <2> QED
    BY <2>8, <2>9 DEF SamePrice
<1> HIDE DEF q, r
<1> QED
  BY <1>8, <1>9 DEF q, r, forward, backward, raw, own, old, map

(***************************************************************************)
(* What Adjust returns.                                                    *)
(***************************************************************************)
\* AdjustComposes of given events and a given answer.
PriceWith(evs, price, ex, first, last) ==
    LET after[i \in 0 .. last - first] ==
            IF i = 0 THEN price
            ELSE IF first + i \in ex THEN PreOf(evs[first + i], after[i - 1])
            ELSE after[i - 1]
    IN after[last - first]

ComposesWith(evs, ans) ==
    ans.qfq # <<>> =>
        LET shown == DOMAIN ans.qfq
            ex   == {e \in 1 .. LastEvent : evs[e].kind = "xrxd"}
            raw(p) == [num |-> p, den |-> 1]
        IN \A d \in shown, p \in RawPrices :
             /\ SamePrice(ans.qfq[d][p], PriceWith(evs, raw(p), ex, DayEnd(d), DayEnd(Max(shown))))
             /\ SamePrice(PriceWith(evs, ans.hfq[d][p], ex, DayEnd(Min(shown)), DayEnd(d)), raw(p))

LEMMA AdjustStep ==
  ASSUME AdjustTypeOK, NEW asOf \in 1 .. LastDay, Adjust(asOf)
  PROVE  ComposesWith(events, answer')
<1> DEFINE shown == {d \in days : d <= asOf}
           known == Effective(ExRights(asOf), shown)
           newest == Max(shown)
           oldest == Min(shown)
           last == DayEnd(newest)
           first == DayEnd(oldest)
           map == EventMaps(known, last)
           qfq == Forward(ExRights(asOf), shown)
           ex == {e \in 1 .. LastEvent : events[e].kind = "xrxd"}
<1>1. UNCHANGED <<days, events>> /\ LastDay \in Nat
  BY AdjustConstants DEF Adjust
<1>2. \/ answer'.qfq = <<>>
      \/ /\ shown # {}
         /\ answer' = [asOf |-> asOf, error |-> FALSE,
                       qfq |-> [d \in shown |-> [p \in RawPrices |-> ForwardAt(qfq, d, p)]],
                       hfq |-> [d \in shown |-> [p \in RawPrices |-> BackwardAt(qfq, d, p)]]]
  BY DEF Adjust, NoAnswer
<1>3. CASE answer'.qfq = <<>>
  BY <1>3 DEF ComposesWith
<1>4. ASSUME shown # {},
             answer' = [asOf |-> asOf, error |-> FALSE,
                        qfq |-> [d \in shown |-> [p \in RawPrices |-> ForwardAt(qfq, d, p)]],
                        hfq |-> [d \in shown |-> [p \in RawPrices |-> BackwardAt(qfq, d, p)]]]
      PROVE  ComposesWith(events, answer')
  <2>1. shown \in SUBSET (1 .. LastDay)
    BY DEF AdjustTypeOK
  <2>2. /\ newest \in shown /\ \A d \in shown : d <= newest
        /\ oldest \in shown /\ \A d \in shown : oldest <= d
    <3> HIDE DEF shown
    <3> QED
      BY <1>1, <1>4, <2>1, MaxOfPlaces, MinOfPlaces
  <2>3. /\ known \in SUBSET (1 .. LastEvent) /\ ex \in SUBSET (1 .. LastEvent)
        /\ \A e \in 1 .. last : e \in known <=> e \in ex
    <3>1. newest \in 1 .. LastDay /\ newest <= asOf
      BY <2>1, <2>2
    <3>2. known = {e \in 1 .. DayEnd(asOf) : events[e].kind = "xrxd" /\ e <= last}
      BY DEF Effective, ExRights
    <3> HIDE DEF newest
    <3>3. /\ last \in 1 .. LastEvent /\ DayEnd(asOf) \in 1 .. LastEvent /\ last <= DayEnd(asOf)
          /\ LastEvent \in Nat
      BY <3>1, EventNumbers
    <3> HIDE DEF last, known
    <3> QED
      BY <3>2, <3>3
  <2>4. qfq = [d \in shown |-> map[last - DayEnd(d)]]
    BY DEF Forward
  <2>5. /\ answer'.qfq = [d \in shown |-> [p \in RawPrices |-> ForwardAt(qfq, d, p)]]
        /\ answer'.hfq = [d \in shown |-> [p \in RawPrices |-> BackwardAt(qfq, d, p)]]
    BY <1>4
  <2>6. DOMAIN answer'.qfq = shown /\ DOMAIN qfq = shown
    BY <2>4, <2>5
  <2> HIDE DEF shown, known, map, qfq, last, first
  <2>7. ASSUME NEW d \in shown, NEW p \in RawPrices
        PROVE  /\ SamePrice(answer'.qfq[d][p], PriceAfter([num |-> p, den |-> 1], ex, DayEnd(d), last))
               /\ SamePrice(PriceAfter(answer'.hfq[d][p], ex, first, DayEnd(d)), [num |-> p, den |-> 1])
    <3> DEFINE own == map[last - DayEnd(d)]
               old == map[last - first]
               forward == [num |-> own.mul * p - own.minus, den |-> own.den]
               backward == [num |-> old.den * forward.num + old.minus * own.den,
                            den |-> own.den * old.mul]
    <3>1. qfq[d] = own /\ qfq[oldest] = old
      BY <2>2, <2>4 DEF first
    <3>20. ForwardAt(qfq, d, p) = forward
      BY <3>1 DEF ForwardAt
    <3>2. answer'.qfq[d][p] = forward
      BY <2>5, <3>20
    <3>3. answer'.hfq[d][p] = backward
      <4>1. BackwardAt(qfq, d, p) = backward
        BY <2>6, <3>1, <3>20 DEF BackwardAt
      <4> QED
        BY <2>5, <4>1
    <3>4. /\ last \in 1 .. LastEvent /\ first \in 1 .. last /\ DayEnd(d) \in first .. last
          /\ p \in Int
      <4>1. newest \in 1 .. LastDay /\ oldest \in 1 .. LastDay /\ d \in 1 .. LastDay
        BY <2>1, <2>2
      <4>2. oldest <= d /\ d <= newest
        BY <2>2
      <4>3. p \in Int
        BY AdjustConstants
      <4> HIDE DEF newest, oldest
      <4>4. /\ last \in 1 .. LastEvent /\ first \in 1 .. LastEvent /\ DayEnd(d) \in 1 .. LastEvent
            /\ first <= DayEnd(d) /\ DayEnd(d) <= last
        BY <4>1, <4>2, EventNumbers DEF first, last
      <4> QED
        BY <4>3, <4>4
    <3> HIDE DEF newest, oldest, ex
    <3>5. /\ SamePrice(forward, PriceAfter([num |-> p, den |-> 1], ex, DayEnd(d), last))
          /\ SamePrice(PriceAfter(backward, ex, first, DayEnd(d)), [num |-> p, den |-> 1])
      BY <2>3, <3>4, BarComposes DEF map
    <3> HIDE DEF forward, backward
    <3> QED
      BY <3>2, <3>3, <3>5
  <2>8. \A price, i, j : PriceAfter(price, ex, i, j) = PriceWith(events, price, ex, i, j)
    BY DEF PriceAfter, PriceWith
  <2>9. ASSUME NEW d \in shown, NEW p \in RawPrices
        PROVE  /\ SamePrice(answer'.qfq[d][p], PriceWith(events, [num |-> p, den |-> 1], ex, DayEnd(d), last))
               /\ SamePrice(PriceWith(events, answer'.hfq[d][p], ex, first, DayEnd(d)), [num |-> p, den |-> 1])
    <3> HIDE DEF newest, oldest, ex
    <3> QED
      BY <2>7, <2>8
  <2> QED
    BY <2>6, <2>9 DEF ComposesWith, last, first
<1> QED
  BY <1>2, <1>3, <1>4

\* A forward price is the theoretical price after all events since, and a
\* backward price is one from which the events since the oldest bar make the
\* raw price, whatever the days with a bar, the prices and the events are, several
\* of one day among them and any whole number of portions in each.
THEOREM AdjustmentComposes == AdjustSpec => []AdjustComposes
<1>1. AdjustInit => AdjustTypeOK /\ AdjustComposes
  BY DEF AdjustInit, AdjustTypeOK, AdjustComposes, NoAnswer
<1>2. AdjustTypeOK /\ AdjustComposes /\ [AdjustNext]_adjustVars
         => (AdjustTypeOK /\ AdjustComposes)'
  <2> SUFFICES ASSUME AdjustTypeOK, AdjustComposes, [AdjustNext]_adjustVars
               PROVE  AdjustTypeOK' /\ AdjustComposes'
    OBVIOUS
  <2>1. AdjustTypeOK'
    BY DEF AdjustTypeOK, AdjustNext, Adjust, adjustVars
  <2>2. AdjustComposes => ComposesWith(events, answer)
    BY DEF AdjustComposes, ComposesWith, PriceAfter, PriceWith
  <2>3. ComposesWith(events', answer') => AdjustComposes'
    BY DEF AdjustComposes, ComposesWith, PriceAfter, PriceWith, SamePrice, PreOf
  <2>4. ASSUME NEW asOf \in 1 .. LastDay, Adjust(asOf) PROVE ComposesWith(events', answer')
    <3>1. events' = events
      BY <2>4 DEF Adjust
    <3>2. ComposesWith(events, answer')
      BY <2>4, AdjustStep
    <3> QED
      BY <3>1, <3>2
  <2>5. CASE UNCHANGED adjustVars
    <3>1. events' = events /\ answer' = answer
      BY <2>5 DEF adjustVars
    <3>2. ComposesWith(events', answer')
      BY <2>2, <3>1
    <3> QED
      BY <2>1, <2>3, <3>2
  <2> QED
    BY <2>1, <2>3, <2>4, <2>5 DEF AdjustNext
<1> QED
  BY <1>1, <1>2, PTL DEF AdjustSpec

(***************************************************************************)
(* The loops over records.                                                 *)
(***************************************************************************)
ReadUpTo(read, s, T) ==
    /\ read \in [0 .. Len(s) -> Seq(T)]
    /\ read[0] = <<>>
    /\ \A i \in 1 .. Len(s) :
          read[i] = IF EmptyTail(s[i]) THEN read[i - 1] ELSE Append(read[i - 1], s[i])
    /\ WithoutEmpty(s) = read[Len(s)]

LEMMA WithoutEmptyFacts ==
  ASSUME NEW T, NEW s \in Seq(T)
  PROVE  \E read : ReadUpTo(read, s, T)
<1> DEFINE n == Len(s)
           Step(i, x) == IF EmptyTail(s[i]) THEN x ELSE Append(x, s[i])
           F(g) == [i \in 0 .. n |-> IF i = 0 THEN <<>> ELSE Step(i, g[i - 1])]
           step == [i \in 1 .. n |-> [x \in Seq(T) |-> Step(i, x)]]
           read == CHOOSE g : g = F(g)
<1>1. n \in Nat /\ <<>> \in Seq(T)
  OBVIOUS
<1>2. ASSUME NEW i \in 1 .. n, NEW x \in Seq(T) PROVE Step(i, x) \in Seq(T)
  <2>1. s[i] \in T
    OBVIOUS
  <2> QED
    BY <2>1, AppendProperties
<1>3. WithoutEmpty(s) = read[n]
  BY DEF WithoutEmpty
<1> HIDE DEF Step, n
<1>4. step \in [1 .. n -> [Seq(T) -> Seq(T)]]
  BY <1>2
<1>5. PICK f : Steps(f, n, Seq(T), <<>>, step)
  <2> HIDE DEF step
  <2> QED
    BY <1>1, <1>4, StepsExist
<1>6. f = F(f)
  <2>1. /\ f \in [0 .. n -> Seq(T)] /\ f[0] = <<>>
        /\ \A i \in 1 .. n : f[i] = step[i][f[i - 1]]
    <3> HIDE DEF step
    <3> QED
      BY <1>5 DEF Steps
  <2>2. ASSUME NEW i \in 0 .. n, i # 0 PROVE f[i] = Step(i, f[i - 1])
    <3>1. i \in 1 .. n /\ i - 1 \in 0 .. n
      BY <1>1, <2>2
    <3>2. f[i - 1] \in Seq(T) /\ f[i] = step[i][f[i - 1]]
      <4> HIDE DEF step
      <4> QED
        BY <2>1, <3>1
    <3> QED
      BY <3>1, <3>2
  <2>3. \A i \in 0 .. n : f[i] = IF i = 0 THEN <<>> ELSE Step(i, f[i - 1])
    BY <2>1, <2>2
  <2> QED
    BY <2>1, <2>3
<1>7. read = F(read)
  <2> HIDE DEF F
  <2> QED
    BY <1>6
<1> HIDE DEF read
<1>8. read[0] = <<>> /\ \A i \in 1 .. n : read[i] = Step(i, read[i - 1])
  <2>1. 0 \in 0 .. n /\ \A i \in 1 .. n : i \in 0 .. n /\ i # 0
    BY <1>1
  <2> QED
    BY <1>7, <2>1
<1>9. \A i \in 0 .. n : read[i] \in Seq(T)
  <2> DEFINE S == {i \in 0 .. n : read[i] \in Seq(T)}
  <2>1. 0 \in S
    <3>1. 0 \in 0 .. n
      BY <1>1
    <3>2. read[0] \in Seq(T)
      BY <1>1, <1>8
    <3> QED
      BY <3>1, <3>2
  <2>2. ASSUME NEW i \in 1 .. n, i - 1 \in S PROVE i \in S
    BY <1>1, <1>2, <1>8, <2>2
  <2>3. \A i \in 0 .. n : i \in S
    <3> HIDE DEF S
    <3> QED
      BY <1>1, <2>1, <2>2, IntervalInduction
  <2> QED
    BY <2>3
<1>10. read \in [0 .. n -> Seq(T)]
  BY <1>7, <1>9
<1>11. ReadUpTo(read, s, T)
  BY <1>3, <1>8, <1>10 DEF Step, n, ReadUpTo
<1> QED
  BY <1>11

\* One more record is read if it is not an empty one.
LEMMA WithoutEmptyAppend ==
  ASSUME NEW T, NEW s \in Seq(T), NEW x \in T
  PROVE  /\ WithoutEmpty(s) \in Seq(T)
         /\ WithoutEmpty(Append(s, x)) =
               IF EmptyTail(x) THEN WithoutEmpty(s) ELSE Append(WithoutEmpty(s), x)
<1> DEFINE n == Len(s)
           more == Append(s, x)
<1>1. /\ n \in Nat /\ more \in Seq(T) /\ Len(more) = n + 1 /\ more[n + 1] = x
      /\ \A i \in 1 .. n : more[i] = s[i]
  BY AppendProperties
<1> HIDE DEF more
<1>2. PICK a : ReadUpTo(a, s, T)
  BY WithoutEmptyFacts
<1>3. PICK b : ReadUpTo(b, more, T)
  BY <1>1, WithoutEmptyFacts
<1>4. /\ a \in [0 .. n -> Seq(T)] /\ a[0] = <<>> /\ WithoutEmpty(s) = a[n]
      /\ \A i \in 1 .. n : a[i] = IF EmptyTail(s[i]) THEN a[i - 1] ELSE Append(a[i - 1], s[i])
  BY <1>2 DEF ReadUpTo
<1>5. /\ b[0] = <<>> /\ WithoutEmpty(more) = b[n + 1]
      /\ \A i \in 1 .. n + 1 :
            b[i] = IF EmptyTail(more[i]) THEN b[i - 1] ELSE Append(b[i - 1], more[i])
  BY <1>1, <1>3 DEF ReadUpTo
<1> HIDE DEF n
<1>6. \A i \in 0 .. n : b[i] = a[i]
  <2> DEFINE S == {i \in 0 .. n : b[i] = a[i]}
  <2>1. 0 \in S
    BY <1>1, <1>4, <1>5
  <2>2. ASSUME NEW i \in 1 .. n, i - 1 \in S PROVE i \in S
    <3>1. i \in 1 .. n + 1 /\ i \in 0 .. n
      BY <1>1
    <3> QED
      BY <1>1, <1>4, <1>5, <2>2, <3>1
  <2>3. \A i \in 0 .. n : i \in S
    <3> HIDE DEF S
    <3> QED
      BY <1>1, <2>1, <2>2, IntervalInduction
  <2> QED
    BY <2>3
<1>7. n \in 0 .. n /\ n + 1 \in 1 .. n + 1 /\ (n + 1) - 1 = n
  BY <1>1
<1>8. b[n + 1] = IF EmptyTail(x) THEN a[n] ELSE Append(a[n], x)
  BY <1>1, <1>5, <1>6, <1>7
<1> QED
  BY <1>4, <1>5, <1>7, <1>8 DEF more

LEMMA WithoutEmptyNone == WithoutEmpty(<<>>) = <<>>
<1>1. <<>> \in Seq({})
  OBVIOUS
<1>2. PICK a : ReadUpTo(a, <<>>, {})
  BY <1>1, WithoutEmptyFacts
<1> QED
  BY <1>2 DEF ReadUpTo

Joined(flat, seqs, T) ==
    /\ flat \in [1 .. Len(seqs) -> Seq(T)]
    /\ flat[1] = seqs[1]
    /\ \A i \in 2 .. Len(seqs) : flat[i] = flat[i - 1] \o seqs[i]
    /\ FlattenSeq(seqs) = flat[Len(seqs)]

LEMMA FlattenFacts ==
  ASSUME NEW T, NEW seqs \in Seq(Seq(T)), Len(seqs) # 0
  PROVE  \E flat : Joined(flat, seqs, T)
<1> DEFINE n == Len(seqs)
           F(g) == [i \in 1 .. n |-> IF i = 1 THEN seqs[i] ELSE g[i - 1] \o seqs[i]]
           step == [i \in 1 .. n - 1 |-> [x \in Seq(T) |-> x \o seqs[i + 1]]]
           flat == CHOOSE g : g = F(g)
<1>1. n \in Nat \ {0} /\ \A i \in 1 .. n : seqs[i] \in Seq(T)
  OBVIOUS
<1>2. FlattenSeq(seqs) = flat[n]
  BY DEF FlattenSeq
<1> HIDE DEF n
<1>3. step \in [1 .. n - 1 -> [Seq(T) -> Seq(T)]]
  <2>1. \A i \in 1 .. n - 1 : i + 1 \in 1 .. n
    BY <1>1
  <2>2. \A i \in 1 .. n - 1, x \in Seq(T) : x \o seqs[i + 1] \in Seq(T)
    BY <1>1, <2>1, ConcatProperties
  <2> QED
    BY <2>2
<1>4. PICK f : Steps(f, n - 1, Seq(T), seqs[1], step)
  <2>1. n - 1 \in Nat /\ seqs[1] \in Seq(T)
    BY <1>1
  <2> HIDE DEF step
  <2> QED
    BY <1>3, <2>1, StepsExist
<1> DEFINE h == [i \in 1 .. n |-> f[i - 1]]
<1>5. h = F(h)
  <2>1. /\ f \in [0 .. n - 1 -> Seq(T)] /\ f[0] = seqs[1]
        /\ \A i \in 1 .. n - 1 : f[i] = step[i][f[i - 1]]
    <3> HIDE DEF step
    <3> QED
      BY <1>4 DEF Steps
  <2>2. ASSUME NEW i \in 1 .. n, i # 1 PROVE h[i] = h[i - 1] \o seqs[i]
    <3>1. /\ i - 1 \in 1 .. n - 1 /\ i - 1 \in 1 .. n /\ (i - 1) - 1 \in 0 .. n - 1
          /\ (i - 1) + 1 = i
      BY <1>1, <2>2
    <3>2. f[(i - 1) - 1] \in Seq(T) /\ f[i - 1] = step[i - 1][f[(i - 1) - 1]]
      <4> HIDE DEF step
      <4> QED
        BY <2>1, <3>1
    <3>3. f[i - 1] = f[(i - 1) - 1] \o seqs[i]
      BY <3>1, <3>2
    <3> QED
      BY <3>1, <3>3
  <2>3. h[1] = seqs[1]
    BY <1>1, <2>1
  <2>4. \A i \in 1 .. n : h[i] = IF i = 1 THEN seqs[i] ELSE h[i - 1] \o seqs[i]
    BY <2>2, <2>3
  <2> QED
    BY <2>4
<1>6. flat = F(flat)
  <2> HIDE DEF F, h
  <2> QED
    BY <1>5
<1> HIDE DEF flat
<1>7. flat[1] = seqs[1] /\ \A i \in 2 .. n : flat[i] = flat[i - 1] \o seqs[i]
  <2>1. 1 \in 1 .. n /\ \A i \in 2 .. n : i \in 1 .. n /\ i # 1
    BY <1>1
  <2> QED
    BY <1>6, <2>1
<1>8. \A i \in 0 .. n : i = 0 \/ flat[i] \in Seq(T)
  <2> DEFINE S == {i \in 0 .. n : i = 0 \/ flat[i] \in Seq(T)}
  <2>1. 0 \in S
    BY <1>1
  <2>2. ASSUME NEW i \in 1 .. n, i - 1 \in S PROVE i \in S
    <3>1. CASE i = 1
      BY <1>1, <1>7, <3>1
    <3>2. CASE i # 1
      <4>1. i \in 2 .. n /\ i - 1 # 0
        BY <1>1, <3>2
      <4>2. flat[i - 1] \in Seq(T) /\ seqs[i] \in Seq(T)
        BY <1>1, <2>2, <4>1
      <4>3. flat[i] \in Seq(T)
        BY <1>7, <4>1, <4>2, ConcatProperties
      <4> QED
        BY <1>1, <4>3
    <3> QED
      BY <3>1, <3>2
  <2>3. \A i \in 0 .. n : i \in S
    <3> HIDE DEF S
    <3> QED
      BY <1>1, <2>1, <2>2, IntervalInduction
  <2> QED
    BY <2>3
<1>9. flat \in [1 .. n -> Seq(T)]
  <2>1. \A i \in 1 .. n : flat[i] \in Seq(T)
    BY <1>1, <1>8
  <2> QED
    BY <1>6, <2>1
<1>10. Joined(flat, seqs, T)
  BY <1>2, <1>7, <1>9 DEF Joined, n
<1> QED
  BY <1>10

\* What the reader makes of a record, before and after it looks for empty ones,
\* and of a file, for any values of the variables.
StoredBar(idx, r) == [r EXCEPT !.quote.volume = IF idx THEN @ ELSE @ \div Lot]

BarsOf(idx, s) == [i \in 1 .. Len(s) |-> StoredBar(idx, s[i])]

Kept(fmt, s) == IF fmt = "lc1" THEN WithoutEmpty(s) ELSE s

\* What a file keeps of a bar, its volume in lots again.
Cut(fmt, k) ==
    IF fmt = "day"
    THEN [day |-> k.day, minute |-> 0,
          quote |-> [price  |-> k.quote.price \div 10,
                     volume |-> k.quote.volume,
                     amount |-> Single(k.quote.amount)]]
    ELSE [day |-> k.day % DayWidth, minute |-> k.minute,
          quote |-> [price  |-> Single(k.quote.price),
                     volume |-> k.quote.volume,
                     amount |-> Single(k.quote.amount)]]

CutAll(fmt, s) == [i \in 1 .. Len(s) |-> Cut(fmt, s[i])]

BarType == [day : Nat, minute : Nat, quote : [price : Nat, volume : Nat, amount : Nat]]

LocalTypeOK ==
    /\ format \in Formats
    /\ isIndex \in BOOLEAN
    /\ written \in Seq(FileBars)

LocalInv ==
    /\ LocalTypeOK
    /\ fileStep = "read" => Kept(format, BarsOf(isIndex, file)) = CutAll(format, Kept(format, written))
    /\ LocalRoundTrip

\* Lots become shares and lots again: nothing overflows.
LEMMA LotsAndShares ==
  ASSUME NEW q \in Quotations, isIndex \in BOOLEAN
  PROVE  FileVolume(q.volume) \in Nat /\ Lots(FileVolume(q.volume)) = q.volume
<1> DEFINE v == q.volume
           x == IF isIndex THEN v ELSE v * Lot
<1>1. /\ v \in Nat /\ Lot \in Nat \ {0} /\ VolumeWidth \in Nat /\ v * Lot < VolumeWidth
  BY LocalConstants
<1> HIDE DEF v
<1>2. v <= v * Lot /\ v * Lot \in Nat
  BY <1>1
<1>3. x \in Nat /\ x < VolumeWidth
  BY <1>1, <1>2
<1>4. FileVolume(v) = x
  <2>1. FileVolume(v) = x % VolumeWidth
    BY DEF FileVolume
  <2> HIDE DEF x
  <2>2. x % VolumeWidth = x
    BY <1>1, <1>3
  <2> QED
    BY <2>1, <2>2
<1>5. (v * Lot) \div Lot = v
  BY <1>1
<1> QED
  BY <1>3, <1>4, <1>5 DEF Lots, v

\* A bar is written as one record, from which the reader makes what the file
\* keeps of the bar; the placeholder is a record the reader skips.
LEMMA RecordOfBar ==
  ASSUME LocalTypeOK, NEW k \in FileBars
  PROVE  /\ k \in BarType
         /\ Encode(k) \in BarType
         /\ Cut(format, k) \in BarType
         /\ StoredBar(isIndex, Encode(k)) = Cut(format, k)
         /\ format # "day" => (EmptyTail(Cut(format, k)) <=> EmptyTail(k))
         /\ PlaceholderRecord(k) \in BarType
         /\ StoredBar(isIndex, PlaceholderRecord(k)) \in BarType
         /\ EmptyTail(StoredBar(isIndex, PlaceholderRecord(k)))
<1>1. /\ FileDays \subseteq Nat /\ FileMinutes \subseteq Nat /\ Lot \in Nat \ {0}
      /\ DayWidth \in Nat \ {0} /\ PlaceMinute \in Nat /\ TailMinute \in Nat
      /\ TailMinute <= PlaceMinute
      /\ Quotations \subseteq [price : Nat, volume : Nat, amount : Nat]
  BY LocalConstants
<1>2. PICK d \in FileDays, m \in FileMinutes, q \in Quotations :
         k = [day |-> d, minute |-> m, quote |-> q]
  BY DEF FileBars
<1>3. PICK p \in Nat, v \in Nat, a \in Nat : q = [price |-> p, volume |-> v, amount |-> a]
  BY <1>1
<1>4. FileVolume(v) \in Nat /\ Lots(FileVolume(v)) = v
  BY <1>3, LotsAndShares DEF LocalTypeOK
<1> DEFINE w == FileVolume(v)
           sp == Single(p)
           sa == Single(a)
           cut(dd, mm, pp) == [day |-> dd, minute |-> mm,
                               quote |-> [price |-> pp, volume |-> v, amount |-> sa]]
           rec(dd, mm, pp, vv, aa) == [day |-> dd, minute |-> mm,
                                       quote |-> [price |-> pp, volume |-> vv, amount |-> aa]]
<1>5. sp \in Nat /\ sa \in Nat /\ (sa = 0 <=> a = 0)
  BY <1>3, SingleIsNear
<1>6. d \in Nat /\ m \in Nat /\ d % DayWidth \in Nat /\ p \div 10 \in Nat
  BY <1>1
<1>7. Encode(k) = IF format = "day" THEN rec(d, 0, p \div 10, w, sa)
                  ELSE rec(d % DayWidth, m, sp, w, sa)
  BY <1>2, <1>3 DEF Encode
<1>8. Cut(format, k) = IF format = "day" THEN rec(d, 0, p \div 10, v, sa)
                       ELSE rec(d % DayWidth, m, sp, v, sa)
  BY <1>2, <1>3 DEF Cut
<1>9. PlaceholderRecord(k) = rec(d % DayWidth, PlaceMinute, sp, 0, 0)
  BY <1>2, <1>3 DEF PlaceholderRecord
<1>10. ASSUME NEW dd, NEW mm, NEW pp, NEW vv, NEW aa
       PROVE  StoredBar(isIndex, rec(dd, mm, pp, vv, aa))
                 = rec(dd, mm, pp, IF isIndex THEN vv ELSE vv \div Lot, aa)
  BY DEF StoredBar
<1> HIDE DEF w, sp, sa
<1>11. StoredBar(isIndex, Encode(k)) = Cut(format, k)
  <2>1. (IF isIndex THEN w ELSE w \div Lot) = v
    BY <1>4 DEF w, Lots
  <2> HIDE DEF rec
  <2> QED
    BY <1>7, <1>8, <1>10, <2>1
<1>12. StoredBar(isIndex, PlaceholderRecord(k)) = rec(d % DayWidth, PlaceMinute, sp, 0, 0)
  <2>1. (IF isIndex THEN 0 ELSE 0 \div Lot) = 0
    BY <1>1
  <2> HIDE DEF rec
  <2> QED
    BY <1>9, <1>10, <2>1
<1>13. k \in BarType /\ Encode(k) \in BarType /\ Cut(format, k) \in BarType
  BY <1>2, <1>3, <1>4, <1>5, <1>6, <1>7, <1>8 DEF BarType, w
<1>14. format # "day" => (EmptyTail(Cut(format, k)) <=> EmptyTail(k))
  BY <1>2, <1>3, <1>5, <1>8 DEF EmptyTail
<1>15. /\ PlaceholderRecord(k) \in BarType
       /\ StoredBar(isIndex, PlaceholderRecord(k)) \in BarType
       /\ EmptyTail(StoredBar(isIndex, PlaceholderRecord(k)))
  BY <1>1, <1>5, <1>6, <1>9, <1>12 DEF BarType, EmptyTail
<1> QED
  BY <1>11, <1>13, <1>14, <1>15

\* The reader takes records one after the other.
LEMMA OneMoreRecord ==
  ASSUME isIndex \in BOOLEAN, NEW s \in Seq(BarType), NEW r \in BarType
  PROVE  /\ BarsOf(isIndex, s \o <<r>>) = Append(BarsOf(isIndex, s), StoredBar(isIndex, r))
         /\ BarsOf(isIndex, s) \in Seq(BarType)
         /\ s \o <<r>> \in Seq(BarType)
<1> DEFINE n == Len(s)
           more == s \o <<r>>
           all == BarsOf(isIndex, s)
           bar == StoredBar(isIndex, r)
<1>1. n \in Nat /\ <<r>> \in Seq(BarType) /\ Len(<<r>>) = 1 /\ <<r>>[1] = r
  OBVIOUS
<1>2. more \in Seq(BarType) /\ Len(more) = n + 1
  BY <1>1, ConcatProperties
<1>3. (\A i \in 1 .. n : more[i] = s[i]) /\ more[n + 1] = r
  <2>1. \A i \in 1 .. n + 1 : more[i] = IF i <= n THEN s[i] ELSE <<r>>[i - n]
    BY <1>1, ConcatProperties
  <2> HIDE DEF more, n
  <2>2. (n + 1) - n = 1 /\ n + 1 \in 1 .. n + 1 /\ ~(n + 1 <= n)
    BY <1>1
  <2>3. \A i \in 1 .. n : i \in 1 .. n + 1 /\ i <= n
    BY <1>1
  <2> QED
    BY <1>1, <2>1, <2>2, <2>3
<1>4. ASSUME NEW x \in BarType PROVE StoredBar(isIndex, x) \in BarType
  <2> DEFINE lots(v) == IF isIndex THEN v ELSE v \div Lot
  <2>1. PICK d \in Nat, m \in Nat, p \in Nat, v \in Nat, a \in Nat :
           x = [day |-> d, minute |-> m, quote |-> [price |-> p, volume |-> v, amount |-> a]]
    BY DEF BarType
  <2>2. lots(v) \in Nat
    BY LocalConstants
  <2>3. StoredBar(isIndex, x)
           = [day |-> d, minute |-> m, quote |-> [price |-> p, volume |-> lots(v), amount |-> a]]
    BY <2>1 DEF StoredBar
  <2> HIDE DEF lots
  <2> QED
    BY <2>2, <2>3 DEF BarType
<1>5. \A i \in 1 .. n : s[i] \in BarType
  OBVIOUS
<1> HIDE DEF more
<1>6. all = [i \in 1 .. n |-> StoredBar(isIndex, s[i])]
  BY DEF BarsOf
<1>7. BarsOf(isIndex, more) = [i \in 1 .. n + 1 |-> StoredBar(isIndex, more[i])]
  BY <1>2 DEF BarsOf
<1> HIDE DEF n
<1>8. all \in Seq(BarType) /\ Len(all) = n
  <2> HIDE DEF all
  <2> QED
    BY <1>1, <1>4, <1>5, <1>6
<1>9. bar \in BarType
  BY <1>4
<1>10. BarsOf(isIndex, more) = Append(all, bar)
  <2> HIDE DEF all, bar
  <2>1. \A i \in 1 .. n : i \in 1 .. n + 1 /\ i # n + 1
    BY <1>1
  <2>2. n + 1 \in 1 .. n + 1
    BY <1>1
  <2>3. \A i \in 1 .. n : BarsOf(isIndex, more)[i] = all[i]
    BY <1>3, <1>6, <1>7, <2>1
  <2>4. BarsOf(isIndex, more)[n + 1] = bar
    BY <1>3, <1>7, <2>2 DEF bar
  <2>5. BarsOf(isIndex, more) \in Seq(BarType) /\ Len(BarsOf(isIndex, more)) = n + 1
    <3>1. \A i \in 1 .. n + 1 : more[i] \in BarType
      BY <1>2
    <3>2. \A i \in 1 .. n + 1 : StoredBar(isIndex, more[i]) \in BarType
      BY <1>4, <3>1
    <3> QED
      BY <1>1, <1>7, <3>2
  <2>6. /\ Append(all, bar) \in Seq(BarType) /\ Len(Append(all, bar)) = n + 1
        /\ \A i \in 1 .. n : Append(all, bar)[i] = all[i]
        /\ Append(all, bar)[n + 1] = bar
    BY <1>8, <1>9, AppendProperties
  <2>7. \A i \in 1 .. n + 1 : BarsOf(isIndex, more)[i] = Append(all, bar)[i]
    <3>1. \A i \in 1 .. n + 1 : i \in 1 .. n \/ i = n + 1
      BY <1>1
    <3> QED
      BY <2>3, <2>4, <2>6, <3>1
  <2> QED
    BY <2>5, <2>6, <2>7, SeqEqual
<1> QED
  BY <1>2, <1>8, <1>10 DEF more

LEMMA ConcatPair ==
  ASSUME NEW T, NEW s \in Seq(T), NEW a \in T, NEW b \in T
  PROVE  s \o <<a, b>> = (s \o <<a>>) \o <<b>>
<1> DEFINE n == Len(s)
           one == s \o <<a>>
           left == s \o <<a, b>>
           right == one \o <<b>>
<1>1. /\ n \in Nat /\ <<a>> \in Seq(T) /\ <<b>> \in Seq(T) /\ <<a, b>> \in Seq(T)
      /\ Len(<<a>>) = 1 /\ Len(<<b>>) = 1 /\ Len(<<a, b>>) = 2
      /\ <<a>>[1] = a /\ <<b>>[1] = b /\ <<a, b>>[1] = a /\ <<a, b>>[2] = b
  OBVIOUS
<1>2. /\ one \in Seq(T) /\ Len(one) = n + 1
      /\ \A i \in 1 .. n + 1 : one[i] = IF i <= n THEN s[i] ELSE <<a>>[i - n]
  BY <1>1, ConcatProperties
<1>3. /\ left \in Seq(T) /\ Len(left) = n + 2
      /\ \A i \in 1 .. n + 2 : left[i] = IF i <= n THEN s[i] ELSE <<a, b>>[i - n]
  BY <1>1, ConcatProperties
<1> HIDE DEF one, left
<1>4. /\ right \in Seq(T) /\ Len(right) = (n + 1) + 1
      /\ \A i \in 1 .. (n + 1) + 1 :
            right[i] = IF i <= n + 1 THEN one[i] ELSE <<b>>[i - (n + 1)]
  BY <1>1, <1>2, ConcatProperties
<1> HIDE DEF right, n
<1>5. ASSUME NEW i \in 1 .. n + 2 PROVE left[i] = right[i]
  <2>1. i \in 1 .. (n + 1) + 1
    BY <1>1
  <2>2. CASE i <= n
    <3>1. i <= n + 1 /\ i \in 1 .. n + 1
      BY <1>1, <2>2
    <3> QED
      BY <1>2, <1>3, <1>4, <2>1, <2>2, <3>1
  <2>3. CASE i = n + 1
    <3>1. i <= n + 1 /\ i \in 1 .. n + 1 /\ ~(i <= n) /\ i - n = 1
      BY <1>1, <2>3
    <3> QED
      BY <1>1, <1>2, <1>3, <1>4, <2>1, <3>1
  <2>4. CASE i = n + 2
    <3>1. ~(i <= n + 1) /\ ~(i <= n) /\ i - n = 2 /\ i - (n + 1) = 1
      BY <1>1, <2>4
    <3> QED
      BY <1>1, <1>3, <1>4, <2>1, <3>1
  <2> QED
    BY <1>1, <2>2, <2>3, <2>4
<1>6. Len(left) = Len(right) /\ Len(left) = n + 2
  BY <1>1, <1>3, <1>4
<1>7. left = right
  BY <1>3, <1>4, <1>5, <1>6, SeqEqual
<1> QED
  BY <1>7 DEF left, right, one

\* What the reader finds among the first bars does not depend on those after.
LEMMA CutOneMore ==
  ASSUME LocalTypeOK, NEW s \in Seq(FileBars), NEW k \in FileBars
  PROVE  /\ CutAll(format, s) \in Seq(BarType)
         /\ CutAll(format, Append(s, k)) = Append(CutAll(format, s), Cut(format, k))
<1> DEFINE n == Len(s)
           more == Append(s, k)
           all == CutAll(format, s)
           bar == Cut(format, k)
<1>1. /\ n \in Nat /\ more \in Seq(FileBars) /\ Len(more) = n + 1 /\ more[n + 1] = k
      /\ \A i \in 1 .. n : more[i] = s[i] /\ s[i] \in FileBars
  BY AppendProperties
<1> HIDE DEF more
<1>2. all = [i \in 1 .. n |-> Cut(format, s[i])]
  BY DEF CutAll
<1>3. CutAll(format, more) = [i \in 1 .. n + 1 |-> Cut(format, more[i])]
  BY <1>1 DEF CutAll
<1>4. bar \in BarType /\ \A i \in 1 .. n : Cut(format, s[i]) \in BarType
  BY <1>1, RecordOfBar
<1> HIDE DEF n, all, bar
<1>5. all \in Seq(BarType) /\ Len(all) = n
  BY <1>1, <1>2, <1>4
<1>6. /\ Append(all, bar) \in Seq(BarType) /\ Len(Append(all, bar)) = n + 1
      /\ \A i \in 1 .. n : Append(all, bar)[i] = all[i]
      /\ Append(all, bar)[n + 1] = bar
  BY <1>4, <1>5, AppendProperties
<1>7. CutAll(format, more) \in Seq(BarType) /\ Len(CutAll(format, more)) = n + 1
  <2>1. \A i \in 1 .. n + 1 : more[i] \in FileBars
    BY <1>1
  <2>2. \A i \in 1 .. n + 1 : Cut(format, more[i]) \in BarType
    BY <2>1, RecordOfBar
  <2> QED
    BY <1>1, <1>3, <2>2
<1>8. \A i \in 1 .. n + 1 : CutAll(format, more)[i] = Append(all, bar)[i]
  <2>1. \A i \in 1 .. n + 1 : i \in 1 .. n \/ i = n + 1
    BY <1>1
  <2>2. \A i \in 1 .. n : i \in 1 .. n + 1
    BY <1>1
  <2>3. \A i \in 1 .. n : CutAll(format, more)[i] = all[i]
    BY <1>1, <1>2, <1>3, <2>2
  <2>4. CutAll(format, more)[n + 1] = bar
    BY <1>1, <1>3 DEF bar
  <2> QED
    BY <1>6, <2>1, <2>3, <2>4
<1> QED
  BY <1>5, <1>6, <1>7, <1>8, SeqEqual DEF more, all, bar

\* The records of one more bar: the reader finds what the file keeps of that bar
\* unless it is an empty one, and skips the placeholder.
LEMMA OneMoreBar ==
  ASSUME LocalTypeOK, format = "lc1", NEW i \in 1 .. Len(written), written[i] \in FileBars,
         NEW s \in Seq(BarType), NEW w \in Seq(FileBars),
         WithoutEmpty(BarsOf(isIndex, s)) = CutAll(format, WithoutEmpty(w))
  PROVE  WithoutEmpty(BarsOf(isIndex, s \o RecordsOf(i)))
            = CutAll(format, WithoutEmpty(Append(w, written[i])))
<1> DEFINE k == written[i]
           c == Cut(format, k)
           e == Encode(k)
           p == PlaceholderRecord(k)
           skipped == StoredBar(isIndex, p)
           all == BarsOf(isIndex, s)
           found == WithoutEmpty(w)
<1>1. /\ e \in BarType /\ c \in BarType /\ StoredBar(isIndex, e) = c
      /\ (EmptyTail(c) <=> EmptyTail(k))
      /\ p \in BarType /\ skipped \in BarType /\ EmptyTail(skipped)
  BY RecordOfBar
<1>2. RecordsOf(i) = <<e>> \/ RecordsOf(i) = <<p, e>>
  BY DEF RecordsOf
<1>3. isIndex \in BOOLEAN /\ k \in FileBars
  BY DEF LocalTypeOK
<1> HIDE DEF k, e, p, c, skipped
<1>4. all \in Seq(BarType)
  BY <1>1, <1>3, OneMoreRecord
<1>5. /\ found \in Seq(FileBars)
      /\ WithoutEmpty(Append(w, k)) = IF EmptyTail(k) THEN found ELSE Append(found, k)
  BY <1>3, WithoutEmptyAppend
<1>6. ASSUME NEW t \in Seq(BarType), WithoutEmpty(t) = CutAll(format, found)
      PROVE  WithoutEmpty(Append(t, c)) = CutAll(format, WithoutEmpty(Append(w, k)))
  <2> HIDE DEF found
  <2>1. WithoutEmpty(Append(t, c)) =
           IF EmptyTail(c) THEN WithoutEmpty(t) ELSE Append(WithoutEmpty(t), c)
    BY <1>1, <1>6, WithoutEmptyAppend
  <2>2. CASE EmptyTail(k)
    BY <1>1, <1>5, <1>6, <2>1, <2>2
  <2>3. CASE ~EmptyTail(k)
    <3>1. CutAll(format, Append(found, k)) = Append(CutAll(format, found), c)
      BY <1>3, <1>5, CutOneMore DEF c
    <3> QED
      BY <1>1, <1>5, <1>6, <2>1, <2>3, <3>1
  <2> QED
    BY <2>2, <2>3
<1>7. CASE RecordsOf(i) = <<e>>
  <2>1. BarsOf(isIndex, s \o <<e>>) = Append(all, c)
    BY <1>1, <1>3, OneMoreRecord
  <2>2. WithoutEmpty(Append(all, c)) = CutAll(format, WithoutEmpty(Append(w, k)))
    <3>1. WithoutEmpty(all) = CutAll(format, found)
      OBVIOUS
    <3> HIDE DEF all, found
    <3> QED
      BY <1>4, <1>6, <3>1
  <2> QED
    BY <1>7, <2>1, <2>2 DEF k
<1>8. CASE RecordsOf(i) = <<p, e>>
  <2> DEFINE sp == s \o <<p>>
             both == Append(all, skipped)
  <2>1. sp \in Seq(BarType) /\ BarsOf(isIndex, sp) = both
    BY <1>1, <1>3, OneMoreRecord DEF skipped
  <2>2. both \in Seq(BarType) /\ WithoutEmpty(both) = CutAll(format, found)
    <3>1. WithoutEmpty(all) = CutAll(format, found)
      OBVIOUS
    <3> HIDE DEF all, found
    <3>2. WithoutEmpty(both) = WithoutEmpty(all)
      BY <1>1, <1>4, WithoutEmptyAppend
    <3>3. both \in Seq(BarType)
      BY <1>1, <1>4, AppendProperties
    <3> QED
      BY <3>1, <3>2, <3>3
  <2>3. s \o <<p, e>> = sp \o <<e>>
    BY <1>1, ConcatPair
  <2>4. BarsOf(isIndex, sp \o <<e>>) = Append(both, c)
    <3> HIDE DEF sp, both
    <3> QED
      BY <1>1, <1>3, <2>1, OneMoreRecord
  <2>5. WithoutEmpty(Append(both, c)) = CutAll(format, WithoutEmpty(Append(w, k)))
    <3> HIDE DEF both, found
    <3> QED
      BY <1>6, <2>2
  <2> QED
    BY <1>8, <2>3, <2>4, <2>5 DEF k
<1> QED
  BY <1>2, <1>7, <1>8

\* A file of day bars or of five minute bars has one record for each bar.
LEMMA OneRecordEach ==
  ASSUME LocalTypeOK, format # "lc1", NEW flat,
         NEW seqs, seqs = [i \in 1 .. Len(written) |-> RecordsOf(i)],
         Joined(flat, seqs, BarType), Len(written) # 0
  PROVE  /\ Len(FlattenSeq(seqs)) = Len(written)
         /\ \A i \in 1 .. Len(written) : FlattenSeq(seqs)[i] = Encode(written[i])
<1> DEFINE n == Len(written)
           Good(k) == /\ Len(flat[k]) = k
                      /\ \A j \in 1 .. k : flat[k][j] = Encode(written[j])
           S == {k \in 0 .. n : k = 0 \/ Good(k)}
<1>1. n \in Nat \ {0}
  BY DEF LocalTypeOK
<1>2. \A i \in 1 .. n : seqs[i] = <<Encode(written[i])>> /\ Encode(written[i]) \in BarType
  <2>1. \A i \in 1 .. n : written[i] \in FileBars
    BY <1>1 DEF LocalTypeOK
  <2> QED
    BY <2>1, RecordOfBar DEF RecordsOf
<1>3. Len(seqs) = n
  BY <1>1
<1>4. /\ flat \in [1 .. n -> Seq(BarType)]
      /\ flat[1] = seqs[1]
      /\ \A i \in 2 .. n : flat[i] = flat[i - 1] \o seqs[i]
      /\ FlattenSeq(seqs) = flat[n]
  BY <1>3 DEF Joined
<1> HIDE DEF n
<1>5. ASSUME NEW i \in 1 .. n, i - 1 \in S PROVE i \in S
  <2>1. CASE i = 1
    <3>1. flat[1] = <<Encode(written[1])>>
      BY <1>2, <1>4, <2>1
    <3>2. Len(flat[1]) = 1 /\ flat[1][1] = Encode(written[1])
      BY <3>1
    <3>3. \A j \in 1 .. 1 : j = 1
      OBVIOUS
    <3>4. Good(1)
      BY <3>2, <3>3
    <3> QED
      BY <1>1, <2>1, <3>4
  <2>2. CASE i # 1
    <3> DEFINE e == Encode(written[i])
               s == flat[i - 1]
    <3>1. i \in 2 .. n /\ i - 1 \in 1 .. n /\ i - 1 # 0 /\ i - 1 \in Nat
      BY <1>1, <2>2
    <3>2. Good(i - 1)
      BY <1>5, <3>1
    <3>3. s \in Seq(BarType) /\ e \in BarType /\ flat[i] = s \o <<e>>
      BY <1>2, <1>4, <3>1
    <3>4. Len(s) = i - 1 /\ \A j \in 1 .. i - 1 : s[j] = Encode(written[j])
      BY <3>2
    <3> HIDE DEF s, e
    <3>5. <<e>> \in Seq(BarType) /\ Len(<<e>>) = 1 /\ <<e>>[1] = e
      BY <3>3
    <3>6. /\ Len(flat[i]) = i
          /\ \A j \in 1 .. i : flat[i][j] = IF j <= i - 1 THEN s[j] ELSE <<e>>[j - (i - 1)]
      <4>1. /\ Len(s \o <<e>>) = Len(s) + Len(<<e>>)
            /\ \A j \in 1 .. Len(s) + Len(<<e>>) :
                  (s \o <<e>>)[j] = IF j <= Len(s) THEN s[j] ELSE <<e>>[j - Len(s)]
        BY <3>3, <3>5, ConcatProperties
      <4>2. Len(s) + Len(<<e>>) = i
        BY <3>1, <3>4, <3>5
      <4> QED
        BY <3>3, <3>4, <4>1, <4>2
    <3>7. ASSUME NEW j \in 1 .. i PROVE flat[i][j] = Encode(written[j])
      <4>1. CASE j <= i - 1
        <5>1. j \in 1 .. i - 1
          BY <3>1, <4>1
        <5> QED
          BY <3>4, <3>6, <4>1, <5>1
      <4>2. CASE j = i
        <5>1. ~(j <= i - 1) /\ j - (i - 1) = 1
          BY <3>1, <4>2
        <5> QED
          BY <3>5, <3>6, <4>2, <5>1 DEF e
      <4> QED
        BY <3>1, <4>1, <4>2
    <3>8. Good(i)
      BY <3>6, <3>7
    <3> QED
      BY <1>1, <3>8
  <2> QED
    BY <2>1, <2>2
<1>6. \A i \in 0 .. n : i \in S
  <2>1. 0 \in S
    BY <1>1
  <2> HIDE DEF S
  <2> QED
    BY <1>1, <1>5, <2>1, IntervalInduction
<1>7. n \in S /\ n # 0
  <2> HIDE DEF S
  <2> QED
    BY <1>1, <1>6
<1> QED
  BY <1>4, <1>7 DEF n

\* In a file of minute bars the reader finds the bars it should, whatever
\* days have a placeholder.
LEMMA MinuteBarsFound ==
  ASSUME LocalTypeOK, format = "lc1", NEW flat,
         NEW seqs, seqs = [i \in 1 .. Len(written) |-> RecordsOf(i)],
         Joined(flat, seqs, BarType), Len(written) # 0
  PROVE  WithoutEmpty(BarsOf(isIndex, FlattenSeq(seqs))) = CutAll(format, WithoutEmpty(written))
<1> DEFINE n == Len(written)
           Upto(k) == SubSeq(written, 1, k)
           Good(k) == WithoutEmpty(BarsOf(isIndex, flat[k])) = CutAll(format, WithoutEmpty(Upto(k)))
           S == {k \in 0 .. n : k = 0 \/ Good(k)}
<1>1. n \in Nat \ {0}
  BY DEF LocalTypeOK
<1>2. \A i \in 1 .. n : written[i] \in FileBars
  BY <1>1 DEF LocalTypeOK
<1>3. Len(seqs) = n
  BY <1>1
<1>4. /\ flat \in [1 .. n -> Seq(BarType)]
      /\ flat[1] = RecordsOf(1)
      /\ \A i \in 2 .. n : flat[i] = flat[i - 1] \o RecordsOf(i)
      /\ FlattenSeq(seqs) = flat[n]
  <2>1. /\ flat \in [1 .. n -> Seq(BarType)]
        /\ flat[1] = seqs[1]
        /\ \A i \in 2 .. n : flat[i] = flat[i - 1] \o seqs[i]
        /\ FlattenSeq(seqs) = flat[n]
    BY <1>3 DEF Joined
  <2>2. 1 \in 1 .. n /\ \A i \in 2 .. n : i \in 1 .. n
    BY <1>1
  <2> QED
    BY <2>1, <2>2
<1>5. written \in Seq(FileBars)
  BY DEF LocalTypeOK
<1> HIDE DEF n
<1>6. ASSUME NEW i \in 1 .. n
      PROVE  Upto(i) = Append(Upto(i - 1), written[i]) /\ Upto(i - 1) \in Seq(FileBars)
  <2> DEFINE less == Upto(i - 1)
  <2>1. /\ less \in Seq(FileBars) /\ Len(less) = i - 1
        /\ \A j \in 1 .. i - 1 : less[j] = written[j]
    BY <1>1, <1>2, SubSeqProperties
  <2>2. /\ Upto(i) \in Seq(FileBars) /\ Len(Upto(i)) = i
        /\ \A j \in 1 .. i : Upto(i)[j] = written[j]
    BY <1>1, <1>2, SubSeqProperties
  <2> HIDE DEF less, Upto
  <2>3. written[i] \in FileBars
    BY <1>2
  <2>4. /\ Append(less, written[i]) \in Seq(FileBars) /\ Len(Append(less, written[i])) = i
        /\ \A j \in 1 .. i - 1 : Append(less, written[i])[j] = less[j]
        /\ Append(less, written[i])[i] = written[i]
    <3>1. (i - 1) + 1 = i
      BY <1>1
    <3> QED
      BY <2>1, <2>3, <3>1, AppendProperties
  <2>5. \A j \in 1 .. i : Upto(i)[j] = Append(less, written[i])[j]
    <3>1. \A j \in 1 .. i : j \in 1 .. i - 1 \/ j = i
      BY <1>1
    <3> QED
      BY <2>1, <2>2, <2>4, <3>1
  <2>6. Upto(i) = Append(less, written[i])
    BY <2>2, <2>4, <2>5, SeqEqual
  <2> QED
    BY <2>1, <2>6 DEF less
<1>7. ASSUME NEW i \in 1 .. n, i - 1 \in S PROVE i \in S
  <2>1. CASE i = 1
    <3>1. Upto(0) = <<>>
      BY SubSeqEmpty
    <3>2. Upto(1) = Append(<<>>, written[1])
      <4>1. 1 - 1 = 0 /\ 1 \in 1 .. n
        BY <1>1
      <4>2. Upto(1) = Append(Upto(1 - 1), written[1])
        <5> HIDE DEF Upto
        <5> QED
          BY <1>6, <4>1
      <4> QED
        BY <3>1, <4>1, <4>2
    <3>3. BarsOf(isIndex, <<>>) = <<>>
      BY DEF BarsOf
    <3>4. RecordsOf(1) \in Seq(BarType)
      BY <1>1, <1>4
    <3>5. <<>> \o RecordsOf(1) = RecordsOf(1)
      BY <3>4, ConcatEmptySeq
    <3>6. <<>> \in Seq(BarType) /\ <<>> \in Seq(FileBars) /\ 1 \in 1 .. n
      BY <1>1
    <3> HIDE DEF Upto
    <3>7. WithoutEmpty(BarsOf(isIndex, <<>>)) = CutAll(format, WithoutEmpty(<<>>))
      <4>1. CutAll(format, <<>>) = <<>>
        BY DEF CutAll
      <4> QED
        BY <3>3, <4>1, WithoutEmptyNone
    <3>8. WithoutEmpty(BarsOf(isIndex, <<>> \o RecordsOf(1)))
             = CutAll(format, WithoutEmpty(Append(<<>>, written[1])))
      BY <1>2, <3>6, <3>7, OneMoreBar DEF n
    <3>9. Good(1)
      BY <1>4, <3>2, <3>5, <3>8
    <3> QED
      BY <1>1, <2>1, <3>9
  <2>2. CASE i # 1
    <3>1. i \in 2 .. n /\ i - 1 \in 1 .. n /\ i - 1 # 0
      BY <1>1, <2>2
    <3>2. Good(i - 1)
      BY <1>7, <3>1
    <3>3. /\ flat[i - 1] \in Seq(BarType) /\ flat[i] = flat[i - 1] \o RecordsOf(i)
          /\ Upto(i - 1) \in Seq(FileBars) /\ Upto(i) = Append(Upto(i - 1), written[i])
      BY <1>4, <1>6, <3>1
    <3> HIDE DEF Upto
    <3>4. WithoutEmpty(BarsOf(isIndex, flat[i - 1] \o RecordsOf(i)))
             = CutAll(format, WithoutEmpty(Append(Upto(i - 1), written[i])))
      BY <1>2, <3>2, <3>3, OneMoreBar DEF n
    <3>5. Good(i)
      BY <3>3, <3>4
    <3> QED
      BY <1>1, <3>5
  <2> QED
    BY <2>1, <2>2
<1>8. \A i \in 0 .. n : i \in S
  <2>1. 0 \in S
    BY <1>1
  <2> HIDE DEF S
  <2> QED
    BY <1>1, <1>7, <2>1, IntervalInduction
<1>9. Good(n)
  <2>1. n \in S /\ n # 0
    <3> HIDE DEF S
    <3> QED
      BY <1>1, <1>8
  <2> QED
    BY <2>1
<1>10. Upto(n) = written
  BY <1>5 DEF n
<1> QED
  BY <1>4, <1>9, <1>10

\* What the writer writes is what the reader should find.
LEMMA WrittenIsRead ==
  ASSUME LocalTypeOK
  PROVE  Kept(format, BarsOf(isIndex, FlattenSeq([i \in 1 .. Len(written) |-> RecordsOf(i)])))
            = CutAll(format, Kept(format, written))
<1> DEFINE n == Len(written)
           seqs == [i \in 1 .. n |-> RecordsOf(i)]
           all == FlattenSeq(seqs)
<1>1. /\ n \in Nat /\ isIndex \in BOOLEAN /\ written = [i \in 1 .. n |-> written[i]]
      /\ \A i \in 1 .. n : written[i] \in FileBars
  BY DEF LocalTypeOK
<1>2. Len(seqs) = n
  BY <1>1
<1>3. CASE n = 0
  <2>1. written = <<>> /\ seqs = <<>>
    BY <1>1, <1>3
  <2>2. all = <<>>
    BY <2>1 DEF FlattenSeq
  <2>3. BarsOf(isIndex, <<>>) = <<>> /\ CutAll(format, <<>>) = <<>>
    BY DEF BarsOf, CutAll
  <2>4. Kept(format, <<>>) = <<>>
    BY WithoutEmptyNone DEF Kept
  <2> HIDE DEF all
  <2>5. Kept(format, BarsOf(isIndex, all)) = CutAll(format, Kept(format, written))
    BY <2>1, <2>2, <2>3, <2>4
  <2> QED
    BY <2>5 DEF all
<1>4. CASE n # 0
  <2>1. PICK flat : Joined(flat, seqs, BarType)
    <3>1. ASSUME NEW i \in 1 .. n PROVE RecordsOf(i) \in Seq(BarType)
      <4> DEFINE e == Encode(written[i])
                 p == PlaceholderRecord(written[i])
      <4>1. e \in BarType /\ p \in BarType
        BY <1>1, RecordOfBar
      <4>2. RecordsOf(i) = <<e>> \/ RecordsOf(i) = <<p, e>>
        BY DEF RecordsOf
      <4> HIDE DEF e, p
      <4>3. <<e>> \in Seq(BarType) /\ <<p, e>> \in Seq(BarType)
        BY <4>1
      <4> QED
        BY <4>2, <4>3
    <3>2. seqs \in Seq(Seq(BarType))
      BY <1>1, <3>1
    <3> HIDE DEF seqs
    <3> QED
      BY <1>2, <1>4, <3>2, FlattenFacts
  <2>2. CASE format = "lc1"
    <3>1. WithoutEmpty(BarsOf(isIndex, all)) = CutAll(format, WithoutEmpty(written))
      BY <1>4, <2>1, <2>2, MinuteBarsFound
    <3> HIDE DEF all
    <3>2. Kept(format, BarsOf(isIndex, all)) = WithoutEmpty(BarsOf(isIndex, all))
      BY <2>2 DEF Kept
    <3>3. Kept(format, written) = WithoutEmpty(written)
      BY <2>2 DEF Kept
    <3> QED
      BY <3>1, <3>2, <3>3 DEF all
  <2>3. CASE format # "lc1"
    <3>1. Len(all) = n /\ \A i \in 1 .. n : all[i] = Encode(written[i])
      BY <1>4, <2>1, <2>3, OneRecordEach
    <3>2. \A i \in 1 .. n : StoredBar(isIndex, Encode(written[i])) = Cut(format, written[i])
      BY <1>1, RecordOfBar
    <3> HIDE DEF all, n
    <3>3. Kept(format, BarsOf(isIndex, all)) = [i \in 1 .. n |-> StoredBar(isIndex, all[i])]
      BY <2>3, <3>1 DEF Kept, BarsOf
    <3>4. Kept(format, BarsOf(isIndex, all)) = [i \in 1 .. n |-> Cut(format, written[i])]
      BY <3>1, <3>2, <3>3
    <3>5. CutAll(format, Kept(format, written)) = [i \in 1 .. n |-> Cut(format, written[i])]
      BY <2>3 DEF Kept, CutAll, n
    <3>6. Kept(format, BarsOf(isIndex, all)) = CutAll(format, Kept(format, written))
      BY <3>4, <3>5
    <3> QED
      BY <3>6 DEF all, n
  <2> QED
    BY <2>2, <2>3
<1> QED
  BY <1>3, <1>4

\* Of a float s near to x a cut-off loses less than one more.
LEMMA CutOffNear ==
  ASSUME NEW x \in Nat, NEW s \in Nat,
         Precision * (s - x * Fine) <= x * Fine, Precision * (x * Fine - s) <= x * Fine
  PROVE  /\ CutOff(s) \in Nat
         /\ Precision * (CutOff(s) - x) <= x
         /\ Precision * (x - CutOff(s)) <= x + Precision
<1> DEFINE f == Fine
           p == Precision
           y == s \div f
           rest == s % f
<1>1. f \in Nat \ {0} /\ p \in Nat \ {0}
  BY LocalConstants
<1>2. CutOff(s) = y
  BY DEF CutOff
<1>3. p * (s - x * f) <= x * f /\ p * (x * f - s) <= x * f
  OBVIOUS
<1> HIDE DEF f, p
<1>4. y \in Nat /\ rest \in Nat /\ rest < f /\ s = f * y + rest
  BY <1>1
<1> HIDE DEF y, rest
<1>5. p * (y - x) <= x
  <2>1. p * (s - x * f) = f * (p * (y - x)) + p * rest
    BY <1>1, <1>4
  <2>2. p * rest \in Nat /\ p * (y - x) \in Int /\ f * (p * (y - x)) \in Int /\ x * f = f * x
        /\ f * x \in Nat
    BY <1>1, <1>4
  <2>3. f * (p * (y - x)) <= f * x
    BY <1>3, <2>1, <2>2
  <2> QED
    BY <1>1, <2>2, <2>3, CancelFactor
<1>6. p * (x - y) <= x + p
  <2>1. p * (x * f - s) = f * (p * (x - y)) - p * rest
    BY <1>1, <1>4
  <2>2. /\ p * rest \in Nat /\ p * (x - y) \in Int /\ f * (p * (x - y)) \in Int
        /\ x * f \in Nat /\ p * f \in Nat /\ f * (x + p) = x * f + p * f
    BY <1>1, <1>4
  <2>3. p * rest <= p * f
    BY <1>1, <1>4
  <2>4. f * (p * (x - y)) <= f * (x + p)
    BY <1>3, <2>1, <2>2, <2>3
  <2>5. x + p \in Int
    BY <1>1
  <2> QED
    BY <1>1, <2>2, <2>4, <2>5, CancelFactor
<1> QED
  BY <1>2, <1>4, <1>5, <1>6 DEF p

\* Of a float s near to x rounding is off by no more than a half.
LEMMA RoundedNear ==
  ASSUME NEW x \in Nat, NEW s \in Nat,
         Precision * (s - x * Fine) <= x * Fine, Precision * (x * Fine - s) <= x * Fine
  PROVE  /\ Rounded(s) \in Nat
         /\ 2 * Precision * (Rounded(s) - x) <= 2 * x + Precision
         /\ 2 * Precision * (x - Rounded(s)) <= 2 * x + Precision
<1> DEFINE f == Fine
           p == Precision
           z == 2 * s + f
           y == z \div (2 * f)
           rest == z % (2 * f)
<1>1. f \in Nat \ {0} /\ p \in Nat \ {0}
  BY LocalConstants
<1>2. Rounded(s) = y
  BY DEF Rounded
<1>3. p * (s - x * f) <= x * f /\ p * (x * f - s) <= x * f
  OBVIOUS
<1> HIDE DEF f, p
<1>4. z \in Nat /\ 2 * f \in Nat \ {0}
  BY <1>1
<1>5. y \in Nat /\ rest \in Nat /\ rest < 2 * f /\ z = (2 * f) * y + rest
  <2> HIDE DEF z
  <2> QED
    BY <1>4
<1>6. 2 * s = (2 * f) * y + (rest - f)
  BY <1>1, <1>5
<1> HIDE DEF y, rest, z
<1>7. 2 * p * (y - x) <= 2 * x + p
  <2>1. 2 * (p * (s - x * f)) = f * (2 * p * (y - x)) + (p * rest - p * f)
    <3>1. 2 * (p * (s - x * f)) = p * (2 * s - 2 * (x * f))
      BY <1>1
    <3>2. p * (2 * s - 2 * (x * f)) = p * (((2 * f) * y + (rest - f)) - 2 * (x * f))
      BY <1>6
    <3>3. p * (((2 * f) * y + (rest - f)) - 2 * (x * f))
             = f * (2 * p * (y - x)) + (p * rest - p * f)
      BY <1>1, <1>5
    <3> QED
      BY <3>1, <3>2, <3>3
  <2>2. /\ p * rest \in Nat /\ p * f \in Nat /\ 2 * p * (y - x) \in Int
        /\ f * (2 * p * (y - x)) \in Int /\ x * f \in Nat
        /\ f * (2 * x + p) = 2 * (x * f) + p * f /\ 2 * x + p \in Int
        /\ p * (s - x * f) \in Int
    BY <1>1, <1>5
  <2>3. f * (2 * p * (y - x)) <= f * (2 * x + p)
    BY <1>3, <2>1, <2>2
  <2> QED
    BY <1>1, <2>2, <2>3, CancelFactor
<1>8. 2 * p * (x - y) <= 2 * x + p
  <2>1. 2 * (p * (x * f - s)) = f * (2 * p * (x - y)) - (p * rest - p * f)
    <3>1. 2 * (p * (x * f - s)) = p * (2 * (x * f) - 2 * s)
      BY <1>1
    <3>2. p * (2 * (x * f) - 2 * s) = p * (2 * (x * f) - ((2 * f) * y + (rest - f)))
      BY <1>6
    <3>3. p * (2 * (x * f) - ((2 * f) * y + (rest - f)))
             = f * (2 * p * (x - y)) - (p * rest - p * f)
      BY <1>1, <1>5
    <3> QED
      BY <3>1, <3>2, <3>3
  <2>2. /\ p * rest \in Nat /\ p * f \in Nat /\ 2 * p * (x - y) \in Int
        /\ f * (2 * p * (x - y)) \in Int /\ x * f \in Nat
        /\ f * (2 * x + p) = 2 * (x * f) + p * f /\ 2 * x + p \in Int
        /\ p * (x * f - s) \in Int
    BY <1>1, <1>5
  <2>3. p * rest <= 2 * (p * f)
    <3>1. p * rest <= p * (2 * f)
      BY <1>1, <1>5
    <3> QED
      BY <1>1, <3>1
  <2>4. f * (2 * p * (x - y)) <= f * (2 * x + p)
    BY <1>3, <2>1, <2>2, <2>3
  <2> QED
    BY <1>1, <2>2, <2>4, CancelFactor
<1> QED
  BY <1>2, <1>5, <1>7, <1>8 DEF p

\* What the reader makes of what a file keeps of a bar is near that bar.
LEMMA CutGivesBack ==
  ASSUME NEW k \in FileBars
  PROVE  GivesBack(k, DecodeRecord(Cut(format, k)))
<1>1. /\ FileDays \subseteq Nat /\ DayWidth \in Nat \ {0} /\ Precision \in Nat \ {0}
      /\ Quotations \subseteq [price : Nat, volume : Nat, amount : Nat]
  BY LocalConstants
<1>2. PICK d \in FileDays, m \in FileMinutes, q \in Quotations :
         k = [day |-> d, minute |-> m, quote |-> q]
  BY DEF FileBars
<1>3. PICK p \in Nat, v \in Nat, a \in Nat : q = [price |-> p, volume |-> v, amount |-> a]
  BY <1>1
<1> DEFINE b == DecodeRecord(Cut(format, k))
           amount == Rounded(Single(a))
           price == CutOff(Single(p))
           tens == p \div 10
<1>4. /\ 2 * Precision * (amount - a) <= 2 * a + Precision
      /\ 2 * Precision * (a - amount) <= 2 * a + Precision
  BY <1>3, SingleIsNear, RoundedNear
<1>5. Precision * (price - p) <= p /\ Precision * (p - price) <= p + Precision
  BY <1>3, SingleIsNear, CutOffNear
<1>6. 10 * tens <= p /\ p < 10 * tens + 10
  BY <1>3
<1>7. d < DayWidth => d % DayWidth = d
  BY <1>1
<1> HIDE DEF amount, price, tens
<1>8. CASE format = "day"
  <2>1. b = [day |-> d, minute |-> 0,
             quote |-> [price |-> 10 * tens, volume |-> v, amount |-> amount]]
    BY <1>2, <1>3, <1>8 DEF DecodeRecord, Cut, amount, tens
  <2> HIDE DEF b
  <2>2. GivesBack(k, b)
    BY <1>2, <1>3, <1>4, <1>6, <1>8, <2>1 DEF GivesBack
  <2> QED
    BY <2>2 DEF b
<1>9. CASE format # "day"
  <2>1. b = [day |-> d % DayWidth, minute |-> m,
             quote |-> [price |-> price, volume |-> v, amount |-> amount]]
    BY <1>2, <1>3, <1>9 DEF DecodeRecord, Cut, amount, price
  <2> HIDE DEF b
  <2>2. GivesBack(k, b)
    BY <1>2, <1>3, <1>4, <1>5, <1>7, <1>9, <2>1 DEF GivesBack
  <2> QED
    BY <2>2 DEF b
<1> QED
  BY <1>8, <1>9

\* Of what is written to a file every bar is read back, in order and up to what
\* the format can keep, whatever the bars, the format and the kind of the code
\* are; only the empty bars of the last minutes of a .lc1 file are lost.
THEOREM FilesRoundTrip == LocalSpec => []LocalRoundTrip
<1>1. LocalInit => LocalInv
  <2> SUFFICES ASSUME LocalInit PROVE LocalInv
    OBVIOUS
  <2>1. written \in BoundedSeq(FileBars, MaxFileBars)
    BY DEF LocalInit
  <2>2. written \in Seq(FileBars)
    <3>1. written \in UNION {[1 .. m -> FileBars] : m \in 0 .. MaxFileBars}
      BY <2>1 DEF BoundedSeq, SeqOf
    <3>2. PICK m \in 0 .. MaxFileBars : written \in [1 .. m -> FileBars]
      BY <3>1
    <3> QED
      BY <3>2, LocalConstants
  <2> QED
    BY <2>2 DEF LocalInit, LocalInv, LocalTypeOK, LocalRoundTrip
<1>2. LocalInv /\ [LocalNext]_fileVars => LocalInv'
  <2> SUFFICES ASSUME LocalInv, [LocalNext]_fileVars PROVE LocalInv'
    OBVIOUS
  <2>1. LocalTypeOK
    BY DEF LocalInv
  <2>2. CASE WriteFile
    <3>1. /\ format' = format /\ isIndex' = isIndex /\ written' = written /\ fileStep' = "read"
          /\ file' = FlattenSeq([i \in 1 .. Len(written) |-> RecordsOf(i)])
      BY <2>2 DEF WriteFile
    <3>2. Kept(format', BarsOf(isIndex', file')) = CutAll(format', Kept(format', written'))
      BY <2>1, <3>1, WrittenIsRead
    <3>3. LocalTypeOK'
      BY <2>1, <3>1 DEF LocalTypeOK
    <3>4. LocalRoundTrip'
      BY <3>1 DEF LocalRoundTrip
    <3> QED
      BY <3>2, <3>3, <3>4 DEF LocalInv
  <2>3. CASE ReadFile
    <3> DEFINE given == Kept(format, written)
               n == Len(given)
    <3>1. /\ format' = format /\ isIndex' = isIndex /\ written' = written /\ fileStep' = "done"
          /\ fileStep = "read"
      BY <2>3 DEF ReadFile
    <3>2. readBack' = [i \in 1 .. Len(Kept(format, BarsOf(isIndex, file))) |->
                          DecodeRecord(Kept(format, BarsOf(isIndex, file))[i])]
      BY <2>3 DEF ReadFile, Kept, BarsOf, StoredBar, Lots
    <3>3. Kept(format, BarsOf(isIndex, file)) = CutAll(format, given)
      BY <3>1 DEF LocalInv
    <3>4. given \in Seq(FileBars)
      <4>1. written \in Seq(FileBars)
        BY <2>1 DEF LocalTypeOK
      <4>2. CASE format = "lc1"
        <5>1. PICK read : ReadUpTo(read, written, FileBars)
          BY <4>1, WithoutEmptyFacts
        <5>2. WithoutEmpty(written) \in Seq(FileBars)
          BY <4>1, <5>1 DEF ReadUpTo
        <5> QED
          BY <4>2, <5>2 DEF Kept
      <4>3. CASE format # "lc1"
        BY <4>1, <4>3 DEF Kept
      <4> QED
        BY <4>2, <4>3
    <3> HIDE DEF given
    <3>5. n \in Nat /\ \A i \in 1 .. n : given[i] \in FileBars
      BY <3>4
    <3>6. CutAll(format, given) = [i \in 1 .. n |-> Cut(format, given[i])]
      BY DEF CutAll
    <3> HIDE DEF n
    <3>7. Len(CutAll(format, given)) = n
      BY <3>5, <3>6
    <3>8. readBack' = [i \in 1 .. n |-> DecodeRecord(Cut(format, given[i]))]
      BY <3>2, <3>3, <3>6, <3>7
    <3>9. \A i \in 1 .. n : GivesBack(given[i], readBack'[i])
      BY <3>5, <3>8, CutGivesBack
    <3>10. Len(readBack') = n
      BY <3>5, <3>8
    <3>11. \A i \in 1 .. n : GivesBack(given[i], readBack[i])'
      BY <3>1, <3>9 DEF GivesBack, given, Kept
    <3>12. LocalRoundTrip'
      BY <3>1, <3>10, <3>11 DEF LocalRoundTrip, given, Kept, n
    <3>13. LocalTypeOK'
      BY <2>1, <3>1 DEF LocalTypeOK
    <3> QED
      BY <3>1, <3>12, <3>13 DEF LocalInv
  <2>4. CASE UNCHANGED fileVars
    <3>1. LocalRoundTrip'
      BY <2>4 DEF LocalInv, LocalRoundTrip, GivesBack, fileVars
    <3> QED
      BY <2>4, <3>1 DEF LocalInv, LocalTypeOK, fileVars
  <2> QED
    BY <2>2, <2>3, <2>4 DEF LocalNext
<1>3. LocalInv => LocalRoundTrip
  BY DEF LocalInv
<1> QED
  BY <1>1, <1>2, <1>3, PTL DEF LocalSpec

(***************************************************************************)
(* The codes of securities.                                                *)
(***************************************************************************)
\* The ranges as intervals of numbers.
LEMMA Ranges ==
  ASSUME NEW h \in 0 .. AllNines
  PROVE  /\ SHStock(h) <=> h \in 600 .. 699
         /\ SZStock(h) <=> h \in 0 .. 99 \/ h \in 300 .. 309
         /\ BJStock(h) <=> h \in 920 .. 929
         /\ SHETF(h) <=> h \in 500 .. 539 \/ h \in 560 .. 569 \/ h \in 580 .. 589
         /\ SZETF(h) <=> h \in 150 .. 169
         /\ SHIndex(h) <=> h = 0 \/ h = 1000
         /\ SZIndex(h) <=> h = 399
         /\ BJIndex(h) <=> h = 899
         /\ Block(h) <=> h = 880 \/ h = 881
         /\ SHBond(h) => h \in 110 .. 118
         /\ SZBond(h) => h \in 123 .. 128
<1>1. CASE h = 1000
  BY <1>1 DEF SHStock, SZStock, BJStock, SHETF, SZETF, SHIndex, SZIndex, BJIndex, Block, SHBond,
              SZBond, Two, One, AllNines
<1>2. CASE h # 1000
  <2> DEFINE t == h \div 10
             o == t \div 10
  <2>1. h \in 0 .. 999 /\ Two(h) = t /\ One(h) = o
    BY <1>2 DEF Two, One, AllNines
  <2>2. t \in 0 .. 99 /\ 10 * t <= h /\ h <= 10 * t + 9 /\ o \in 0 .. 9 /\ 10 * o <= t /\ t <= 10 * o + 9
    BY <2>1
  <2> HIDE DEF t, o
  <2>3. SHStock(h) <=> h \in 600 .. 699
    BY <2>1, <2>2 DEF SHStock
  <2>4. SZStock(h) <=> h \in 0 .. 99 \/ h \in 300 .. 309
    BY <2>1, <2>2 DEF SZStock
  <2>5. /\ BJStock(h) <=> h \in 920 .. 929
        /\ SHETF(h) <=> h \in 500 .. 539 \/ h \in 560 .. 569 \/ h \in 580 .. 589
        /\ SZETF(h) <=> h \in 150 .. 169
    BY <2>1, <2>2 DEF BJStock, SHETF, SZETF
  <2>6. /\ SHIndex(h) <=> h = 0 \/ h = 1000
        /\ SZIndex(h) <=> h = 399
        /\ BJIndex(h) <=> h = 899
        /\ Block(h) <=> h = 880 \/ h = 881
        /\ SHBond(h) => h \in 110 .. 118
        /\ SZBond(h) => h \in 123 .. 128
    BY <2>1 DEF SHIndex, SZIndex, BJIndex, Block, SHBond, SZBond, AllNines
  <2> QED
    BY <2>3, <2>4, <2>5, <2>6
<1> QED
  BY <1>1, <1>2

\* No two ranges meet, but for 000.
LEMMA Apart ==
  ASSUME NEW h \in 0 .. AllNines
  PROVE  /\ SHStock(h) => ~SZStock(h) /\ ~BJStock(h) /\ ~SHETF(h) /\ ~SZETF(h) /\ ~SHIndex(h)
                          /\ ~SZIndex(h) /\ ~BJIndex(h) /\ ~Block(h) /\ ~SHBond(h) /\ ~SZBond(h)
         /\ SZStock(h) => ~BJStock(h) /\ ~SHETF(h) /\ ~SZETF(h) /\ (SHIndex(h) => h = 0)
                          /\ ~SZIndex(h) /\ ~BJIndex(h) /\ ~Block(h) /\ ~SHBond(h) /\ ~SZBond(h)
         /\ BJStock(h) => ~SHETF(h) /\ ~SZETF(h) /\ ~SHIndex(h)
                          /\ ~SZIndex(h) /\ ~BJIndex(h) /\ ~Block(h) /\ ~SHBond(h) /\ ~SZBond(h)
         /\ SHETF(h) => ~SZETF(h) /\ ~SHIndex(h) /\ ~SZIndex(h) /\ ~BJIndex(h) /\ ~Block(h)
                        /\ ~SHBond(h) /\ ~SZBond(h)
         /\ SZETF(h) => ~SHIndex(h) /\ ~SZIndex(h) /\ ~BJIndex(h) /\ ~Block(h)
                        /\ ~SHBond(h) /\ ~SZBond(h)
         /\ SHIndex(h) => ~SZIndex(h) /\ ~BJIndex(h) /\ ~Block(h) /\ ~SHBond(h) /\ ~SZBond(h)
         /\ SZIndex(h) => ~BJIndex(h) /\ ~Block(h) /\ ~SHBond(h) /\ ~SZBond(h)
         /\ BJIndex(h) => ~Block(h) /\ ~SHBond(h) /\ ~SZBond(h)
         /\ Block(h) => ~SHBond(h) /\ ~SZBond(h)
         /\ SHBond(h) => ~SZBond(h)
<1> DEFINE a == SHStock(h)
<1> QED
  BY Ranges, SMTT(60)

\* A listed number is of one class, and its exchange is found from it.
LEMMA FoundAgain ==
  ASSUME NEW h \in 0 .. AllNines, NEW ex \in {"sh", "sz", "bj"}
  PROVE  /\ IsStock(ex, h) => /\ ~IsETF(ex, h) /\ ~IsIndex(ex, h) /\ ~IsBlock(ex, h)
                              /\ AddPrefix(h) = ex
                              /\ ClassOf(ex, h) = "cn/stock"
         /\ IsETF(ex, h) => /\ ~IsIndex(ex, h) /\ ~IsBlock(ex, h)
                            /\ AddPrefix(h) = ex
                            /\ ClassOf(ex, h) = "cn/etf"
         /\ IsIndex(ex, h) => /\ (h = 0 /\ ex = "sh") \/ AddPrefix(h) = ex
                              /\ ClassOf(ex, h) = IF IsBlock(ex, h) THEN "cn/block" ELSE "cn/index"
         /\ Block(h) => AddPrefix(h) = "sh" /\ IsBlock("sh", h)
<1>1. CASE ex = "sh"
  <2>1. /\ IsStock(ex, h) <=> SHStock(h)
        /\ IsETF(ex, h) <=> SHETF(h)
        /\ IsBlock(ex, h) <=> Block(h)
        /\ IsIndex(ex, h) <=> SHIndex(h) \/ Block(h)
    BY <1>1 DEF IsStock, IsETF, IsBlock, IsIndex
  <2>2. CASE SHStock(h)
    <3>1. AddPrefix(h) = ex
      BY <1>1, <2>2, Apart DEF AddPrefix
    <3>2. ClassOf(ex, h) = "cn/stock"
      BY <2>1, <2>2, Apart DEF ClassOf
    <3> QED
      BY <2>1, <2>2, <3>1, <3>2, Apart
  <2>3. CASE SHETF(h)
    <3>1. AddPrefix(h) = ex
      BY <1>1, <2>3, Apart DEF AddPrefix
    <3>2. ClassOf(ex, h) = "cn/etf"
      BY <2>1, <2>3, Apart DEF ClassOf
    <3> QED
      BY <2>1, <2>3, <3>1, <3>2, Apart
  <2>4. CASE SHIndex(h)
    <3>1. h = 0 \/ AddPrefix(h) = ex
      BY <1>1, <2>4, Apart DEF AddPrefix
    <3>2. ClassOf(ex, h) = "cn/index"
      BY <2>1, <2>4, Apart DEF ClassOf
    <3> QED
      BY <1>1, <2>1, <2>4, <3>1, <3>2, Apart
  <2>5. CASE Block(h)
    <3>1. AddPrefix(h) = ex
      BY <1>1, <2>5, Apart DEF AddPrefix
    <3>2. ClassOf(ex, h) = "cn/block"
      BY <2>1, <2>5, Apart DEF ClassOf
    <3> QED
      BY <1>1, <2>1, <2>5, <3>1, <3>2, Apart
  <2> QED
    BY <2>1, <2>2, <2>3, <2>4, <2>5
<1>2. CASE ex = "sz"
  <2>1. /\ IsStock(ex, h) <=> SZStock(h)
        /\ IsETF(ex, h) <=> SZETF(h)
        /\ ~IsBlock(ex, h)
        /\ IsIndex(ex, h) <=> SZIndex(h)
    BY <1>2 DEF IsStock, IsETF, IsBlock, IsIndex
  <2>2. CASE SZStock(h)
    <3>1. AddPrefix(h) = ex
      BY <1>2, <2>2, Apart DEF AddPrefix
    <3>2. ClassOf(ex, h) = "cn/stock"
      BY <2>1, <2>2, Apart DEF ClassOf
    <3> QED
      BY <2>1, <2>2, <3>1, <3>2, Apart
  <2>3. CASE SZETF(h)
    <3>1. AddPrefix(h) = ex
      BY <1>2, <2>3, Apart DEF AddPrefix
    <3>2. ClassOf(ex, h) = "cn/etf"
      BY <2>1, <2>3, Apart DEF ClassOf
    <3> QED
      BY <2>1, <2>3, <3>1, <3>2, Apart
  <2>4. CASE SZIndex(h)
    <3>1. AddPrefix(h) = ex
      BY <1>2, <2>4, Apart DEF AddPrefix
    <3>2. ClassOf(ex, h) = "cn/index"
      BY <2>1, <2>4, Apart DEF ClassOf
    <3> QED
      BY <2>1, <2>4, <3>1, <3>2, Apart
  <2>5. Block(h) => AddPrefix(h) = "sh" /\ IsBlock("sh", h)
    BY Apart DEF AddPrefix, IsBlock
  <2> QED
    BY <2>1, <2>2, <2>3, <2>4, <2>5
<1>3. CASE ex = "bj"
  <2>1. /\ IsStock(ex, h) <=> BJStock(h)
        /\ ~IsETF(ex, h)
        /\ ~IsBlock(ex, h)
        /\ IsIndex(ex, h) <=> BJIndex(h)
    BY <1>3 DEF IsStock, IsETF, IsBlock, IsIndex
  <2>2. CASE BJStock(h)
    <3>1. AddPrefix(h) = ex
      BY <1>3, <2>2, Apart DEF AddPrefix
    <3>2. ClassOf(ex, h) = "cn/stock"
      BY <2>1, <2>2, Apart DEF ClassOf
    <3> QED
      BY <2>1, <2>2, <3>1, <3>2, Apart
  <2>4. CASE BJIndex(h)
    <3>1. AddPrefix(h) = ex
      BY <1>3, <2>4, Apart DEF AddPrefix
    <3>2. ClassOf(ex, h) = "cn/index"
      BY <2>1, <2>4, Apart DEF ClassOf
    <3> QED
      BY <2>1, <2>4, <3>1, <3>2, Apart
  <2>5. Block(h) => AddPrefix(h) = "sh" /\ IsBlock("sh", h)
    BY Apart DEF AddPrefix, IsBlock
  <2> QED
    BY <2>1, <2>2, <2>4, <2>5
<1> QED
  BY <1>1, <1>2, <1>3

\* What the markets list, one by one.
ListOf(market, taken) == {Std(market, q[1], q[2]) : q \in taken}

Drawn(code, market, taken) ==
    \E ex \in {"sh", "sz", "bj"}, h \in Heads : <<ex, h>> \in taken /\ code = Std(market, ex, h)

LEMMA ListOfFacts ==
  ASSUME NEW taken \in SUBSET ({"sh", "sz", "bj"} \X Heads), NEW market, NEW code
  PROVE  code \in ListOf(market, taken) <=> Drawn(code, market, taken)
<1>1. ASSUME NEW q \in taken, code = Std(market, q[1], q[2])
      PROVE  \E ex \in {"sh", "sz", "bj"}, h \in Heads :
                <<ex, h>> \in taken /\ code = Std(market, ex, h)
  <2>1. q[1] \in {"sh", "sz", "bj"} /\ q[2] \in Heads /\ q = <<q[1], q[2]>>
    OBVIOUS
  <2> QED
    BY <1>1, <2>1
<1>2. ASSUME NEW ex \in {"sh", "sz", "bj"}, NEW h \in Heads,
             <<ex, h>> \in taken, code = Std(market, ex, h)
      PROVE  code \in ListOf(market, taken)
  <2> DEFINE q == <<ex, h>>
  <2>1. q \in taken /\ q[1] = ex /\ q[2] = h
    BY <1>2
  <2>2. code = Std(market, q[1], q[2])
    BY <1>2, <2>1
  <2> HIDE DEF q
  <2> QED
    BY <2>1, <2>2 DEF ListOf
<1> QED
  BY <1>1, <1>2 DEF ListOf, Drawn

LEMMA StdCodes ==
  ASSUME NEW code
  PROVE  code \in StdList <=>
           \/ \E ex \in {"sh", "sz", "bj"}, h \in Heads :
                 IsStock(ex, h) /\ code = Std("cn/stock", ex, h)
           \/ \E ex \in {"sh", "sz", "bj"}, h \in Heads :
                 IsETF(ex, h) /\ code = Std("cn/etf", ex, h)
           \/ \E ex \in {"sh", "sz", "bj"}, h \in Heads :
                 IsIndex(ex, h) /\ code = Std("cn/index", ex, h)
           \/ \E h \in Heads : Block(h) /\ code = Std("cn/block", AddPrefix(h), h)
<1> DEFINE numbers == {"sh", "sz", "bj"} \X Heads
           stocks == {q \in numbers : IsStock(q[1], q[2])}
           etfs == {q \in numbers : IsETF(q[1], q[2])}
           indexes == {q \in numbers : IsIndex(q[1], q[2])}
           blocks == {Std("cn/block", AddPrefix(h), h) : h \in {k \in Heads : Block(k)}}
<1>1. StdList = ListOf("cn/stock", stocks) \cup ListOf("cn/etf", etfs) \cup ListOf("cn/index", indexes) \cup blocks
  BY DEF StdList, ListOf
<1>2. \A ex \in {"sh", "sz", "bj"}, h \in Heads :
         /\ <<ex, h>> \in stocks <=> IsStock(ex, h)
         /\ <<ex, h>> \in etfs <=> IsETF(ex, h)
         /\ <<ex, h>> \in indexes <=> IsIndex(ex, h)
  OBVIOUS
<1>3. code \in blocks <=> \E h \in Heads : Block(h) /\ code = Std("cn/block", AddPrefix(h), h)
  OBVIOUS
<1>4. /\ stocks \in SUBSET numbers /\ etfs \in SUBSET numbers
      /\ indexes \in SUBSET numbers
  OBVIOUS
<1> HIDE DEF stocks, etfs, indexes, blocks
<1>5. code \in ListOf("cn/stock", stocks) <=> Drawn(code, "cn/stock", stocks)
  BY <1>4, ListOfFacts
<1>6. code \in ListOf("cn/etf", etfs) <=> Drawn(code, "cn/etf", etfs)
  BY <1>4, ListOfFacts
<1>7. code \in ListOf("cn/index", indexes) <=> Drawn(code, "cn/index", indexes)
  BY <1>4, ListOfFacts
<1>8. code \in StdList <=>
         \/ code \in ListOf("cn/stock", stocks) \/ code \in ListOf("cn/etf", etfs)
         \/ code \in ListOf("cn/index", indexes) \/ code \in blocks
  BY <1>1
<1> QED
  BY <1>2, <1>3, <1>5, <1>6, <1>7, <1>8 DEF Drawn

\* A number that is listed is listed by one of the markets of stocks, funds
\* and indexes.
LEMMA OneMarket ==
  ASSUME NEW h \in Heads, NEW ex \in {"sh", "sz", "bj"},
         IsStock(ex, h) \/ IsETF(ex, h) \/ IsIndex(ex, h)
  PROVE  Cardinality({m \in {"cn/stock", "cn/etf", "cn/index"} : Std(m, ex, h) \in StdList}) = 1
<1>0. h \in 0 .. AllNines
  BY CodeConstants
<1>1. ASSUME NEW a, NEW b, NEW x, NEW y, NEW i, NEW j
      PROVE  Std(a, x, i) = Std(b, y, j) <=> a = b /\ x = y /\ i = j
  <2> DEFINE s == Std(a, x, i)
             t == Std(b, y, j)
  <2>1. s.market = a /\ s.ex = x /\ s.head = i /\ t.market = b /\ t.ex = y /\ t.head = j
    BY DEF Std
  <2> QED
    BY <2>1
<1>2. /\ Std("cn/stock", ex, h) \in StdList <=> IsStock(ex, h)
      /\ Std("cn/etf", ex, h) \in StdList <=> IsETF(ex, h)
      /\ Std("cn/index", ex, h) \in StdList <=> IsIndex(ex, h)
  BY <1>1, StdCodes
<1>3. PICK m \in {"cn/stock", "cn/etf", "cn/index"} :
         {n \in {"cn/stock", "cn/etf", "cn/index"} : Std(n, ex, h) \in StdList} = {m}
  <2>1. CASE IsStock(ex, h)
    <3>1. ~IsETF(ex, h) /\ ~IsIndex(ex, h)
      BY <1>0, <2>1, FoundAgain
    <3> QED
      BY <1>2, <2>1, <3>1
  <2>2. CASE IsETF(ex, h)
    <3>1. ~IsStock(ex, h) /\ ~IsIndex(ex, h)
      BY <1>0, <2>2, FoundAgain
    <3> QED
      BY <1>2, <2>2, <3>1
  <2>3. CASE IsIndex(ex, h)
    <3>1. ~IsStock(ex, h) /\ ~IsETF(ex, h)
      BY <1>0, <2>3, FoundAgain
    <3> QED
      BY <1>2, <2>3, <3>1
  <2> QED
    BY <2>1, <2>2, <2>3
<1> QED
  BY <1>3, FS_Singleton

\* What is known of a listed number.
Listed(code, ex, h) ==
    /\ code.ex = ex /\ code.head = h /\ code.shape = "six"
    /\ code = Std(code.market, ex, h) /\ code.market \notin {"hk/stock", "us/stock", Unknown}
    /\ (IsStock(ex, h) \/ IsETF(ex, h) \/ IsIndex(ex, h))
    /\ ClassOf(ex, h) = IF IsBlock(ex, h) THEN "cn/block" ELSE code.market
    /\ (h = 0 /\ ex = "sh") \/ AddPrefix(h) = ex

LEMMA ListedStd ==
  ASSUME NEW code \in StdList
  PROVE  \E ex \in {"sh", "sz", "bj"}, h \in Heads : Listed(code, ex, h)
<1>1. \A h \in Heads : h \in 0 .. AllNines
  BY CodeConstants
<1>2. ASSUME NEW market, NEW ex, NEW h, code = Std(market, ex, h)
      PROVE  /\ code.ex = ex /\ code.head = h /\ code.shape = "six" /\ code.market = market
             /\ code = Std(code.market, ex, h)
  BY <1>2 DEF Std
<1>3. ASSUME NEW ex \in {"sh", "sz", "bj"}, NEW h \in Heads,
             IsStock(ex, h), code = Std("cn/stock", ex, h)
      PROVE  Listed(code, ex, h)
  BY <1>1, <1>2, <1>3, FoundAgain DEF Listed, Unknown
<1>4. ASSUME NEW ex \in {"sh", "sz", "bj"}, NEW h \in Heads,
             IsETF(ex, h), code = Std("cn/etf", ex, h)
      PROVE  Listed(code, ex, h)
  BY <1>1, <1>2, <1>4, FoundAgain DEF Listed, Unknown
<1>5. ASSUME NEW ex \in {"sh", "sz", "bj"}, NEW h \in Heads,
             IsIndex(ex, h), code = Std("cn/index", ex, h)
      PROVE  Listed(code, ex, h)
  BY <1>1, <1>2, <1>5, FoundAgain DEF Listed, Unknown
<1>6. ASSUME NEW h \in Heads, Block(h), code = Std("cn/block", AddPrefix(h), h)
      PROVE  Listed(code, "sh", h)
  <2>1. AddPrefix(h) = "sh" /\ IsBlock("sh", h)
    BY <1>1, <1>6, FoundAgain
  <2>2. IsIndex("sh", h)
    BY <2>1 DEF IsIndex
  <2>3. ClassOf("sh", h) = "cn/block"
    BY <1>1, <2>1, <2>2, FoundAgain
  <2> QED
    BY <1>2, <1>6, <2>1, <2>2, <2>3 DEF Listed, Unknown
<1>7. "sh" \in {"sh", "sz", "bj"}
  OBVIOUS
<1> QED
  BY <1>3, <1>4, <1>5, <1>6, <1>7, StdCodes

\* Where a code belongs that was written down in a form.
HomeOf(code, form) ==
    IF IsBlock(code.ex, code.head) /\ form # "full" THEN [code EXCEPT !.market = "cn/block"] ELSE code

Route(code, form, to, of) ==
    /\ form \in {"key", "full"} => to = HomeOf(code, form)
    /\ form = "bare" /\ ~Ambiguous(code) => to = HomeOf(code, form)
    /\ of # Unknown /\ ~(form = "bare" /\ Ambiguous(code)) => of = code.ex
    /\ code.shape = "six" => Cardinality({m \in {"cn/stock", "cn/etf", "cn/index"} :
                                            Std(m, code.ex, code.head) \in StdList}) = 1

\* A code with its market before it is read as it was.
LEMMA InsideMarket ==
  ASSUME NEW text, NEW market, NEW ex, NEW shape, NEW head,
         text.shape = shape, text.head = head,
         \/ text.before = "market." /\ text.name = market
         \/ text.before = "US." /\ market = "us/stock"
  PROVE  ParseCode(text, ex) = [market |-> market, ex |-> ex, shape |-> shape, head |-> head]
<1>1. ParseCode(text, ex) = SplitKey(text, ex)
  BY DEF ParseCode
<1>2. SplitKey(text, ex) = Inside(text, Ext(market, ex, ""))
  BY DEF SplitKey
<1>3. Ext(market, ex, "").market = market /\ Ext(market, ex, "").ex = ex
  BY DEF Ext
<1> QED
  BY <1>1, <1>2, <1>3 DEF Inside

LEMMA StdRoutes ==
  ASSUME NEW code \in StdList, NEW form \in {"key", "full", "bare"}, WriteDown(code, form)
  PROVE  Route(code, form, routed', askedOf')
<1>1. PICK ex \in {"sh", "sz", "bj"}, h \in Heads : Listed(code, ex, h)
  BY ListedStd
<1> DEFINE market == code.market
           home == IF IsBlock(ex, h) THEN "cn/block" ELSE market
<1>2. /\ code = [market |-> market, ex |-> ex, shape |-> "six", head |-> h]
      /\ code.ex = ex /\ code.head = h /\ code.shape = "six"
      /\ code.market \notin {"hk/stock", "us/stock", Unknown}
      /\ ClassOf(ex, h) = home /\ home # Unknown
      /\ (h = 0 /\ ex = "sh") \/ AddPrefix(h) = ex
  BY <1>1 DEF Listed, Std, Unknown
<1>3. Cardinality({m \in {"cn/stock", "cn/etf", "cn/index"} :
                     Std(m, code.ex, code.head) \in StdList}) = 1
  <2>1. Cardinality({m \in {"cn/stock", "cn/etf", "cn/index"} : Std(m, ex, h) \in StdList}) = 1
    BY <1>1, OneMarket DEF Listed
  <2> QED
    BY <1>2, <2>1
<1> HIDE DEF market
<1>4. HomeOf(code, "key") = Std(home, ex, h) /\ HomeOf(code, "bare") = Std(home, ex, h)
      /\ HomeOf(code, "full") = code
  BY <1>2 DEF HomeOf, Std
<1>5. CASE form = "key"
  <2> DEFINE text == Key(code)
  <2>1. routed' = ParseCode(text, ex) /\ askedOf' = Decode(text)
    BY <1>2, <1>5 DEF WriteDown
  <2>2. text.before = "exchange" /\ text.name = ex /\ text.shape = "six" /\ text.head = h
    <3>1. text = AsWritten("exchange", code.ex, code)
      BY <1>2 DEF Key
    <3> HIDE DEF text
    <3> QED
      BY <1>2, <3>1 DEF AsWritten
  <2> HIDE DEF text
  <2>3. ParseCode(text, ex) = Std(home, ex, h)
    <3>1. ParseCode(text, ex) = Classified(text.name, text.head)
      BY <2>2 DEF ParseCode
    <3>2. Classified(ex, h) = Std(home, ex, h)
      BY <1>2 DEF Classified
    <3> QED
      BY <2>2, <3>1, <3>2
  <2>4. Decode(text) = ex
    BY <2>2 DEF Decode
  <2> QED
    BY <1>2, <1>3, <1>4, <1>5, <2>1, <2>3, <2>4 DEF Route
<1>6. CASE form = "full"
  <2> DEFINE text == FullKey(code)
  <2>1. routed' = ParseCode(text, ex) /\ askedOf' = Unknown
    BY <1>2, <1>6 DEF WriteDown
  <2>2. text.before = "market." /\ text.name = market /\ text.shape = "six" /\ text.head = h
    BY <1>2 DEF FullKey, AsWritten, market
  <2> HIDE DEF text
  <2>3. ParseCode(text, ex) = code
    BY <1>2, <2>2, InsideMarket
  <2> QED
    BY <1>2, <1>3, <1>4, <1>6, <2>1, <2>3 DEF Route
<1>7. CASE form = "bare"
  <2> DEFINE text == Bare(code)
  <2>1. routed' = ParseCode(text, ex) /\ askedOf' = Decode(text)
    BY <1>2, <1>7 DEF WriteDown
  <2>2. text.before = "" /\ text.shape = "six" /\ text.head = h
    BY <1>2 DEF Bare, AsWritten
  <2> HIDE DEF text
  <2>3. ASSUME AddPrefix(h) = ex PROVE ParseCode(text, ex) = Std(home, ex, h)
    <3>1. ParseCode(text, ex) = Prefixed(h)
      BY <2>2 DEF ParseCode, hkIndexCodes, AllLetter
    <3> QED
      BY <1>2, <2>3, <3>1 DEF Prefixed, Classified
  <2>4. Decode(text) = AddPrefix(h)
    BY <2>2 DEF Decode, AllLetter
  <2>5. Ambiguous(code) \/ AddPrefix(h) = ex
    BY <1>2 DEF Ambiguous
  <2> QED
    BY <1>2, <1>3, <1>4, <1>7, <2>1, <2>3, <2>4, <2>5 DEF Route
<1> QED
  BY <1>5, <1>6, <1>7

\* The codes of the extended quotes, one by one.
LEMMA ExtCodes ==
  ASSUME NEW code \in ExtList
  PROVE  \/ code = Ext("hk/stock", "", "five")
         \/ \E s \in hkIndexCodes \cup {"mixed", "letters"} : code = Ext("hk/index", "", s)
         \/ \E s \in AllLetter \cup {"dotted"} : code = Ext("us/stock", "", s)
         \/ code = Ext("cn/future", "cff", "contract")
BY DEF ExtList

LEMMA ExtRoutes ==
  ASSUME NEW code \in ExtList, NEW form \in {"key", "full", "bare"}, WriteDown(code, form)
  PROVE  Route(code, form, routed', askedOf')
<1>1. PICK market, ex, s :
         /\ \/ market = "hk/stock" /\ ex = "" /\ s = "five"
            \/ market = "hk/index" /\ ex = "" /\ s \in hkIndexCodes \cup {"mixed", "letters"}
            \/ market = "us/stock" /\ ex = "" /\ s \in AllLetter \cup {"dotted"}
            \/ market = "cn/future" /\ ex = "cff" /\ s = "contract"
         /\ code = Ext(market, ex, s)
  <2>1. CASE code = Ext("hk/stock", "", "five")
    BY <2>1
  <2>2. CASE \E s \in hkIndexCodes \cup {"mixed", "letters"} : code = Ext("hk/index", "", s)
    BY <2>2
  <2>3. CASE \E s \in AllLetter \cup {"dotted"} : code = Ext("us/stock", "", s)
    BY <2>3
  <2>4. CASE code = Ext("cn/future", "cff", "contract")
    BY <2>4
  <2> QED
    BY <2>1, <2>2, <2>3, <2>4, ExtCodes
<1>2. /\ code = [market |-> market, ex |-> ex, shape |-> s, head |-> 0]
      /\ code.market = market /\ code.ex = ex /\ code.shape = s /\ code.head = 0 /\ s # "six"
  BY <1>1 DEF Ext, hkIndexCodes, AllLetter
<1>3. askedOf' = Unknown
  BY <1>2 DEF WriteDown
<1>4. HomeOf(code, form) = code
  BY <1>1, <1>2 DEF HomeOf, IsBlock
<1>5. ASSUME NEW text, text.shape = s, text.head = 0,
             \/ text.before = "market." /\ text.name = market
             \/ text.before = "US." /\ market = "us/stock"
      PROVE  ParseCode(text, ex) = code
  BY <1>2, <1>5, InsideMarket
<1>6. CASE form = "full"
  <2> DEFINE text == FullKey(code)
  <2>1. routed' = ParseCode(text, ex)
    BY <1>2, <1>6 DEF WriteDown
  <2>2. text.before = "market." /\ text.name = market /\ text.shape = s /\ text.head = 0
    BY <1>2 DEF FullKey, AsWritten
  <2> HIDE DEF text
  <2>3. routed' = code
    BY <1>5, <2>1, <2>2
  <2> QED
    BY <1>2, <1>3, <1>4, <1>6, <2>3 DEF Route
<1>7. CASE form = "key"
  <2> DEFINE text == Key(code)
  <2>1. routed' = ParseCode(text, ex)
    BY <1>2, <1>7 DEF WriteDown
  <2>2. routed' = code
    <3>1. CASE market = "hk/stock"
      <4>1. text.before = "HK" /\ text.shape = "five" /\ s = "five" /\ ex = ""
        BY <1>1, <1>2, <3>1 DEF Key, AsWritten
      <4> HIDE DEF text
      <4>2. ParseCode(text, ex) = Ext("hk/stock", "", "five")
        BY <4>1 DEF ParseCode
      <4> QED
        BY <1>1, <2>1, <3>1, <4>1, <4>2
    <3>2. CASE market = "us/stock"
      <4>1. text.before = "US." /\ text.shape = s /\ text.head = 0
        BY <1>1, <1>2, <3>2 DEF Key, AsWritten
      <4> HIDE DEF text
      <4> QED
        BY <1>5, <2>1, <3>2, <4>1
    <3>3. CASE market \in {"hk/index", "cn/future"}
      <4>1. text.before = "market." /\ text.name = market /\ text.shape = s /\ text.head = 0
        BY <1>1, <1>2, <3>3 DEF Key, AsWritten
      <4> HIDE DEF text
      <4> QED
        BY <1>5, <2>1, <4>1
    <3> QED
      BY <1>1, <3>1, <3>2, <3>3
  <2> QED
    BY <1>2, <1>3, <1>4, <1>7, <2>2 DEF Route
<1>8. CASE form = "bare"
  <2> DEFINE text == Bare(code)
  <2>1. routed' = ParseCode(text, ex)
    BY <1>2, <1>8 DEF WriteDown
  <2>2. /\ text.before = IF s = "contract" THEN "exchange/" ELSE ""
        /\ text.shape = s
    BY <1>2 DEF Bare, AsWritten
  <2> HIDE DEF text
  <2>3. Ambiguous(code) \/ routed' = code
    <3>1. CASE s = "five"
      <4>1. market = "hk/stock" /\ ex = "" /\ text.before = ""
        BY <1>1, <2>2, <3>1 DEF hkIndexCodes, AllLetter
      <4>2. ParseCode(text, ex) = Ext("hk/stock", "", "five")
        BY <2>2, <3>1, <4>1 DEF ParseCode, hkIndexCodes, AllLetter
      <4> QED
        BY <1>1, <2>1, <3>1, <4>1, <4>2
    <3>2. CASE market = "hk/index" /\ s \in hkIndexCodes
      <4>1. text.before = "" /\ text.shape = s
        BY <2>2, <3>2 DEF hkIndexCodes
      <4>2. ParseCode(text, ex) = Ext("hk/index", "", text.shape)
        BY <3>2, <4>1 DEF ParseCode, hkIndexCodes, AllLetter
      <4> QED
        BY <1>1, <2>1, <3>2, <4>1, <4>2
    <3>3. CASE market = "us/stock" /\ s = "letters"
      <4>1. text.before = "" /\ text.shape = "letters"
        BY <2>2, <3>3
      <4>2. ParseCode(text, ex) = Ext("us/stock", "", "letters")
        BY <4>1 DEF ParseCode, hkIndexCodes, AllLetter
      <4> QED
        BY <1>1, <2>1, <3>3, <4>2
    <3>4. CASE s = "contract"
      <4>1. text.before = "exchange/" /\ text.shape = "contract"
        BY <2>2, <3>4
      <4>2. ParseCode(text, ex) = Ext("cn/future", ex, text.shape)
        BY <4>1 DEF ParseCode
      <4> QED
        BY <1>1, <2>1, <3>4, <4>1, <4>2 DEF hkIndexCodes, AllLetter
    <3>5. CASE \/ s = "dotted" \/ (market = "hk/index" /\ s \notin hkIndexCodes)
               \/ market = "us/stock" /\ s \in hkIndexCodes
      BY <1>2, <3>5 DEF Ambiguous
    <3> QED
      BY <1>1, <3>1, <3>2, <3>3, <3>4, <3>5 DEF hkIndexCodes, AllLetter
  <2> QED
    BY <1>2, <1>3, <1>4, <1>8, <2>3 DEF Route
<1> QED
  BY <1>6, <1>7, <1>8

\* Whatever numbers and names there are, a code that a market lists is found
\* again by what is written down for it, and asked of its own exchange.
THEOREM ListedCodesRoute == CodesSpec => []CodesRoute
<1>1. CodesInit => CodesRoute
  BY DEF CodesInit, CodesRoute
<1>2. CodesRoute /\ [CodesNext]_codeVars => CodesRoute'
  <2> SUFFICES ASSUME CodesRoute, [CodesNext]_codeVars PROVE CodesRoute'
    OBVIOUS
  <2>1. ASSUME NEW code \in StdList \cup ExtList, NEW form \in {"key", "full", "bare"},
               WriteDown(code, form)
        PROVE  CodesRoute'
    <3>1. Route(code, form, routed', askedOf')
      BY <2>1, StdRoutes, ExtRoutes
    <3>2. noted' = [code |-> code, form |-> form]
      BY <2>1 DEF WriteDown
    <3>3. noted'.code = code /\ noted'.form = form
      BY <3>2
    <3> QED
      BY <3>1, <3>3 DEF Route, HomeOf, CodesRoute
  <2>2. CASE UNCHANGED codeVars
    BY <2>2 DEF codeVars, CodesRoute
  <2> QED
    BY <2>1, <2>2 DEF CodesNext
<1> QED
  BY <1>1, <1>2, PTL DEF CodesSpec

(***************************************************************************)
(* What the loops add up.                                                  *)
(***************************************************************************)
Adding(sum, f, I) ==
    /\ sum \in [0 .. Len(f) -> Int]
    /\ sum[0] = 0
    /\ \A i \in 1 .. Len(f) : sum[i] = sum[i - 1] + (IF i \in I THEN f[i] ELSE 0)
    /\ SumOver(f, I) = sum[Len(f)]

LEMMA SumOverFacts ==
  ASSUME NEW f \in Seq(Int), NEW I
  PROVE  \E sum : Adding(sum, f, I)
<1> DEFINE n == Len(f)
           Step(i, x) == x + (IF i \in I THEN f[i] ELSE 0)
           F(g) == [i \in 0 .. n |-> IF i = 0 THEN 0 ELSE Step(i, g[i - 1])]
           step == [i \in 1 .. n |-> [x \in Int |-> Step(i, x)]]
           sum == CHOOSE g : g = F(g)
<1>1. n \in Nat /\ 0 \in Int
  OBVIOUS
<1>2. ASSUME NEW i \in 1 .. n, NEW x \in Int PROVE Step(i, x) \in Int
  <2>1. f[i] \in Int
    OBVIOUS
  <2> QED
    BY <2>1
<1>3. SumOver(f, I) = sum[n]
  BY DEF SumOver
<1> HIDE DEF Step, n
<1>4. step \in [1 .. n -> [Int -> Int]]
  BY <1>2
<1>5. PICK g : Steps(g, n, Int, 0, step)
  <2> HIDE DEF step
  <2> QED
    BY <1>1, <1>4, StepsExist
<1>6. g = F(g)
  <2>1. /\ g \in [0 .. n -> Int] /\ g[0] = 0
        /\ \A i \in 1 .. n : g[i] = step[i][g[i - 1]]
    <3> HIDE DEF step
    <3> QED
      BY <1>5 DEF Steps
  <2>2. ASSUME NEW i \in 0 .. n, i # 0 PROVE g[i] = Step(i, g[i - 1])
    <3>1. i \in 1 .. n /\ i - 1 \in 0 .. n
      BY <1>1, <2>2
    <3>2. g[i - 1] \in Int /\ g[i] = step[i][g[i - 1]]
      <4> HIDE DEF step
      <4> QED
        BY <2>1, <3>1
    <3> QED
      BY <3>1, <3>2
  <2>3. \A i \in 0 .. n : g[i] = IF i = 0 THEN 0 ELSE Step(i, g[i - 1])
    BY <2>1, <2>2
  <2> QED
    BY <2>1, <2>3
<1>7. sum = F(sum)
  <2> HIDE DEF F
  <2> QED
    BY <1>6
<1> HIDE DEF sum
<1>8. sum[0] = 0 /\ \A i \in 1 .. n : sum[i] = Step(i, sum[i - 1])
  <2>1. 0 \in 0 .. n /\ \A i \in 1 .. n : i \in 0 .. n /\ i # 0
    BY <1>1
  <2> QED
    BY <1>7, <2>1
<1>9. \A i \in 0 .. n : sum[i] \in Int
  <2> DEFINE S == {i \in 0 .. n : sum[i] \in Int}
  <2>1. 0 \in S
    BY <1>1, <1>8
  <2>2. ASSUME NEW i \in 1 .. n, i - 1 \in S PROVE i \in S
    <3>1. i \in 0 .. n /\ sum[i - 1] \in Int
      BY <1>1, <2>2
    <3>2. Step(i, sum[i - 1]) \in Int
      BY <1>2, <3>1
    <3> QED
      BY <1>8, <3>1, <3>2
  <2>3. \A i \in 0 .. n : i \in S
    <3> HIDE DEF S
    <3> QED
      BY <1>1, <2>1, <2>2, IntervalInduction
  <2> QED
    BY <2>3
<1>10. sum \in [0 .. n -> Int]
  BY <1>7, <1>9
<1>11. Adding(sum, f, I)
  BY <1>3, <1>8, <1>10 DEF Step, n, Adding
<1> QED
  BY <1>11

LEMMA SumOverType ==
  ASSUME NEW f \in Seq(Int), NEW I
  PROVE  SumOver(f, I) \in Int
<1>1. PICK a : Adding(a, f, I)
  BY SumOverFacts
<1>2. Len(f) \in 0 .. Len(f)
  OBVIOUS
<1> QED
  BY <1>1, <1>2 DEF Adding

LEMMA SumOverNone ==
  ASSUME NEW f \in Seq(Int)
  PROVE  SumOver(f, {}) = 0
<1> DEFINE n == Len(f)
<1>1. PICK a : Adding(a, f, {})
  BY SumOverFacts
<1>2. /\ n \in Nat /\ a[0] = 0 /\ SumOver(f, {}) = a[n]
      /\ \A i \in 1 .. n : a[i] = a[i - 1] + 0
  BY <1>1 DEF Adding
<1> HIDE DEF n
<1> DEFINE S == {i \in 0 .. n : a[i] = 0}
<1>3. 0 \in S
  BY <1>2
<1>4. ASSUME NEW i \in 1 .. n, i - 1 \in S PROVE i \in S
  BY <1>2, <1>4
<1>5. \A i \in 0 .. n : i \in S
  <2> HIDE DEF S
  <2> QED
    BY <1>2, <1>3, <1>4, IntervalInduction
<1> QED
  BY <1>2, <1>5

\* One place alone.
LEMMA SumOverOne ==
  ASSUME NEW f \in Seq(Int), NEW k \in 1 .. Len(f)
  PROVE  SumOver(f, {k}) = f[k]
<1> DEFINE n == Len(f)
<1>1. PICK a : Adding(a, f, {k})
  BY SumOverFacts
<1>2. /\ n \in Nat /\ a[0] = 0 /\ SumOver(f, {k}) = a[n]
      /\ k \in 1 .. n /\ f[k] \in Int
      /\ \A i \in 1 .. n : a[i] = a[i - 1] + (IF i \in {k} THEN f[i] ELSE 0)
  BY <1>1 DEF Adding
<1> HIDE DEF n
<1> DEFINE S == {i \in 0 .. n : a[i] = IF i < k THEN 0 ELSE f[k]}
<1>3. 0 \in S
  BY <1>2
<1>4. ASSUME NEW i \in 1 .. n, i - 1 \in S PROVE i \in S
  <2>1. CASE i = k
    BY <1>2, <1>4, <2>1
  <2>2. CASE i # k
    <3>1. a[i] = a[i - 1] + 0
      BY <1>2, <2>2
    <3> QED
      BY <1>2, <1>4, <2>2, <3>1
  <2> QED
    BY <2>1, <2>2
<1>5. \A i \in 0 .. n : i \in S
  <2> HIDE DEF S
  <2> QED
    BY <1>2, <1>3, <1>4, IntervalInduction
<1> QED
  BY <1>2, <1>5

\* Places apart are added up by parts.
LEMMA SumOverUnion ==
  ASSUME NEW f \in Seq(Int), NEW I, NEW J, I \cap J = {}
  PROVE  SumOver(f, I \cup J) = SumOver(f, I) + SumOver(f, J)
<1> DEFINE n == Len(f)
<1>1. PICK a : Adding(a, f, I)
  BY SumOverFacts
<1>2. PICK b : Adding(b, f, J)
  BY SumOverFacts
<1>3. PICK c : Adding(c, f, I \cup J)
  BY SumOverFacts
<1>4. /\ n \in Nat /\ \A i \in 1 .. n : f[i] \in Int
      /\ a \in [0 .. n -> Int] /\ b \in [0 .. n -> Int] /\ c \in [0 .. n -> Int]
      /\ a[0] = 0 /\ b[0] = 0 /\ c[0] = 0
      /\ SumOver(f, I) = a[n] /\ SumOver(f, J) = b[n] /\ SumOver(f, I \cup J) = c[n]
  BY <1>1, <1>2, <1>3 DEF Adding
<1>5. \A i \in 1 .. n : /\ a[i] = a[i - 1] + (IF i \in I THEN f[i] ELSE 0)
                        /\ b[i] = b[i - 1] + (IF i \in J THEN f[i] ELSE 0)
                        /\ c[i] = c[i - 1] + (IF i \in I \cup J THEN f[i] ELSE 0)
  BY <1>1, <1>2, <1>3 DEF Adding
<1> HIDE DEF n
<1> DEFINE S == {i \in 0 .. n : c[i] = a[i] + b[i]}
<1>6. 0 \in S
  BY <1>4
<1>7. ASSUME NEW i \in 1 .. n, i - 1 \in S PROVE i \in S
  <2>1. i \in 0 .. n /\ i - 1 \in 0 .. n /\ f[i] \in Int
    BY <1>4
  <2>2. a[i - 1] \in Int /\ b[i - 1] \in Int /\ c[i - 1] = a[i - 1] + b[i - 1]
    BY <1>4, <1>7, <2>1
  <2>3. CASE i \in I
    <3>1. a[i] = a[i - 1] + f[i] /\ b[i] = b[i - 1] + 0 /\ c[i] = c[i - 1] + f[i]
      BY <1>5, <2>3
    <3> QED
      BY <2>1, <2>2, <3>1
  <2>4. CASE i \in J
    <3>1. a[i] = a[i - 1] + 0 /\ b[i] = b[i - 1] + f[i] /\ c[i] = c[i - 1] + f[i]
      BY <1>5, <2>4
    <3> QED
      BY <2>1, <2>2, <3>1
  <2>5. CASE i \notin I /\ i \notin J
    <3>1. a[i] = a[i - 1] + 0 /\ b[i] = b[i - 1] + 0 /\ c[i] = c[i - 1] + 0
      BY <1>5, <2>5
    <3> QED
      BY <2>1, <2>2, <3>1
  <2> QED
    BY <2>3, <2>4, <2>5
<1>8. \A i \in 0 .. n : i \in S
  <2> HIDE DEF S
  <2> QED
    BY <1>4, <1>6, <1>7, IntervalInduction
<1> QED
  BY <1>4, <1>8

Parts(P, m) == UNION {P[j] : j \in 1 .. m}

\* g has the sums of f over parts that are apart.
SumsOf(g, f, P, m) ==
    /\ \A j \in 1 .. m : g[j] = SumOver(f, P[j])
    /\ \A j, k \in 1 .. m : j # k => P[j] \cap P[k] = {}

\* The sum of the sums of parts that are apart is the sum of all of them.
LEMMA SumOfParts ==
  ASSUME NEW f \in Seq(Int), NEW g \in Seq(Int), NEW P, NEW m \in Nat, Len(g) = m,
         SumsOf(g, f, P, m)
  PROVE  SumOver(g, 1 .. m) = SumOver(f, Parts(P, m))
<1> DEFINE U(j) == UNION {P[k] : k \in 1 .. j}
<1> USE DEF SumsOf
<1>1. PICK a : Adding(a, g, 1 .. m)
  BY SumOverFacts
<1>2. /\ m \in Nat /\ a[0] = 0 /\ SumOver(g, 1 .. m) = a[m]
      /\ \A j \in 1 .. m : a[j] = a[j - 1] + g[j]
  BY <1>1 DEF Adding
<1> DEFINE S == {j \in 0 .. m : a[j] = SumOver(f, U(j))}
<1>3. 0 \in S
  <2>1. U(0) = {}
    OBVIOUS
  <2>2. a[0] = SumOver(f, U(0))
    <3> HIDE DEF U
    <3> QED
      BY <1>2, <2>1, SumOverNone
  <2> QED
    BY <1>2, <2>2
<1>4. ASSUME NEW j \in 1 .. m, j - 1 \in S PROVE j \in S
  <2>1. U(j) = U(j - 1) \cup P[j]
    <3>1. 1 .. j = (1 .. j - 1) \cup {j}
      BY <1>2
    <3> QED
      BY <3>1
  <2>2. U(j - 1) \cap P[j] = {}
    <3>1. \A k \in 1 .. j - 1 : k \in 1 .. m /\ k # j
      BY <1>2
    <3> QED
      BY <3>1
  <2>3. SumOver(f, U(j)) = SumOver(f, U(j - 1)) + SumOver(f, P[j])
    <3> HIDE DEF U
    <3> QED
      BY <2>1, <2>2, SumOverUnion
  <2> QED
    BY <1>2, <1>4, <2>3
<1>5. \A j \in 0 .. m : j \in S
  <2> HIDE DEF S, U
  <2> QED
    BY <1>2, <1>3, <1>4, IntervalInduction
<1>6. m \in 0 .. m
  BY <1>2
<1> QED
  BY <1>2, <1>5, <1>6 DEF Parts

(***************************************************************************)
(* The highest and the lowest.                                             *)
(***************************************************************************)
LEMMA Highest ==
  ASSUME NEW n \in Nat, NEW I \in SUBSET (1 .. n), I # {}, NEW f, \A i \in I : f[i] \in Int
  PROVE  \E k \in I : /\ \A i \in I : f[i] <= f[k]
                      /\ Max({f[i] : i \in I}) = f[k]
<1> DEFINE Top(j, k) == k \in I /\ \A i \in I : i <= j => f[i] <= f[k]
           S == {j \in 0 .. n : (\E i \in I : i <= j) => \E k \in I : Top(j, k)}
<1>1. 0 \in S
  BY DEF Top
<1>2. ASSUME NEW j \in 1 .. n, j - 1 \in S PROVE j \in S
  <2>1. \A i \in I : i \in Nat /\ (i <= j <=> i <= j - 1 \/ i = j)
    OBVIOUS
  <2> SUFFICES ASSUME \E i \in I : i <= j PROVE \E k \in I : Top(j, k)
    OBVIOUS
  <2>2. CASE j \notin I
    BY <1>2, <2>1, <2>2
  <2>3. CASE j \in I /\ ~ \E i \in I : i <= j - 1
    <3>1. Top(j, j)
      BY <2>1, <2>3
    <3> QED
      BY <2>3, <3>1
  <2>4. CASE j \in I /\ \E i \in I : i <= j - 1
    <3>1. PICK k \in I : Top(j - 1, k)
      BY <1>2, <2>4
    <3>2. f[k] \in Int /\ f[j] \in Int
      BY <2>4
    <3>3. CASE f[j] <= f[k]
      <4>1. Top(j, k)
        BY <2>1, <3>1, <3>3
      <4> QED
        BY <4>1
    <3>4. CASE f[k] < f[j]
      <4>1. ASSUME NEW i \in I, i <= j - 1 PROVE f[i] <= f[j]
        <5>1. f[i] \in Int /\ f[i] <= f[k]
          BY <3>1, <4>1
        <5> QED
          BY <3>2, <3>4, <5>1
      <4>2. Top(j, j)
        BY <2>1, <2>4, <3>2, <4>1
      <4> QED
        BY <2>4, <4>2
    <3> QED
      BY <3>2, <3>3, <3>4
  <2> QED
    BY <2>2, <2>3, <2>4
<1>3. \A j \in 0 .. n : j \in S
  <2> HIDE DEF S
  <2> QED
    BY <1>1, <1>2, IntervalInduction
<1>4. \A i \in I : i <= n
  OBVIOUS
<1>5. PICK k \in I : Top(n, k)
  <2>1. n \in S
    <3>1. n \in 0 .. n
      OBVIOUS
    <3> HIDE DEF S
    <3> QED
      BY <1>3, <3>1
  <2>2. \E i \in I : i <= n
    BY <1>4
  <2> HIDE DEF Top
  <2> QED
    BY <2>1, <2>2
<1>6. \A i \in I : f[i] <= f[k]
  BY <1>4, <1>5
<1> DEFINE T == {f[i] : i \in I}
<1>7. f[k] \in T /\ \A y \in T : y \in Int /\ y <= f[k]
  BY <1>6
<1> HIDE DEF T
<1>8. Max(T) \in T /\ \A y \in T : Max(T) >= y
  <2>1. \E x \in T : \A y \in T : x >= y
    BY <1>7
  <2> QED
    BY <2>1 DEF Max
<1>9. Max(T) = f[k]
  BY <1>7, <1>8
<1> QED
  BY <1>6, <1>9 DEF T

LEMMA Lowest ==
  ASSUME NEW n \in Nat, NEW I \in SUBSET (1 .. n), I # {}, NEW f, \A i \in I : f[i] \in Int
  PROVE  \E k \in I : /\ \A i \in I : f[k] <= f[i]
                      /\ Min({f[i] : i \in I}) = f[k]
<1> DEFINE g == [i \in 1 .. n |-> - f[i]]
           T == {f[i] : i \in I}
<1>1. \A i \in I : g[i] \in Int /\ g[i] = - f[i] /\ f[i] \in Int
  OBVIOUS
<1>2. PICK k \in I : \A i \in I : g[i] <= g[k]
  <2> HIDE DEF g
  <2> QED
    BY <1>1, Highest
<1>3. ASSUME NEW i \in I PROVE f[k] <= f[i]
  <2> HIDE DEF g
  <2>1. f[i] \in Int /\ f[k] \in Int /\ g[i] = - f[i] /\ g[k] = - f[k] /\ g[i] <= g[k]
    BY <1>1, <1>2
  <2> QED
    BY <2>1
<1>4. f[k] \in T /\ \A y \in T : y \in Int /\ f[k] <= y
  BY <1>3
<1> HIDE DEF T
<1>5. Min(T) \in T /\ \A y \in T : Min(T) <= y
  <2>1. \E x \in T : \A y \in T : x <= y
    BY <1>4
  <2> QED
    BY <2>1 DEF Min
<1>6. Min(T) = f[k]
  BY <1>4, <1>5
<1> QED
  BY <1>3, <1>6 DEF T

\* Two lists that bound each other have the same highest and lowest.
Image(f, I) == {f[i] : i \in I}

Places(I, n) == I # {} /\ I \in SUBSET (1 .. n)
Ints(f, I) == \A i \in I : f[i] \in Int
Below(f, I, g, J) == \A i \in I : \E j \in J : f[i] <= g[j]
Above(f, I, g, J) == \A i \in I : \E j \in J : g[j] <= f[i]

LEMMA SameHighest ==
  ASSUME NEW n \in Nat, NEW I, Places(I, n), NEW f, Ints(f, I),
         NEW m \in Nat, NEW J, Places(J, m), NEW g, Ints(g, J),
         Below(f, I, g, J), Below(g, J, f, I)
  PROVE  Max(Image(f, I)) = Max(Image(g, J))
<1> USE DEF Places, Ints, Below
<1>1. PICK k \in I : (\A i \in I : f[i] <= f[k]) /\ Max({f[i] : i \in I}) = f[k]
  BY Highest
<1>2. PICK l \in J : (\A j \in J : g[j] <= g[l]) /\ Max({g[j] : j \in J}) = g[l]
  BY Highest
<1>3. f[k] \in Int /\ g[l] \in Int
  OBVIOUS
<1>4. f[k] <= g[l]
  <2>1. PICK j \in J : f[k] <= g[j]
    OBVIOUS
  <2>2. g[j] \in Int /\ g[j] <= g[l]
    BY <1>2
  <2> QED
    BY <1>3, <2>1, <2>2
<1>5. g[l] <= f[k]
  <2>1. PICK i \in I : g[l] <= f[i]
    OBVIOUS
  <2>2. f[i] \in Int /\ f[i] <= f[k]
    BY <1>1
  <2> QED
    BY <1>3, <2>1, <2>2
<1>6. f[k] = g[l]
  BY <1>3, <1>4, <1>5
<1> QED
  BY <1>1, <1>2, <1>6 DEF Image

LEMMA SameLowest ==
  ASSUME NEW n \in Nat, NEW I, Places(I, n), NEW f, Ints(f, I),
         NEW m \in Nat, NEW J, Places(J, m), NEW g, Ints(g, J),
         Above(f, I, g, J), Above(g, J, f, I)
  PROVE  Min(Image(f, I)) = Min(Image(g, J))
<1> USE DEF Places, Ints, Above
<1>1. PICK k \in I : (\A i \in I : f[k] <= f[i]) /\ Min({f[i] : i \in I}) = f[k]
  BY Lowest
<1>2. PICK l \in J : (\A j \in J : g[l] <= g[j]) /\ Min({g[j] : j \in J}) = g[l]
  BY Lowest
<1>3. f[k] \in Int /\ g[l] \in Int
  OBVIOUS
<1>4. g[l] <= f[k]
  <2>1. PICK j \in J : g[j] <= f[k]
    OBVIOUS
  <2>2. g[j] \in Int /\ g[l] <= g[j]
    BY <1>2
  <2> QED
    BY <1>3, <2>1, <2>2
<1>5. f[k] <= g[l]
  <2>1. PICK i \in I : f[i] <= g[l]
    OBVIOUS
  <2>2. f[i] \in Int /\ f[k] <= f[i]
    BY <1>1
  <2> QED
    BY <1>3, <2>1, <2>2
<1>6. f[k] = g[l]
  BY <1>3, <1>4, <1>5
<1> QED
  BY <1>1, <1>2, <1>6 DEF Image

(***************************************************************************)
(* Lists cut into stretches.                                               *)
(***************************************************************************)
Cuts(c, m, n) ==
    /\ c \in [0 .. m -> Nat]
    /\ c[0] = 0 /\ c[m] = n
    /\ \A j \in 1 .. m : c[j - 1] < c[j]

Stretch(c, j) == c[j - 1] + 1 .. c[j]

LEMMA CutsFacts ==
  ASSUME NEW m \in Nat, NEW n \in Nat, NEW c, Cuts(c, m, n)
  PROVE  /\ \A j \in 1 .. m : /\ Stretch(c, j) \in SUBSET (1 .. n)
                              /\ c[j] \in Stretch(c, j) /\ \A i \in Stretch(c, j) : i <= c[j]
                              /\ c[j - 1] + 1 \in Stretch(c, j)
         /\ \A j, k \in 1 .. m : j # k => Stretch(c, j) \cap Stretch(c, k) = {}
         /\ UNION {Stretch(c, j) : j \in 1 .. m} = 1 .. n
<1>1. /\ c \in [0 .. m -> Nat] /\ c[0] = 0 /\ c[m] = n
      /\ \A j \in 1 .. m : c[j - 1] < c[j]
  BY DEF Cuts
<1>2. \A i \in 0 .. m : c[i] \in Nat
  BY <1>1
<1>3. \A j \in 0 .. m : \A i \in 0 .. j : c[i] <= c[j]
  <2> DEFINE S == {j \in 0 .. m : \A i \in 0 .. j : c[i] <= c[j]}
  <2>1. 0 \in S
    BY <1>2
  <2>2. ASSUME NEW j \in 1 .. m, j - 1 \in S PROVE j \in S
    <3>1. j \in 0 .. m /\ j - 1 \in 0 .. m
      OBVIOUS
    <3>2. ASSUME NEW i \in 0 .. j PROVE c[i] <= c[j]
      <4>1. CASE i = j
        BY <1>2, <3>1, <4>1
      <4>2. CASE i \in 0 .. j - 1
        <5>1. i \in 0 .. m /\ c[i] <= c[j - 1]
          BY <2>2, <4>2
        <5>2. c[i] \in Nat /\ c[j] \in Nat /\ c[j - 1] \in Nat /\ c[j - 1] < c[j]
          BY <1>1, <1>2, <3>1, <5>1
        <5> QED
          BY <5>1, <5>2
      <4> QED
        BY <4>1, <4>2
    <3> QED
      BY <3>1, <3>2
  <2>3. \A j \in 0 .. m : j \in S
    <3> HIDE DEF S
    <3> QED
      BY <2>1, <2>2, IntervalInduction
  <2> QED
    BY <2>3
<1>4. ASSUME NEW j \in 1 .. m
      PROVE  /\ c[j - 1] \in Nat /\ c[j] \in Nat /\ c[j - 1] < c[j] /\ c[j] <= n
             /\ j \in 0 .. m
  <2>1. j \in 0 .. m /\ j - 1 \in 0 .. m /\ m \in 0 .. m /\ j \in 0 .. m
    OBVIOUS
  <2>2. c[j] <= c[m]
    BY <1>3, <2>1
  <2> QED
    BY <1>1, <1>2, <2>1, <2>2
<1>5. \A j \in 1 .. m : /\ Stretch(c, j) \in SUBSET (1 .. n)
                        /\ c[j] \in Stretch(c, j) /\ \A i \in Stretch(c, j) : i <= c[j]
                        /\ c[j - 1] + 1 \in Stretch(c, j)
  BY <1>4 DEF Stretch
<1>6. ASSUME NEW j \in 1 .. m, NEW k \in 1 .. m, j < k
      PROVE  Stretch(c, j) \cap Stretch(c, k) = {}
  <2>1. k - 1 \in 0 .. m /\ j \in 0 .. k - 1
    BY <1>6
  <2>2. c[j] <= c[k - 1]
    BY <1>3, <2>1
  <2> QED
    BY <1>4, <2>2 DEF Stretch
<1>7. ASSUME NEW i \in 1 .. n PROVE \E j \in 1 .. m : i \in Stretch(c, j)
  <2> DEFINE S == {j \in 0 .. m : i <= c[j] => \E k \in 1 .. m : i \in Stretch(c, k)}
  <2>1. 0 \in S
    BY <1>1
  <2>2. ASSUME NEW j \in 1 .. m, j - 1 \in S PROVE j \in S
    <3>1. CASE i <= c[j - 1]
      BY <2>2, <3>1
    <3>2. CASE ~ (i <= c[j - 1])
      <4>1. i <= c[j] => i \in Stretch(c, j)
        BY <1>4, <3>2 DEF Stretch
      <4> QED
        BY <4>1
    <3> QED
      BY <3>1, <3>2
  <2>3. \A j \in 0 .. m : j \in S
    <3> HIDE DEF S
    <3> QED
      BY <2>1, <2>2, IntervalInduction
  <2>4. m \in 0 .. m /\ i <= c[m]
    BY <1>1
  <2> QED
    BY <2>3, <2>4
<1>8. \A j, k \in 1 .. m : j # k => Stretch(c, j) \cap Stretch(c, k) = {}
  <2> SUFFICES ASSUME NEW j \in 1 .. m, NEW k \in 1 .. m, j # k
               PROVE  Stretch(c, j) \cap Stretch(c, k) = {}
    OBVIOUS
  <2>1. CASE j < k
    BY <1>6, <2>1
  <2>2. CASE k < j
    BY <1>6, <2>2
  <2> QED
    BY <2>1, <2>2
<1>9. UNION {Stretch(c, j) : j \in 1 .. m} = 1 .. n
  <2> HIDE DEF Stretch
  <2> QED
    BY <1>5, <1>7
<1> QED
  BY <1>5, <1>8, <1>9

DayBar == [minute : Int, open : Int, high : Int, low : Int, close : Int,
           volume : Int, amount : Int]

LEMMA Columns ==
  ASSUME NEW ks \in Seq(DayBar)
  PROVE  /\ VolumesOf(ks) \in Seq(Int) /\ Len(VolumesOf(ks)) = Len(ks)
         /\ AmountsOf(ks) \in Seq(Int) /\ Len(AmountsOf(ks)) = Len(ks)
         /\ \A i \in 1 .. Len(ks) : /\ VolumesOf(ks)[i] = ks[i].volume
                                    /\ AmountsOf(ks)[i] = ks[i].amount
                                    /\ ks[i] \in DayBar
                                    /\ {ks[i].high, ks[i].low, ks[i].close} \subseteq Int
                                    /\ {ks[i].minute, ks[i].open} \subseteq Int
<1>1. \A i \in 1 .. Len(ks) : ks[i] \in DayBar
  OBVIOUS
<1>2. \A i \in 1 .. Len(ks) : ks[i].volume \in Int /\ ks[i].amount \in Int
  BY <1>1 DEF DayBar
<1>3. Len(ks) \in Nat
  OBVIOUS
<1>4. VolumesOf(ks) \in [1 .. Len(ks) -> Int] /\ AmountsOf(ks) \in [1 .. Len(ks) -> Int]
  BY <1>2 DEF VolumesOf, AmountsOf
<1>5. VolumesOf(ks) \in Seq(Int) /\ AmountsOf(ks) \in Seq(Int)
  BY <1>3, <1>4
<1>6. Len(VolumesOf(ks)) = Len(ks) /\ Len(AmountsOf(ks)) = Len(ks)
  BY <1>3, <1>4, <1>5, LenProperties
<1>7. \A i \in 1 .. Len(ks) : VolumesOf(ks)[i] = ks[i].volume /\ AmountsOf(ks)[i] = ks[i].amount
  BY DEF VolumesOf, AmountsOf
<1>8. \A i \in 1 .. Len(ks) : /\ {ks[i].high, ks[i].low, ks[i].close} \subseteq Int
                              /\ {ks[i].minute, ks[i].open} \subseteq Int
  BY <1>1 DEF DayBar
<1> QED
  BY <1>1, <1>5, <1>6, <1>7, <1>8

\* b is a bar of the bars at I.
Gathers(b, ks, I) ==
    /\ b.volume = SumOver(VolumesOf(ks), I)
    /\ b.amount = SumOver(AmountsOf(ks), I)
    /\ b.high = Max({ks[i].high : i \in I})
    /\ b.low = Min({ks[i].low : i \in I})
    /\ b.close = ks[Max(I)].close

\* Two lists of bars that tell the same of a day.
SameDay(r, ks) ==
    /\ SumOver(VolumesOf(r), 1 .. Len(r)) = SumOver(VolumesOf(ks), 1 .. Len(ks))
    /\ SumOver(AmountsOf(r), 1 .. Len(r)) = SumOver(AmountsOf(ks), 1 .. Len(ks))
    /\ Max({r[j].high : j \in 1 .. Len(r)}) = Max({ks[i].high : i \in 1 .. Len(ks)})
    /\ Min({r[j].low : j \in 1 .. Len(r)}) = Min({ks[i].low : i \in 1 .. Len(ks)})
    /\ r[Len(r)].close = ks[Len(ks)].close
    /\ ks[1].open # 0 => r[1].open = ks[1].open

LEMMA MaxOfStretch ==
  ASSUME NEW n \in Nat, NEW S \in SUBSET (1 .. n), NEW k \in S, \A i \in S : i <= k
  PROVE  Max(S) = k
<1>1. Max(S) \in S /\ k <= Max(S)
  BY MaxOfPlaces
<1>2. Max(S) <= k
  BY <1>1
<1>3. Max(S) \in 1 .. n /\ k \in 1 .. n
  <2>1. S \subseteq 1 .. n
    OBVIOUS
  <2> QED
    BY <1>1, <2>1
<1> QED
  BY <1>1, <1>2, <1>3

LEMMA MinOfStretch ==
  ASSUME NEW n \in Nat, NEW S \in SUBSET (1 .. n), 1 \in S
  PROVE  Min(S) = 1
<1>1. Min(S) \in S /\ Min(S) <= 1
  BY MinOfPlaces
<1>2. Min(S) \in 1 .. n
  BY <1>1
<1> QED
  BY <1>1, <1>2

\* Bars gathered by stretches tell the same of the day.
LEMMA GatheredDay ==
  ASSUME NEW ks \in Seq(DayBar), NEW m \in Nat \ {0}, NEW c, Cuts(c, m, Len(ks)),
         NEW r \in Seq(DayBar), Len(r) = m,
         \A j \in 1 .. m : Gathers(r[j], ks, Stretch(c, j)),
         ks[1].open # 0 => r[1].open = ks[1].open
  PROVE  SameDay(r, ks)
<1> DEFINE n == Len(ks)
           P == [j \in 1 .. m |-> Stretch(c, j)]
           h == [i \in 1 .. n |-> ks[i].high]
           l == [i \in 1 .. n |-> ks[i].low]
           rh == [j \in 1 .. m |-> r[j].high]
           rl == [j \in 1 .. m |-> r[j].low]
<1>1. n \in Nat /\ m \in Nat /\ m # 0
  OBVIOUS
<1>2. /\ \A j \in 1 .. m : /\ Stretch(c, j) \in SUBSET (1 .. n)
                           /\ c[j] \in Stretch(c, j) /\ \A i \in Stretch(c, j) : i <= c[j]
      /\ \A j, k \in 1 .. m : j # k => Stretch(c, j) \cap Stretch(c, k) = {}
      /\ UNION {Stretch(c, j) : j \in 1 .. m} = 1 .. n
  BY <1>1, CutsFacts
<1>3. \A j \in 1 .. m : P[j] = Stretch(c, j)
  OBVIOUS
<1>4. Parts(P, m) = 1 .. n
  BY <1>2 DEF Parts
<1>5. 1 .. n # {} /\ 1 .. m # {}
  <2>1. m \in 1 .. m
    BY <1>1
  <2> QED
    BY <1>2, <2>1
<1>6. \A j, k \in 1 .. m : j # k => P[j] \cap P[k] = {}
  BY <1>2, <1>3
<1> HIDE DEF P, n
<1>7. /\ SumOver(VolumesOf(r), 1 .. m) = SumOver(VolumesOf(ks), 1 .. n)
      /\ SumOver(AmountsOf(r), 1 .. m) = SumOver(AmountsOf(ks), 1 .. n)
  <2>1. /\ VolumesOf(r) \in Seq(Int) /\ Len(VolumesOf(r)) = m
        /\ AmountsOf(r) \in Seq(Int) /\ Len(AmountsOf(r)) = m
        /\ \A j \in 1 .. m : VolumesOf(r)[j] = r[j].volume /\ AmountsOf(r)[j] = r[j].amount
    BY Columns
  <2>2. VolumesOf(ks) \in Seq(Int) /\ AmountsOf(ks) \in Seq(Int)
    BY Columns
  <2>3. \A j \in 1 .. m : VolumesOf(r)[j] = SumOver(VolumesOf(ks), P[j])
    BY <1>3, <2>1 DEF Gathers
  <2>6. \A j \in 1 .. m : AmountsOf(r)[j] = SumOver(AmountsOf(ks), P[j])
    BY <1>3, <2>1 DEF Gathers
  <2>4. SumOver(VolumesOf(r), 1 .. m) = SumOver(VolumesOf(ks), Parts(P, m))
    <3>1. SumsOf(VolumesOf(r), VolumesOf(ks), P, m)
      BY <1>6, <2>3 DEF SumsOf
    <3> QED
      BY <1>1, <2>1, <2>2, <3>1, SumOfParts
  <2>5. SumOver(AmountsOf(r), 1 .. m) = SumOver(AmountsOf(ks), Parts(P, m))
    <3>1. SumsOf(AmountsOf(r), AmountsOf(ks), P, m)
      BY <1>6, <2>6 DEF SumsOf
    <3> QED
      BY <1>1, <2>1, <2>2, <3>1, SumOfParts
  <2> QED
    BY <1>4, <2>4, <2>5
<1>8. /\ \A i \in 1 .. n : h[i] \in Int /\ l[i] \in Int
      /\ \A j \in 1 .. m : rh[j] \in Int /\ rl[j] \in Int
  BY Columns DEF n
<1>9. ASSUME NEW j \in 1 .. m
      PROVE  /\ \E i \in P[j] : i \in 1 .. n /\ rh[j] = h[i] /\ \A k \in P[j] : h[k] <= rh[j]
             /\ \E i \in P[j] : i \in 1 .. n /\ rl[j] = l[i] /\ \A k \in P[j] : rl[j] <= l[k]
  <2>1. P[j] \in SUBSET (1 .. n) /\ P[j] # {}
    BY <1>2, <1>3
  <2>2. /\ {ks[i].high : i \in P[j]} = {h[i] : i \in P[j]}
        /\ {ks[i].low : i \in P[j]} = {l[i] : i \in P[j]}
    BY <2>1
  <2>3. rh[j] = Max({h[i] : i \in P[j]}) /\ rl[j] = Min({l[i] : i \in P[j]})
    BY <1>3, <2>2 DEF Gathers
  <2>4. \A i \in P[j] : h[i] \in Int /\ l[i] \in Int
    BY <1>8, <2>1
  <2> HIDE DEF h, l, rh, rl
  <2>5. PICK i \in P[j] : (\A k \in P[j] : h[k] <= h[i]) /\ Max({h[k] : k \in P[j]}) = h[i]
    BY <1>1, <2>1, <2>4, Highest
  <2>6. PICK i1 \in P[j] : (\A k \in P[j] : l[i1] <= l[k]) /\ Min({l[k] : k \in P[j]}) = l[i1]
    BY <1>1, <2>1, <2>4, Lowest
  <2> QED
    BY <2>1, <2>3, <2>5, <2>6
<1>10. \A i \in 1 .. n : \E j \in 1 .. m : i \in P[j]
  BY <1>4 DEF Parts
<1>11. /\ {r[j].high : j \in 1 .. m} = {rh[j] : j \in 1 .. m}
       /\ {r[j].low : j \in 1 .. m} = {rl[j] : j \in 1 .. m}
       /\ {ks[i].high : i \in 1 .. n} = {h[i] : i \in 1 .. n}
       /\ {ks[i].low : i \in 1 .. n} = {l[i] : i \in 1 .. n}
  OBVIOUS
<1> HIDE DEF h, l, rh, rl
<1>12. Max(Image(rh, 1 .. m)) = Max(Image(h, 1 .. n))
  <2>1. \A j \in 1 .. m : \E i \in 1 .. n : rh[j] <= h[i]
    <3> SUFFICES ASSUME NEW j \in 1 .. m PROVE \E i \in 1 .. n : rh[j] <= h[i]
      OBVIOUS
    <3>1. PICK i \in 1 .. n : rh[j] = h[i]
      BY <1>9
    <3>2. rh[j] <= h[i]
      BY <1>8, <3>1
    <3> QED
      BY <3>2
  <2>2. \A i \in 1 .. n : \E j \in 1 .. m : h[i] <= rh[j]
    BY <1>9, <1>10
  <2>3. 1 .. n \in SUBSET (1 .. n) /\ 1 .. m \in SUBSET (1 .. m)
    OBVIOUS
  <2>4. Ints(h, 1 .. n) /\ Ints(rh, 1 .. m)
    BY <1>8 DEF Ints
  <2>5. Below(rh, 1 .. m, h, 1 .. n)
    BY <2>1 DEF Below
  <2>6. Below(h, 1 .. n, rh, 1 .. m)
    BY <2>2 DEF Below
  <2> DEFINE I == 1 .. n
             J == 1 .. m
  <2>7. /\ Places(I, n) /\ Ints(h, I)
        /\ Places(J, m) /\ Ints(rh, J)
        /\ Below(rh, J, h, I) /\ Below(h, I, rh, J)
    BY <1>5, <2>3, <2>4, <2>5, <2>6 DEF Places
  <2> HIDE DEF I, J
  <2>8. Max(Image(rh, J)) = Max(Image(h, I))
    BY <1>1, <2>7, SameHighest
  <2> QED
    BY <2>8 DEF I, J
<1>13. Min(Image(rl, 1 .. m)) = Min(Image(l, 1 .. n))
  <2>1. \A j \in 1 .. m : \E i \in 1 .. n : l[i] <= rl[j]
    <3> SUFFICES ASSUME NEW j \in 1 .. m PROVE \E i \in 1 .. n : l[i] <= rl[j]
      OBVIOUS
    <3>1. PICK i \in 1 .. n : rl[j] = l[i]
      BY <1>9
    <3>2. l[i] <= rl[j]
      BY <1>8, <3>1
    <3> QED
      BY <3>2
  <2>2. \A i \in 1 .. n : \E j \in 1 .. m : rl[j] <= l[i]
    BY <1>9, <1>10
  <2>3. 1 .. n \in SUBSET (1 .. n) /\ 1 .. m \in SUBSET (1 .. m)
    OBVIOUS
  <2>4. Ints(l, 1 .. n) /\ Ints(rl, 1 .. m)
    BY <1>8 DEF Ints
  <2>5. Above(rl, 1 .. m, l, 1 .. n)
    BY <2>1 DEF Above
  <2>6. Above(l, 1 .. n, rl, 1 .. m)
    BY <2>2 DEF Above
  <2> DEFINE I == 1 .. n
             J == 1 .. m
  <2>7. /\ Places(I, n) /\ Ints(l, I)
        /\ Places(J, m) /\ Ints(rl, J)
        /\ Above(rl, J, l, I) /\ Above(l, I, rl, J)
    BY <1>5, <2>3, <2>4, <2>5, <2>6 DEF Places
  <2> HIDE DEF I, J
  <2>8. Min(Image(rl, J)) = Min(Image(l, I))
    BY <1>1, <2>7, SameLowest
  <2> QED
    BY <2>8 DEF I, J
<1>14. r[m].close = ks[n].close
  <2>1. m \in 1 .. m /\ c[m] = n
    BY <1>1 DEF Cuts, n
  <2>2. Max(Stretch(c, m)) = n
    BY <1>1, <1>2, <2>1, MaxOfStretch
  <2> QED
    BY <2>1, <2>2 DEF Gathers
<1> QED
  BY <1>7, <1>11, <1>12, <1>13, <1>14 DEF SameDay, Image, n

LEMMA BarOfFacts ==
  ASSUME NEW ks \in Seq(DayBar), NEW I \in SUBSET (1 .. Len(ks)), I # {}
  PROVE  /\ BarOf(ks, I) \in DayBar /\ Gathers(BarOf(ks, I), ks, I)
         /\ FoldedBar(ks, I) \in DayBar /\ Gathers(FoldedBar(ks, I), ks, I)
         /\ ks[Min(I)].open # 0 => BarOf(ks, I).open = ks[Min(I)].open
         /\ FoldedBar(ks, I).open = ks[Min(I)].open
<1> DEFINE n == Len(ks)
           h == [i \in 1 .. n |-> ks[i].high]
           l == [i \in 1 .. n |-> ks[i].low]
           opened == {i \in I : ks[i].open # 0}
           open == IF opened = {} THEN 0 ELSE ks[Min(opened)].open
<1>1. n \in Nat
  OBVIOUS
<1>2. Max(I) \in I /\ Min(I) \in I /\ \A k \in I : Min(I) <= k
  BY <1>1, MaxOfPlaces, MinOfPlaces
<1>3. /\ VolumesOf(ks) \in Seq(Int) /\ AmountsOf(ks) \in Seq(Int)
      /\ \A i \in 1 .. n : /\ {ks[i].high, ks[i].low, ks[i].close} \subseteq Int
                           /\ {ks[i].minute, ks[i].open} \subseteq Int
  BY Columns
<1>4. SumOver(VolumesOf(ks), I) \in Int /\ SumOver(AmountsOf(ks), I) \in Int
  BY <1>3, SumOverType
<1>5. Max({ks[i].high : i \in I}) \in Int
  <2>1. {ks[i].high : i \in I} = {h[i] : i \in I} /\ \A i \in I : h[i] \in Int
    BY <1>3
  <2> HIDE DEF h
  <2>2. PICK k \in I : Max({h[i] : i \in I}) = h[k]
    BY <1>1, <2>1, Highest
  <2> QED
    BY <2>1, <2>2
<1>6. Min({ks[i].low : i \in I}) \in Int
  <2>1. {ks[i].low : i \in I} = {l[i] : i \in I} /\ \A i \in I : l[i] \in Int
    BY <1>3
  <2> HIDE DEF l
  <2>2. PICK k \in I : Min({l[i] : i \in I}) = l[k]
    BY <1>1, <2>1, Lowest
  <2> QED
    BY <2>1, <2>2
<1>7. opened # {} => Min(opened) \in opened /\ \A k \in opened : Min(opened) <= k
  <2>1. opened \in SUBSET (1 .. n)
    OBVIOUS
  <2> HIDE DEF opened
  <2> QED
    BY <1>1, <2>1, MinOfPlaces
<1>8. open \in Int
  <2>1. \A i \in opened : ks[i].open \in Int
    BY <1>3
  <2> HIDE DEF opened
  <2> QED
    BY <1>7, <2>1
<1>9. ks[Min(I)].open # 0 => open = ks[Min(I)].open
  <2> SUFFICES ASSUME ks[Min(I)].open # 0 PROVE open = ks[Min(I)].open
    OBVIOUS
  <2>1. Min(I) \in opened /\ opened # {}
    BY <1>2
  <2>2. Min(opened) \in I /\ Min(opened) <= Min(I) /\ Min(I) <= Min(opened)
    BY <1>2, <1>7, <2>1
  <2>3. Min(opened) \in 1 .. n /\ Min(I) \in 1 .. n
    BY <1>2, <2>2
  <2>4. Min(opened) = Min(I)
    BY <2>2, <2>3
  <2> QED
    BY <2>1, <2>4
<1> DEFINE b == [minute |-> ks[Max(I)].minute, open |-> open,
                 high |-> Max({ks[i].high : i \in I}), low |-> Min({ks[i].low : i \in I}),
                 close |-> ks[Max(I)].close,
                 volume |-> SumOver(VolumesOf(ks), I), amount |-> SumOver(AmountsOf(ks), I)]
<1>10. BarOf(ks, I) = b
  BY DEF BarOf
<1>11. Max(I) \in 1 .. n /\ Min(I) \in 1 .. n
  BY <1>2
<1>12. ks[Max(I)].minute \in Int /\ ks[Max(I)].close \in Int /\ ks[Min(I)].open \in Int
  BY <1>3, <1>11
<1> HIDE DEF open
<1>13. b \in DayBar /\ Gathers(b, ks, I) /\ b.open = open
  BY <1>4, <1>5, <1>6, <1>8, <1>12 DEF DayBar, Gathers
<1>14. FoldedBar(ks, I) = [b EXCEPT !.open = ks[Min(I)].open]
  BY <1>10 DEF FoldedBar
<1>15. /\ [b EXCEPT !.open = ks[Min(I)].open] \in DayBar
       /\ Gathers([b EXCEPT !.open = ks[Min(I)].open], ks, I)
       /\ [b EXCEPT !.open = ks[Min(I)].open].open = ks[Min(I)].open
  BY <1>4, <1>5, <1>6, <1>12 DEF DayBar, Gathers
<1> HIDE DEF b
<1> QED
  BY <1>9, <1>10, <1>13, <1>14, <1>15

LEMMA TimesMonotone ==
  ASSUME NEW a \in Int, NEW b \in Int, NEW n \in Nat, a <= b
  PROVE  a * n \in Int /\ b * n \in Int /\ a * n <= b * n
OBVIOUS

LEMMA GroupsFacts ==
  ASSUME NEW n \in Nat \ {0}, NEW length \in Nat
  PROVE  /\ Groups(length, n) \in Nat
         /\ length = 0 <=> Groups(length, n) = 0
         /\ length <= Groups(length, n) * n
         /\ \A j \in 1 .. Groups(length, n) : /\ (j - 1) * n \in Nat /\ (j - 1) * n < length
                                              /\ j * n = (j - 1) * n + n
<1> DEFINE m == Groups(length, n)
<1>1. /\ m \in Int /\ m * n \in Int
      /\ m * n <= length + n - 1 /\ length + n - 1 < m * n + n
  BY DEF Groups
<1> HIDE DEF m
<1>2. m >= 0
  <2> SUFFICES ASSUME m <= -1 PROVE FALSE
    BY <1>1
  <2>1. m * n <= (-1) * n
    BY <1>1, TimesMonotone
  <2> QED
    BY <1>1, <2>1
<1>3. length <= m * n
  BY <1>1
<1>4. ASSUME NEW j \in 1 .. m
      PROVE  (j - 1) * n \in Nat /\ (j - 1) * n < length /\ j * n = (j - 1) * n + n
  <2>1. (j - 1) * n <= (m - 1) * n
    BY <1>1, TimesMonotone
  <2>2. (m - 1) * n = m * n - n
    BY <1>1
  <2>3. (j - 1) * n \in Nat
    OBVIOUS
  <2>4. j * n = (j - 1) * n + n
    OBVIOUS
  <2> QED
    BY <1>1, <2>1, <2>2, <2>3, <2>4
<1>5. length = 0 <=> m = 0
  <2>1. ASSUME m = 0 PROVE length = 0
    BY <1>3, <2>1
  <2>2. ASSUME m # 0 PROVE length # 0
    <3>1. 1 \in 1 .. m
      BY <1>1, <1>2, <2>2
    <3> QED
      BY <1>4, <3>1
  <2> QED
    BY <2>1, <2>2
<1> QED
  BY <1>1, <1>2, <1>3, <1>4, <1>5 DEF m

\* The groups of n cut a list.
LEMMA GroupCuts ==
  ASSUME NEW n \in Nat \ {0}, NEW length \in Nat
  PROVE  LET m == Groups(length, n)
             c == [j \in 0 .. m |-> Min({j * n, length})]
         IN /\ Cuts(c, m, length)
            /\ \A j \in 1 .. m : Group(j, n, length) = Stretch(c, j) /\ c[j - 1] = (j - 1) * n
<1> DEFINE m == Groups(length, n)
           c == [j \in 0 .. m |-> Min({j * n, length})]
<1>1. /\ m \in Nat /\ (length = 0 <=> m = 0) /\ length <= m * n
      /\ \A j \in 1 .. m : /\ (j - 1) * n \in Nat /\ (j - 1) * n < length
                           /\ j * n = (j - 1) * n + n
  BY GroupsFacts
<1> HIDE DEF m
<1>2. ASSUME NEW j \in 0 .. m
      PROVE  j * n \in Nat /\ c[j] = IF j * n <= length THEN j * n ELSE length
  <2>1. j * n \in Nat
    OBVIOUS
  <2>2. Min({j * n, length}) = IF j * n <= length THEN j * n ELSE length
    BY <2>1, MinOfTwo
  <2> QED
    BY <2>1, <2>2
<1>3. \A j \in 0 .. m : c[j] \in Nat
  BY <1>2
<1>4. c[0] = 0
  BY <1>1, <1>2
<1>5. c[m] = length
  <2>1. m \in 0 .. m /\ m * n \in Nat
    BY <1>1
  <2> QED
    BY <1>1, <1>2, <2>1
<1>6. ASSUME NEW j \in 1 .. m
      PROVE  c[j - 1] = (j - 1) * n /\ c[j - 1] < c[j] /\ Group(j, n, length) = Stretch(c, j)
  <2>1. j \in 0 .. m /\ j - 1 \in 0 .. m
    BY <1>1
  <2>2. (j - 1) * n \in Nat /\ (j - 1) * n < length /\ j * n = (j - 1) * n + n
    BY <1>1
  <2>3. c[j - 1] = (j - 1) * n
    BY <1>2, <2>1, <2>2
  <2>4. c[j - 1] < c[j]
    BY <1>2, <2>1, <2>2, <2>3
  <2>5. c[j] = Min({j * n, length})
    BY <2>1
  <2> HIDE DEF c
  <2> QED
    BY <2>3, <2>4, <2>5 DEF Group, Stretch
<1>7. c \in [0 .. m -> Nat]
  BY <1>3
<1>8. Cuts(c, m, length)
  <2> HIDE DEF c
  <2> QED
    BY <1>4, <1>5, <1>6, <1>7 DEF Cuts
<1> QED
  BY <1>6, <1>8 DEF m

LEMMA SameAsItself ==
  ASSUME NEW ks
  PROVE  SameDay(ks, ks)
BY DEF SameDay

\* Klines.Merge.
LEMMA MergedDay ==
  ASSUME NEW ks \in Seq(DayBar), ks # <<>>, NEW n \in Nat
  PROVE  Merge(ks, n) \in Seq(DayBar) /\ Merge(ks, n) # <<>> /\ SameDay(Merge(ks, n), ks)
<1>1. CASE n <= 1
  BY <1>1, SameAsItself DEF Merge
<1>2. CASE n > 1
  <2> DEFINE L == Len(ks)
             m == Groups(L, n)
             c == [j \in 0 .. m |-> Min({j * n, L})]
             r == [i \in 1 .. m |-> BarOf(ks, Group(i, n, L))]
  <2>1. L \in Nat /\ L # 0 /\ n \in Nat \ {0}
    BY <1>2
  <2>2. m \in Nat /\ m # 0
    BY <2>1, GroupsFacts
  <2>3. /\ Cuts(c, m, L)
        /\ \A j \in 1 .. m : Group(j, n, L) = Stretch(c, j) /\ c[j - 1] = (j - 1) * n
    BY <2>1, GroupCuts
  <2>4. Merge(ks, n) = r
    BY <1>2 DEF Merge
  <2> HIDE DEF c, m, L
  <2>5. \A j \in 1 .. m : /\ Stretch(c, j) \in SUBSET (1 .. L)
                          /\ c[j - 1] + 1 \in Stretch(c, j)
    BY <2>1, <2>2, <2>3, CutsFacts
  <2>6. \A j \in 1 .. m : r[j] = BarOf(ks, Stretch(c, j))
    BY <2>3
  <2>7. ASSUME NEW j \in 1 .. m
        PROVE  r[j] \in DayBar /\ Gathers(r[j], ks, Stretch(c, j))
    <3>1. Stretch(c, j) \in SUBSET (1 .. Len(ks)) /\ Stretch(c, j) # {}
      BY <2>5 DEF L
    <3> HIDE DEF r
    <3> QED
      BY <2>6, <3>1, BarOfFacts
  <2>8. r \in [1 .. m -> DayBar]
    BY <2>7
  <2>9. r \in Seq(DayBar) /\ Len(r) = m
    <3> HIDE DEF r
    <3> QED
      BY <2>2, <2>8
  <2>10. ks[1].open # 0 => r[1].open = ks[1].open
    <3>1. 1 \in 1 .. m
      BY <2>2
    <3>2. 1 \in Stretch(c, 1)
      <4>1. c[0] = 0
        BY <2>3 DEF Cuts
      <4>2. c[1 - 1] + 1 \in Stretch(c, 1)
        BY <2>5, <3>1
      <4> QED
        BY <4>1, <4>2
    <3>3. Stretch(c, 1) \in SUBSET (1 .. Len(ks)) /\ Stretch(c, 1) # {}
      BY <2>5, <3>1 DEF L
    <3>4. Min(Stretch(c, 1)) = 1
      BY <3>2, <3>3, <2>1, MinOfStretch DEF L
    <3>5. r[1] = BarOf(ks, Stretch(c, 1))
      BY <2>6, <3>1
    <3> HIDE DEF r
    <3> QED
      BY <3>3, <3>4, <3>5, BarOfFacts
  <2>11. SameDay(r, ks)
    <3>1. Cuts(c, m, Len(ks))
      BY <2>3 DEF L
    <3> HIDE DEF r
    <3> QED
      BY <2>2, <2>7, <2>9, <2>10, <3>1, GatheredDay
  <2>12. r # <<>>
    <3> HIDE DEF r
    <3> QED
      BY <2>2, <2>9
  <2> QED
    BY <2>4, <2>9, <2>11, <2>12
<1> QED
  BY <1>1, <1>2

KeyMinutes == (Open .. Noon) \cup (Afternoon + 1 .. Close)

LEMMA KeysFacts ==
  /\ Keys \in Seq(KeyMinutes) /\ Len(Keys) \in Nat \ {0}
  /\ Keys[Len(Keys)] = Close
  /\ \A i, j \in 1 .. Len(Keys) : i < j => Keys[i] < Keys[j]
  /\ \A t \in KeyMinutes : \E i \in 1 .. Len(Keys) : Keys[i] = t
<1> DEFINE a == Noon - Open + 1
           b == Close - Afternoon
<1>1. /\ a \in Nat /\ a > 0 /\ b \in Nat /\ b > 0
      /\ {Open, Noon, Afternoon, Close} \subseteq Nat
      /\ Open <= Noon /\ Noon < Afternoon /\ Afternoon < Close
  BY BarConstants
<1>2. /\ Morning \in [1 .. a -> KeyMinutes] /\ AfterNoon \in [1 .. b -> KeyMinutes]
      /\ \A i \in 1 .. a : Morning[i] = Open + i - 1
      /\ \A i \in 1 .. b : AfterNoon[i] = Afternoon + i
  BY <1>1 DEF Morning, AfterNoon, KeyMinutes
<1> HIDE DEF a, b
<1>3. Morning \in Seq(KeyMinutes) /\ AfterNoon \in Seq(KeyMinutes) /\ Len(Morning) = a /\ Len(AfterNoon) = b
  BY <1>1, <1>2
<1>4. /\ Keys \in Seq(KeyMinutes) /\ Len(Keys) = a + b
      /\ \A i \in 1 .. a + b : Keys[i] = IF i <= a THEN Morning[i] ELSE AfterNoon[i - a]
  BY <1>3, ConcatProperties DEF Keys
<1>5. \A i \in 1 .. a + b : Keys[i] = IF i <= a THEN Open + i - 1 ELSE Afternoon + (i - a)
  <2> SUFFICES ASSUME NEW i \in 1 .. a + b
               PROVE  Keys[i] = IF i <= a THEN Open + i - 1 ELSE Afternoon + (i - a)
    OBVIOUS
  <2>1. CASE i <= a
    <3>1. i \in 1 .. a
      BY <1>1, <2>1
    <3> QED
      BY <1>2, <1>4, <2>1, <3>1
  <2>2. CASE ~ (i <= a)
    <3>1. i - a \in 1 .. b
      BY <1>1, <2>2
    <3> QED
      BY <1>2, <1>4, <2>2, <3>1
  <2> QED
    BY <2>1, <2>2
<1>6. Keys[Len(Keys)] = Close
  <2>1. a + b \in 1 .. a + b /\ ~ (a + b <= a) /\ (a + b) - a = b
    BY <1>1
  <2> QED
    BY <1>1, <1>4, <1>5, <2>1 DEF b
<1>7. \A i, j \in 1 .. Len(Keys) : i < j => Keys[i] < Keys[j]
  <2> SUFFICES ASSUME NEW i \in 1 .. a + b, NEW j \in 1 .. a + b, i < j
               PROVE  Keys[i] < Keys[j]
    BY <1>4
  <2>1. /\ Keys[i] = IF i <= a THEN Open + i - 1 ELSE Afternoon + (i - a)
        /\ Keys[j] = IF j <= a THEN Open + j - 1 ELSE Afternoon + (j - a)
    BY <1>5
  <2>2. a = Noon - Open + 1
    BY DEF a
  <2> QED
    BY <1>1, <2>1, <2>2
<1>8. \A t \in KeyMinutes : \E i \in 1 .. Len(Keys) : Keys[i] = t
  <2> SUFFICES ASSUME NEW t \in KeyMinutes PROVE \E i \in 1 .. a + b : Keys[i] = t
    BY <1>4
  <2>1. CASE t \in Open .. Noon
    <3>1. t - Open + 1 \in 1 .. a + b /\ t - Open + 1 <= a /\ Open + (t - Open + 1) - 1 = t
      BY <1>1, <2>1 DEF a
    <3> QED
      BY <1>5, <3>1
  <2>2. CASE t \in Afternoon + 1 .. Close
    <3>1. /\ a + (t - Afternoon) \in 1 .. a + b /\ ~ (a + (t - Afternoon) <= a)
          /\ Afternoon + ((a + (t - Afternoon)) - a) = t
      BY <1>1, <2>2 DEF b
    <3> QED
      BY <1>5, <3>1
  <2> QED
    BY <2>1, <2>2 DEF KeyMinutes
<1> QED
  BY <1>1, <1>4, <1>6, <1>7, <1>8

\* Bars on the grid of the day.
OnGrid(ks) ==
    /\ ks \in Seq(DayBar) /\ Len(ks) = Len(Keys)
    /\ \A k \in 1 .. Len(Keys) : ks[k].minute = Keys[k]

\* Klines.Merge241.
LEMMA GridDay ==
  ASSUME NEW ks, OnGrid(ks), NEW n \in Nat \ {0}
  PROVE  Merge241(ks, n) \in Seq(DayBar) /\ Merge241(ks, n) # <<>> /\ SameDay(Merge241(ks, n), ks)
<1> DEFINE K == Len(Keys)
           at(t)  == {i \in 1 .. Len(ks) : ks[i].minute = t}
           last[k \in 0 .. Len(Keys)] ==
              IF k = 0 THEN 0 ELSE IF at(Keys[k]) = {} THEN last[k - 1] ELSE ks[Max(at(Keys[k]))].close
           std    == [k \in 1 .. Len(Keys) |->
                       IF at(Keys[k]) = {} THEN Flat(Keys[k], last[k - 1]) ELSE ks[Max(at(Keys[k]))]]
           rest   == Len(Keys) - 1
           m == Groups(rest, n)
           places(i) == {j + 1 : j \in Group(i - 1, n, rest)}
           made(s) == [i \in 1 .. m + 1 |-> IF i = 1 THEN s[1] ELSE FoldedBar(s, places(i))]
           r == made(ks)
           g == [j \in 0 .. m |-> Min({j * n, rest})]
           c == [j \in 0 .. m + 1 |-> IF j = 0 THEN 0 ELSE g[j - 1] + 1]
<1>1. Merge241(ks, n) = made(std)
  BY DEF Merge241
<1>2. /\ ks \in Seq(DayBar) /\ Len(ks) = K /\ K \in Nat \ {0}
      /\ \A k \in 1 .. K : ks[k].minute = Keys[k]
      /\ \A i, j \in 1 .. K : i < j => Keys[i] < Keys[j]
      /\ \A i \in 1 .. K : Keys[i] \in Int
  BY KeysFacts, BarConstants DEF OnGrid, KeyMinutes
<1> HIDE DEF last
<1>3. \A k \in 1 .. K : at(Keys[k]) = {k}
  <2> SUFFICES ASSUME NEW k \in 1 .. K, NEW i \in 1 .. K, Keys[i] = Keys[k] PROVE i = k
    BY <1>2
  <2>1. ~ (i < k) /\ ~ (k < i)
    BY <1>2
  <2> QED
    BY <2>1
<1>4. std = ks
  <2>1. ASSUME NEW k \in 1 .. K PROVE std[k] = ks[k]
    <3>1. Max(at(Keys[k])) = k
      <4>1. {k} \in SUBSET (1 .. K) /\ k \in {k} /\ \A i \in {k} : i <= k
        OBVIOUS
      <4>2. Max({k}) = k
        BY <1>2, <4>1, MaxOfStretch
      <4> QED
        BY <1>3, <4>2
    <3>2. at(Keys[k]) # {}
      BY <1>3
    <3> HIDE DEF at
    <3> QED
      BY <3>1, <3>2
  <2>2. std \in [1 .. K -> DayBar]
    <3> SUFFICES ASSUME NEW k \in 1 .. K PROVE std[k] \in DayBar
      OBVIOUS
    <3>1. ks[k] \in DayBar
      BY <1>2
    <3> HIDE DEF std
    <3> QED
      BY <2>1, <3>1
  <2>3. ks \in [1 .. K -> DayBar]
    BY <1>2
  <2> HIDE DEF std
  <2> QED
    BY <2>1, <2>2, <2>3
<1>5. Merge241(ks, n) = r
  <2> HIDE DEF made, std
  <2> QED
    BY <1>1, <1>4
<1> HIDE DEF std
<1>6. rest \in Nat /\ rest + 1 = K
  BY <1>2
<1> HIDE DEF rest
<1>7. m \in Nat
  BY <1>6, GroupsFacts
<1>8. /\ Cuts(g, m, rest)
      /\ \A j \in 1 .. m : Group(j, n, rest) = Stretch(g, j)
  BY <1>6, GroupCuts
<1> HIDE DEF m, g, K
<1>9. /\ g \in [0 .. m -> Nat] /\ g[0] = 0 /\ g[m] = rest
      /\ \A j \in 1 .. m : g[j - 1] < g[j]
  BY <1>8 DEF Cuts
<1>10. c[0] = 0 /\ c[1] = 1 /\ \A j \in 1 .. m : c[j + 1] = g[j] + 1
  BY <1>7, <1>9
<1>11. Cuts(c, m + 1, K)
  <2>1. \A j \in 0 .. m + 1 : c[j] \in Nat
    <3> SUFFICES ASSUME NEW j \in 0 .. m + 1, j # 0 PROVE g[j - 1] + 1 \in Nat
      OBVIOUS
    <3>1. j - 1 \in 0 .. m
      BY <1>7
    <3> QED
      BY <1>9, <3>1
  <2>2. c \in [0 .. m + 1 -> Nat]
    BY <2>1
  <2>3. c[m + 1] = K
    <3>1. m + 1 \in 0 .. m + 1 /\ m + 1 # 0 /\ (m + 1) - 1 = m
      BY <1>7
    <3> QED
      BY <1>6, <1>9, <3>1
  <2>4. \A j \in 1 .. m + 1 : c[j - 1] < c[j]
    <3> SUFFICES ASSUME NEW j \in 1 .. m + 1 PROVE c[j - 1] < c[j]
      OBVIOUS
    <3>1. CASE j = 1
      BY <1>10, <3>1
    <3>2. CASE j # 1
      <4>1. j - 1 \in 1 .. m /\ (j - 1) - 1 \in 0 .. m /\ j - 1 \in 0 .. m
        BY <1>7, <3>2
      <4>2. j - 1 \in 0 .. m + 1 /\ j - 1 # 0 /\ j \in 0 .. m + 1 /\ j # 0
        BY <1>7, <3>2
      <4>3. c[j] = g[j - 1] + 1 /\ c[j - 1] = g[(j - 1) - 1] + 1
        BY <4>2
      <4>4. g[(j - 1) - 1] < g[j - 1] /\ g[(j - 1) - 1] \in Nat /\ g[j - 1] \in Nat
        BY <1>9, <4>1
      <4> HIDE DEF c
      <4> QED
        BY <4>3, <4>4
    <3> QED
      BY <3>1, <3>2
  <2> HIDE DEF c
  <2> QED
    BY <1>10, <2>2, <2>3, <2>4 DEF Cuts
<1>12. ASSUME NEW j \in 1 .. m PROVE places(j + 1) = Stretch(c, j + 1)
  <2>1. (j + 1) - 1 = j /\ (j + 1) - 1 \in 1 .. m /\ j - 1 \in 0 .. m /\ j \in 0 .. m
    BY <1>7
  <2>2. places(j + 1) = {i + 1 : i \in Stretch(g, j)}
    BY <1>8, <2>1
  <2>3. g[j - 1] \in Nat /\ g[j] \in Nat
    BY <1>9, <2>1
  <2>4. {i + 1 : i \in g[j - 1] + 1 .. g[j]} = (g[j - 1] + 1) + 1 .. g[j] + 1
    <3>1. \A k \in (g[j - 1] + 1) + 1 .. g[j] + 1 : k - 1 \in g[j - 1] + 1 .. g[j] /\ k = (k - 1) + 1
      BY <2>3
    <3>2. \A i \in g[j - 1] + 1 .. g[j] : i + 1 \in (g[j - 1] + 1) + 1 .. g[j] + 1
      BY <2>3
    <3> QED
      BY <3>1, <3>2
  <2>5. c[j + 1] = g[j] + 1 /\ c[j] = g[j - 1] + 1
    <3>1. j \in 0 .. m + 1 /\ j # 0
      BY <1>7
    <3> QED
      BY <1>10, <3>1
  <2> HIDE DEF c, places
  <2> QED
    BY <2>1, <2>2, <2>4, <2>5 DEF Stretch
<1>13. Stretch(c, 1) = {1}
  <2>1. c[1 - 1] = 0 /\ c[1] = 1
    BY <1>10
  <2> HIDE DEF c
  <2> QED
    BY <2>1 DEF Stretch
<1> HIDE DEF c, places
<1>14. \A j \in 1 .. m + 1 : Stretch(c, j) \in SUBSET (1 .. K) /\ c[j] \in Stretch(c, j)
  BY <1>2, <1>7, <1>11, CutsFacts
<1>15. r[1] = ks[1] /\ \A j \in 1 .. m : r[j + 1] = FoldedBar(ks, Stretch(c, j + 1))
  <2>1. 1 \in 1 .. m + 1 /\ \A j \in 1 .. m : j + 1 \in 1 .. m + 1 /\ j + 1 # 1
    BY <1>7
  <2> QED
    BY <1>12, <2>1
<1>16. \A j \in 1 .. m + 1 : r[j] \in DayBar /\ Gathers(r[j], ks, Stretch(c, j))
  <2>1. ks[1] \in DayBar /\ Gathers(ks[1], ks, {1})
    <3>1. 1 \in 1 .. Len(ks) /\ Len(ks) \in Nat
      BY <1>2
    <3>2. /\ VolumesOf(ks) \in Seq(Int) /\ Len(VolumesOf(ks)) = Len(ks)
          /\ AmountsOf(ks) \in Seq(Int) /\ Len(AmountsOf(ks)) = Len(ks)
          /\ VolumesOf(ks)[1] = ks[1].volume /\ AmountsOf(ks)[1] = ks[1].amount
          /\ ks[1] \in DayBar /\ ks[1].high \in Int /\ ks[1].low \in Int
      BY <1>2, <3>1, Columns
    <3>3. SumOver(VolumesOf(ks), {1}) = ks[1].volume /\ SumOver(AmountsOf(ks), {1}) = ks[1].amount
      BY <3>1, <3>2, SumOverOne
    <3>4. Max({1}) = 1
      <4>1. {1} \in SUBSET (1 .. 1) /\ 1 \in {1} /\ \A i \in {1} : i <= 1
        OBVIOUS
      <4> QED
        BY <4>1, MaxOfStretch
    <3>5. Max({ks[1].high}) = ks[1].high /\ Min({ks[1].low}) = ks[1].low
      <4>1. \A x \in Int : x <= x /\ x >= x
        OBVIOUS
      <4>2. \A x \in Int : Max({x}) = x /\ Min({x}) = x
        BY <4>1 DEF Max, Min
      <4> QED
        BY <3>2, <4>2
    <3>6. {ks[i].high : i \in {1}} = {ks[1].high} /\ {ks[i].low : i \in {1}} = {ks[1].low}
      OBVIOUS
    <3> QED
      BY <3>2, <3>3, <3>4, <3>5, <3>6 DEF Gathers
  <2>2. ASSUME NEW j \in 1 .. m
        PROVE  r[j + 1] \in DayBar /\ Gathers(r[j + 1], ks, Stretch(c, j + 1))
    <3>1. j + 1 \in 1 .. m + 1
      BY <1>7
    <3>2. Stretch(c, j + 1) \in SUBSET (1 .. Len(ks)) /\ Stretch(c, j + 1) # {}
      BY <1>2, <1>14, <3>1
    <3>3. r[j + 1] = FoldedBar(ks, Stretch(c, j + 1))
      BY <1>15
    <3> HIDE DEF r
    <3> QED
      BY <1>2, <3>2, <3>3, BarOfFacts
  <2>3. \A j \in 1 .. m + 1 : j = 1 \/ (j - 1 \in 1 .. m /\ (j - 1) + 1 = j)
    BY <1>7
  <2> HIDE DEF r
  <2> QED
    BY <1>13, <1>15, <2>1, <2>2, <2>3
<1>17. r \in [1 .. m + 1 -> DayBar]
  BY <1>16
<1> HIDE DEF r
<1>18. r \in Seq(DayBar) /\ Len(r) = m + 1 /\ m + 1 \in Nat \ {0}
  BY <1>7, <1>17
<1>19. SameDay(r, ks)
  <2>1. Cuts(c, m + 1, Len(ks)) /\ ks \in Seq(DayBar)
    BY <1>2, <1>11
  <2> QED
    BY <1>15, <1>16, <1>18, <2>1, GatheredDay
<1> QED
  BY <1>5, <1>18, <1>19

\* MinuteToSessions.
LEMMA SessionDay ==
  ASSUME NEW ks \in Seq(DayBar), ks # <<>>, NEW n \in Nat
  PROVE  BySession(ks, n) \in Seq(DayBar) /\ BySession(ks, n) # <<>> /\ SameDay(BySession(ks, n), ks)
<1> DEFINE L == Len(ks)
           starts == {i \in 1 .. Len(ks) : i = 1 \/ Slot(ks[i], n) # Slot(ks[i - 1], n)}
           first  == Sorted(starts)
           r == [j \in 1 .. Len(first) |->
                   FoldedBar(ks, first[j] .. (IF j = Len(first) THEN Len(ks) ELSE first[j + 1] - 1))]
           m == Cardinality(starts)
           c == [j \in 0 .. m |-> IF j = m THEN L ELSE first[j + 1] - 1]
<1>1. BySession(ks, n) = r
  BY DEF BySession
<1>2. L \in Nat /\ L # 0
  OBVIOUS
<1>3. starts \in SUBSET (1 .. L) /\ 1 \in starts
  BY <1>2
<1> HIDE DEF starts
<1>4. starts \in SUBSET Nat /\ IsFiniteSet(starts)
  <2>1. IsFiniteSet(1 .. L)
    BY <1>2, FS_Interval
  <2>2. \A i \in 1 .. L : i \in Nat
    BY <1>2
  <2>3. IsFiniteSet(starts)
    BY <1>3, <2>1, FS_Subset
  <2> QED
    BY <1>3, <2>2, <2>3
<1>5. /\ m \in Nat /\ Len(first) = m
      /\ \A i \in 1 .. m : first[i] \in starts
      /\ \A i, j \in 1 .. m : i < j => first[i] < first[j]
      /\ ToSet(first) = starts
  BY <1>4, SortedFacts
<1>6. ASSUME NEW k \in starts PROVE \E i \in 1 .. m : first[i] = k
  <2>1. Rank(k, starts) \in 0 .. m - 1
    BY <1>4, RankBelow
  <2>2. first[Rank(k, starts) + 1] = k
    BY <1>4, SortedFacts
  <2>3. Rank(k, starts) + 1 \in 1 .. m
    BY <1>5, <2>1
  <2> QED
    BY <2>2, <2>3
<1> HIDE DEF first, m
<1>7. m # 0 /\ first[1] = 1
  <2>1. PICK i \in 1 .. m : first[i] = 1
    BY <1>3, <1>6
  <2>2. 1 \in 1 .. m
    BY <1>5, <2>1
  <2>3. first[1] \in 1 .. L
    BY <1>3, <1>5, <2>2
  <2>4. i = 1
    <3>1. 1 < i => first[1] < 1
      BY <1>5, <2>1, <2>2
    <3> QED
      BY <2>1, <2>3, <3>1
  <2> QED
    BY <1>5, <2>1, <2>4
<1>8. \A i \in 1 .. m : first[i] \in 1 .. L
  BY <1>3, <1>5
<1>9. ASSUME NEW j \in 0 .. m
      PROVE  c[j] \in Nat /\ (j = m => c[j] = L) /\ (j # m => c[j] = first[j + 1] - 1)
  <2>1. CASE j = m
    BY <1>2, <2>1
  <2>2. CASE j # m
    <3>1. j + 1 \in 1 .. m
      BY <1>5, <2>2
    <3>2. first[j + 1] \in 1 .. L
      BY <1>8, <3>1
    <3> QED
      BY <2>2, <3>2
  <2> QED
    BY <2>1, <2>2
<1>10. c \in [0 .. m -> Nat]
  BY <1>9
<1> HIDE DEF c
<1>11. Cuts(c, m, L)
  <2>1. c[0] = 0
    <3>1. 0 \in 0 .. m /\ 0 # m /\ 0 + 1 = 1
      BY <1>5, <1>7
    <3> QED
      BY <1>7, <1>9, <3>1
  <2>2. c[m] = L
    BY <1>5, <1>9
  <2>3. ASSUME NEW j \in 1 .. m PROVE c[j - 1] < c[j]
    <3>1. j - 1 \in 0 .. m /\ j - 1 # m /\ (j - 1) + 1 = j /\ j \in 0 .. m
      BY <1>5
    <3>2. c[j - 1] = first[j] - 1 /\ first[j] \in 1 .. L
      BY <1>8, <1>9, <3>1
    <3>3. CASE j = m
      BY <1>2, <1>9, <3>1, <3>2, <3>3
    <3>4. CASE j # m
      <4>1. j + 1 \in 1 .. m /\ j < j + 1
        BY <1>5, <3>4
      <4>2. first[j] < first[j + 1] /\ first[j + 1] \in 1 .. L
        BY <1>5, <1>8, <4>1
      <4>3. c[j] = first[j + 1] - 1
        BY <1>9, <3>1, <3>4
      <4> QED
        BY <3>2, <4>2, <4>3
    <3> QED
      BY <3>3, <3>4
  <2> QED
    BY <1>10, <2>1, <2>2, <2>3 DEF Cuts
<1>12. ASSUME NEW j \in 1 .. m PROVE r[j] = FoldedBar(ks, Stretch(c, j))
  <2>1. j - 1 \in 0 .. m /\ j - 1 # m /\ (j - 1) + 1 = j /\ j \in 0 .. m
    BY <1>5
  <2>2. c[j - 1] = first[j] - 1 /\ first[j] \in 1 .. L
    BY <1>8, <1>9, <2>1
  <2>3. c[j] = IF j = m THEN L ELSE first[j + 1] - 1
    BY <1>9, <2>1
  <2>4. (first[j] - 1) + 1 = first[j]
    BY <2>2
  <2>5. Stretch(c, j) = first[j] .. (IF j = Len(first) THEN Len(ks) ELSE first[j + 1] - 1)
    BY <1>5, <2>2, <2>3, <2>4 DEF Stretch
  <2>6. j \in 1 .. Len(first)
    BY <1>5
  <2> QED
    BY <2>5, <2>6
<1>13. \A j \in 1 .. m : /\ Stretch(c, j) \in SUBSET (1 .. L)
                         /\ c[j - 1] + 1 \in Stretch(c, j)
  BY <1>2, <1>5, <1>11, CutsFacts
<1>14. ASSUME NEW j \in 1 .. m
       PROVE  r[j] \in DayBar /\ Gathers(r[j], ks, Stretch(c, j))
  <2>1. Stretch(c, j) \in SUBSET (1 .. Len(ks)) /\ Stretch(c, j) # {}
    BY <1>13
  <2> HIDE DEF r
  <2> QED
    BY <1>12, <2>1, BarOfFacts
<1>15. r \in [1 .. m -> DayBar]
  BY <1>5, <1>14
<1> HIDE DEF r
<1>16. r \in Seq(DayBar) /\ Len(r) = m
  BY <1>5, <1>15
<1>17. ks[1].open # 0 => r[1].open = ks[1].open
  <2>1. 1 \in 1 .. m /\ c[1 - 1] = 0
    BY <1>5, <1>7, <1>11 DEF Cuts
  <2>2. 1 \in Stretch(c, 1)
    <3>1. c[1 - 1] + 1 \in Stretch(c, 1)
      BY <1>13, <2>1
    <3> QED
      BY <2>1, <3>1
  <2>3. Stretch(c, 1) \in SUBSET (1 .. Len(ks)) /\ Stretch(c, 1) # {}
    BY <1>13, <2>1
  <2>4. Min(Stretch(c, 1)) = 1
    BY <1>2, <2>2, <2>3, MinOfStretch
  <2>5. r[1] = FoldedBar(ks, Stretch(c, 1))
    BY <1>12, <2>1
  <2> QED
    BY <2>3, <2>4, <2>5, BarOfFacts
<1>18. SameDay(r, ks)
  <2>1. Cuts(c, m, Len(ks)) /\ m \in Nat \ {0}
    BY <1>5, <1>7, <1>11
  <2> QED
    BY <1>14, <1>16, <1>17, <2>1, GatheredDay
<1> QED
  BY <1>1, <1>5, <1>7, <1>16, <1>18

(***************************************************************************)
(* The minutes that trades make.                                           *)
(***************************************************************************)
Trade == [minute : Nat, price : Int, volume : Nat]

DayTrades(ts) == ts \in Seq(Trade) /\ InOrder(ts)

\* Every trade counts for a minute of the day, a later one for none before it.
LEMMA BucketFacts ==
  /\ \A ms \in Nat : Bucket(ms) \in KeyMinutes /\ Bucket(ms) \in Int
  /\ \A a, b \in Nat : a <= b => Bucket(a) <= Bucket(b)
<1>1. /\ {Open, Noon, Afternoon, Close} \subseteq Nat
      /\ 0 < Open /\ Open <= Noon /\ Noon < Afternoon /\ Afternoon < Close
  BY BarConstants
<1>2. ASSUME NEW ms \in Nat PROVE Bucket(ms) \in KeyMinutes /\ Bucket(ms) \in Int
  <2>1. Bucket(ms) \in Open .. Noon \/ Bucket(ms) \in Afternoon + 1 .. Close
    BY <1>1 DEF Bucket
  <2> QED
    BY <1>1, <2>1 DEF KeyMinutes
<1>3. ASSUME NEW a \in Nat, NEW b \in Nat, a <= b PROVE Bucket(a) <= Bucket(b)
  BY <1>1, <1>3 DEF Bucket
<1> QED
  BY <1>2, <1>3

LEMMA TradeColumns ==
  ASSUME NEW ts, DayTrades(ts)
  PROVE  /\ Len(ts) \in Nat
         /\ VolumesOf(ts) \in Seq(Int) /\ TurnoversOf(ts) \in Seq(Int)
         /\ PricedOf(ts) \in SUBSET (1 .. Len(ts))
         /\ \A i \in 1 .. Len(ts) : ts[i].minute \in Nat /\ ts[i].price \in Int
         /\ \A i \in PricedOf(ts) : ts[i].price > 0
<1>1. \A i \in 1 .. Len(ts) : ts[i] \in Trade
  BY DEF DayTrades
<1>2. \A i \in 1 .. Len(ts) : ts[i].volume \in Nat /\ ts[i].price \in Int /\ ts[i].minute \in Nat
  BY <1>1 DEF Trade
<1>3. Len(ts) \in Nat
  BY DEF DayTrades
<1>4. \A i \in 1 .. Len(ts) : ts[i].price * ts[i].volume \in Int
  BY <1>2
<1>5. VolumesOf(ts) \in [1 .. Len(ts) -> Int] /\ TurnoversOf(ts) \in [1 .. Len(ts) -> Int]
  BY <1>2, <1>4 DEF VolumesOf, TurnoversOf
<1>6. VolumesOf(ts) \in Seq(Int) /\ TurnoversOf(ts) \in Seq(Int)
  BY <1>3, <1>5
<1>7. PricedOf(ts) \in SUBSET (1 .. Len(ts)) /\ \A i \in PricedOf(ts) : ts[i].price > 0
  BY DEF PricedOf
<1> QED
  BY <1>2, <1>3, <1>6, <1>7

\* The trades that count for a minute.
CountedFor(ts, t) == {i \in PricedOf(ts) : Bucket(ts[i].minute) = t}

LEMMA CountedForFacts ==
  ASSUME NEW ts, DayTrades(ts), NEW t
  PROVE  CountedFor(ts, t) \in SUBSET PricedOf(ts) /\ CountedFor(ts, t) \in SUBSET (1 .. Len(ts))
BY TradeColumns DEF CountedFor

FirstPrice(ts) == IF PricedOf(ts) = {} THEN 0 ELSE ts[Min(PricedOf(ts))].price

\* The price a minute hands to the next one.
Carried(last, ts) ==
    /\ last \in [0 .. Len(Keys) -> Int]
    /\ last[0] = FirstPrice(ts)
    /\ \A k \in 1 .. Len(Keys) :
         last[k] = IF CountedFor(ts, Keys[k]) = {} THEN last[k - 1]
                   ELSE ts[Max(CountedFor(ts, Keys[k]))].price

Minutes(ts, last) ==
    [k \in 1 .. Len(Keys) |-> TradeBar(Keys[k], ts, CountedFor(ts, Keys[k]), last[k - 1])]

LEMMA TradeBarsFacts ==
  ASSUME NEW ts, DayTrades(ts)
  PROVE  \E last : Carried(last, ts) /\ TradeBars(ts) = Minutes(ts, last)
<1> DEFINE n == Len(Keys)
           base == FirstPrice(ts)
           of(k) == CountedFor(ts, Keys[k])
           Step(k, x) == IF of(k) = {} THEN x ELSE ts[Max(of(k))].price
           F(g) == [k \in 0 .. n |-> IF k = 0 THEN base ELSE Step(k, g[k - 1])]
           step == [k \in 1 .. n |-> [x \in Int |-> Step(k, x)]]
           last == CHOOSE g : g = F(g)
<1>1. n \in Nat
  BY KeysFacts
<1>2. base \in Int
  <2>1. CASE PricedOf(ts) = {}
    BY <2>1 DEF FirstPrice
  <2>2. CASE PricedOf(ts) # {}
    <3>1. Min(PricedOf(ts)) \in PricedOf(ts)
      BY <2>2, TradeColumns, MinOfPlaces
    <3> QED
      BY <2>2, <3>1, TradeColumns DEF FirstPrice
  <2> QED
    BY <2>1, <2>2
<1>3. ASSUME NEW k \in 1 .. n, NEW x \in Int PROVE Step(k, x) \in Int
  <2>1. CASE of(k) = {}
    BY <2>1
  <2>2. CASE of(k) # {}
    <3>1. of(k) \in SUBSET (1 .. Len(ts)) /\ Len(ts) \in Nat
      BY CountedForFacts, TradeColumns
    <3> HIDE DEF of
    <3>2. Max(of(k)) \in of(k)
      BY <2>2, <3>1, MaxOfPlaces
    <3>3. ts[Max(of(k))].price \in Int
      BY <3>1, <3>2, TradeColumns
    <3> QED
      BY <2>2, <3>3
  <2> QED
    BY <2>1, <2>2
<1>4. TradeBars(ts) = Minutes(ts, last)
  BY DEF TradeBars, Minutes, CountedFor, FirstPrice
<1> HIDE DEF Step, n, base
<1>5. step \in [1 .. n -> [Int -> Int]]
  BY <1>3
<1>6. PICK g : Steps(g, n, Int, base, step)
  <2> HIDE DEF step
  <2> QED
    BY <1>1, <1>2, <1>5, StepsExist
<1>7. g = F(g)
  <2>1. /\ g \in [0 .. n -> Int] /\ g[0] = base
        /\ \A k \in 1 .. n : g[k] = step[k][g[k - 1]]
    <3> HIDE DEF step
    <3> QED
      BY <1>6 DEF Steps
  <2>2. ASSUME NEW k \in 0 .. n, k # 0 PROVE g[k] = Step(k, g[k - 1])
    <3>1. k \in 1 .. n /\ k - 1 \in 0 .. n
      BY <1>1, <2>2
    <3>2. g[k - 1] \in Int /\ g[k] = step[k][g[k - 1]]
      <4> HIDE DEF step
      <4> QED
        BY <2>1, <3>1
    <3> QED
      BY <3>1, <3>2
  <2>3. \A k \in 0 .. n : g[k] = IF k = 0 THEN base ELSE Step(k, g[k - 1])
    BY <2>1, <2>2
  <2> QED
    BY <2>1, <2>3
<1>8. last = F(last)
  <2> HIDE DEF F
  <2> QED
    BY <1>7
<1> HIDE DEF last
<1>9. last[0] = base /\ \A k \in 1 .. n : last[k] = Step(k, last[k - 1])
  <2>1. 0 \in 0 .. n /\ \A k \in 1 .. n : k \in 0 .. n /\ k # 0
    BY <1>1
  <2> QED
    BY <1>8, <2>1
<1>10. \A k \in 0 .. n : last[k] \in Int
  <2> DEFINE S == {k \in 0 .. n : last[k] \in Int}
  <2>1. 0 \in S
    BY <1>1, <1>2, <1>9
  <2>2. ASSUME NEW k \in 1 .. n, k - 1 \in S PROVE k \in S
    <3>1. k \in 0 .. n /\ last[k - 1] \in Int
      BY <1>1, <2>2
    <3>2. Step(k, last[k - 1]) \in Int
      BY <1>3, <3>1
    <3> QED
      BY <1>9, <3>1, <3>2
  <2>3. \A k \in 0 .. n : k \in S
    <3> HIDE DEF S
    <3> QED
      BY <1>1, <2>1, <2>2, IntervalInduction
  <2> QED
    BY <2>3
<1>11. last \in [0 .. n -> Int]
  BY <1>8, <1>10
<1>12. Carried(last, ts)
  BY <1>9, <1>11 DEF Step, n, base, Carried
<1> QED
  BY <1>4, <1>12

\* The priced trades up to the k-th minute.
Upto(ts, k) == {i \in PricedOf(ts) : \E j \in 1 .. k : Bucket(ts[i].minute) = Keys[j]}

LEMMA UptoFacts ==
  ASSUME NEW ts, DayTrades(ts), NEW k \in 1 .. Len(Keys)
  PROVE  /\ Upto(ts, k) = Upto(ts, k - 1) \cup CountedFor(ts, Keys[k])
         /\ \A i \in Upto(ts, k - 1), j \in CountedFor(ts, Keys[k]) : i < j
<1>1. Len(Keys) \in Nat
  BY KeysFacts
<1>2. (1 .. k) = (1 .. k - 1) \cup {k} /\ \A j \in 1 .. k - 1 : j \in 1 .. Len(Keys) /\ j < k
  BY <1>1
<1>3. Upto(ts, k) = Upto(ts, k - 1) \cup CountedFor(ts, Keys[k])
  BY <1>2 DEF Upto, CountedFor
<1>4. ASSUME NEW i \in Upto(ts, k - 1), NEW j \in CountedFor(ts, Keys[k]) PROVE i < j
  <2>1. PICK l \in 1 .. k - 1 : Bucket(ts[i].minute) = Keys[l]
    BY DEF Upto
  <2>2. Keys[l] < Keys[k] /\ Bucket(ts[j].minute) = Keys[k]
    BY <1>2, KeysFacts DEF CountedFor
  <2>3. i \in 1 .. Len(ts) /\ j \in 1 .. Len(ts) /\ Len(ts) \in Nat
    BY TradeColumns DEF Upto, CountedFor
  <2>4. ts[i].minute \in Nat /\ ts[j].minute \in Nat
    BY <2>3, TradeColumns
  <2>5. Bucket(ts[i].minute) \in Int /\ Bucket(ts[j].minute) \in Int
    BY <2>4, BucketFacts
  <2>6. ~ (j <= i)
    <3> SUFFICES ASSUME j <= i PROVE FALSE
      OBVIOUS
    <3>1. ts[j].minute <= ts[i].minute
      <4>1. CASE j = i
        BY <2>4, <4>1
      <4>2. CASE j # i
        <5>1. j < i
          BY <2>3, <4>2
        <5> QED
          BY <2>3, <5>1 DEF DayTrades, InOrder
      <4> QED
        BY <4>1, <4>2
    <3>2. Bucket(ts[j].minute) <= Bucket(ts[i].minute)
      BY <2>4, <3>1, BucketFacts
    <3> QED
      BY <2>1, <2>2, <2>5, <3>2
  <2> QED
    BY <2>3, <2>6
<1> QED
  BY <1>3, <1>4

\* A minute hands on the price of the last trade up to it, or of the first.
LEMMA CarriedFacts ==
  ASSUME NEW ts, DayTrades(ts), NEW last, Carried(last, ts)
  PROVE  \A k \in 0 .. Len(Keys) : last[k] = IF Upto(ts, k) = {} THEN FirstPrice(ts)
                                            ELSE ts[Max(Upto(ts, k))].price
<1> DEFINE n == Len(Keys)
           Handed(k) == IF Upto(ts, k) = {} THEN FirstPrice(ts) ELSE ts[Max(Upto(ts, k))].price
           S == {k \in 0 .. n : last[k] = Handed(k)}
<1>1. n \in Nat
  BY KeysFacts
<1>2. /\ last[0] = FirstPrice(ts)
      /\ \A k \in 1 .. n : last[k] = IF CountedFor(ts, Keys[k]) = {} THEN last[k - 1]
                                     ELSE ts[Max(CountedFor(ts, Keys[k]))].price
  BY DEF Carried
<1> HIDE DEF n
<1>3. 0 \in S
  <2>1. Upto(ts, 0) = {}
    BY DEF Upto
  <2> QED
    BY <1>1, <1>2, <2>1
<1>4. ASSUME NEW k \in 1 .. n, k - 1 \in S PROVE k \in S
  <2> DEFINE A == Upto(ts, k - 1)
             B == CountedFor(ts, Keys[k])
  <2>1. Upto(ts, k) = A \cup B /\ \A i \in A, j \in B : i < j
    BY UptoFacts DEF n
  <2>2. A \in SUBSET (1 .. Len(ts)) /\ B \in SUBSET (1 .. Len(ts)) /\ Len(ts) \in Nat
    BY TradeColumns, CountedForFacts DEF Upto
  <2>3. last[k - 1] = Handed(k - 1) /\ k \in 0 .. n
    BY <1>1, <1>4
  <2>4. last[k] = IF B = {} THEN last[k - 1] ELSE ts[Max(B)].price
    BY <1>2
  <2> HIDE DEF A, B
  <2>5. CASE B = {}
    <3>1. Upto(ts, k) = A
      BY <2>1, <2>5
    <3>2. last[k] = Handed(k)
      BY <2>3, <2>4, <2>5, <3>1 DEF A
    <3> QED
      BY <2>3, <3>2
  <2>6. CASE B # {}
    <3>1. Max(B) \in B /\ \A j \in B : j <= Max(B)
      BY <2>2, <2>6, MaxOfPlaces
    <3>2. A \cup B \in SUBSET (1 .. Len(ts)) /\ Max(B) \in A \cup B /\ A \cup B # {}
      BY <2>2, <3>1
    <3>3. \A i \in A \cup B : i <= Max(B)
      <4>1. \A i \in A : i \in 1 .. Len(ts) /\ i < Max(B)
        BY <2>1, <2>2, <3>1
      <4>2. Max(B) \in 1 .. Len(ts)
        BY <2>2, <3>1
      <4>3. \A i \in A : i <= Max(B)
        BY <4>1, <4>2
      <4> QED
        BY <3>1, <4>3
    <3>4. Max(A \cup B) = Max(B)
      BY <2>2, <3>2, <3>3, MaxOfStretch
    <3>5. last[k] = Handed(k)
      BY <2>1, <2>4, <2>6, <3>2, <3>4
    <3> QED
      BY <2>3, <3>5
  <2> QED
    BY <2>5, <2>6
<1>5. \A k \in 0 .. n : k \in S
  <2> HIDE DEF S
  <2> QED
    BY <1>1, <1>3, <1>4, IntervalInduction
<1> QED
  BY <1>5 DEF n

\* What a minute hands on is the price of a trade, and the close of the day
\* that of the last one.
LEMMA CarriedPrices ==
  ASSUME NEW ts, DayTrades(ts), NEW last, Carried(last, ts), PricedOf(ts) # {}
  PROVE  /\ \A k \in 0 .. Len(Keys) : \E i \in PricedOf(ts) : last[k] = ts[i].price
         /\ last[Len(Keys)] = ts[Max(PricedOf(ts))].price
<1>1. Len(Keys) \in Nat /\ Len(ts) \in Nat
  BY KeysFacts, TradeColumns
<1>2. PricedOf(ts) \in SUBSET (1 .. Len(ts))
  BY TradeColumns
<1>3. ASSUME NEW k \in 0 .. Len(Keys) PROVE \E i \in PricedOf(ts) : last[k] = ts[i].price
  <2>1. Upto(ts, k) \in SUBSET PricedOf(ts)
    BY DEF Upto
  <2>2. CASE Upto(ts, k) = {}
    <3>1. Min(PricedOf(ts)) \in PricedOf(ts)
      BY <1>1, <1>2, MinOfPlaces
    <3>2. last[k] = ts[Min(PricedOf(ts))].price
      BY <2>2, CarriedFacts DEF FirstPrice
    <3> QED
      BY <3>1, <3>2
  <2>3. CASE Upto(ts, k) # {}
    <3>1. Upto(ts, k) \in SUBSET (1 .. Len(ts))
      BY <1>2, <2>1
    <3>2. Max(Upto(ts, k)) \in Upto(ts, k)
      BY <1>1, <2>3, <3>1, MaxOfPlaces
    <3>3. last[k] = ts[Max(Upto(ts, k))].price
      BY <2>3, CarriedFacts
    <3> QED
      BY <2>1, <3>2, <3>3
  <2> QED
    BY <2>2, <2>3
<1>4. Upto(ts, Len(Keys)) = PricedOf(ts)
  <2>1. ASSUME NEW i \in PricedOf(ts) PROVE i \in Upto(ts, Len(Keys))
    <3>1. ts[i].minute \in Nat
      BY <1>2, TradeColumns
    <3>2. Bucket(ts[i].minute) \in KeyMinutes
      BY <3>1, BucketFacts
    <3>3. \E j \in 1 .. Len(Keys) : Keys[j] = Bucket(ts[i].minute)
      BY <3>2, KeysFacts
    <3> QED
      BY <3>3 DEF Upto
  <2> QED
    BY <2>1 DEF Upto
<1>5. last[Len(Keys)] = ts[Max(PricedOf(ts))].price
  <2>1. Len(Keys) \in 0 .. Len(Keys)
    BY <1>1
  <2> QED
    BY <1>4, <2>1, CarriedFacts
<1> QED
  BY <1>3, <1>5

\* b is the bar of the trades at I.
Counts(b, minute, ts, I, last) ==
    /\ b \in DayBar /\ b.minute = minute
    /\ b.volume = SumOver(VolumesOf(ts), I)
    /\ b.amount = SumOver(TurnoversOf(ts), I)
    /\ I = {} => b.open = last /\ b.high = last /\ b.low = last /\ b.close = last
    /\ I # {} => /\ b.open = ts[Min(I)].price /\ b.close = ts[Max(I)].price
                 /\ \E i \in I : b.high = ts[i].price
                 /\ \A i \in I : ts[i].price <= b.high
                 /\ \E i \in I : b.low = ts[i].price
                 /\ \A i \in I : b.low <= ts[i].price

\* Trades.Kline.
LEMMA TradeBarFacts ==
  ASSUME NEW ts, DayTrades(ts), NEW I \in SUBSET (1 .. Len(ts)), NEW minute \in Int, NEW last \in Int
  PROVE  Counts(TradeBar(minute, ts, I, last), minute, ts, I, last)
<1> USE DEF Counts
<1> DEFINE b == TradeBar(minute, ts, I, last)
<1>1. /\ Len(ts) \in Nat /\ VolumesOf(ts) \in Seq(Int) /\ TurnoversOf(ts) \in Seq(Int)
      /\ \A i \in 1 .. Len(ts) : ts[i].price \in Int
  BY TradeColumns
<1>2. CASE I = {}
  <2>1. b = [minute |-> minute, open |-> last, high |-> last, low |-> last,
             close |-> last, volume |-> 0, amount |-> 0]
    BY <1>2 DEF TradeBar, Flat
  <2>2. SumOver(VolumesOf(ts), I) = 0 /\ SumOver(TurnoversOf(ts), I) = 0
    BY <1>1, <1>2, SumOverNone
  <2>3. b \in DayBar
    BY <2>1 DEF DayBar
  <2> HIDE DEF b
  <2> QED
    BY <1>2, <2>1, <2>2, <2>3 DEF b
<1>3. CASE I # {}
  <2> DEFINE p == [i \in 1 .. Len(ts) |-> ts[i].price]
  <2>1. \A i \in I : p[i] = ts[i].price /\ p[i] \in Int
    BY <1>1
  <2>2. {ts[i].price : i \in I} = {p[i] : i \in I}
    BY <2>1
  <2> HIDE DEF p
  <2>3. PICK k \in I : (\A i \in I : p[i] <= p[k]) /\ Max({p[i] : i \in I}) = p[k]
    BY <1>1, <1>3, <2>1, Highest
  <2>4. PICK l \in I : (\A i \in I : p[l] <= p[i]) /\ Min({p[i] : i \in I}) = p[l]
    BY <1>1, <1>3, <2>1, Lowest
  <2>5. b = [minute |-> minute, open |-> ts[Min(I)].price, high |-> Max({ts[i].price : i \in I}),
             low |-> Min({ts[i].price : i \in I}), close |-> ts[Max(I)].price,
             volume |-> SumOver(VolumesOf(ts), I), amount |-> SumOver(TurnoversOf(ts), I)]
    BY <1>3 DEF TradeBar
  <2>6. Min(I) \in I /\ Max(I) \in I
    BY <1>1, <1>3, MinOfPlaces, MaxOfPlaces
  <2>7. ts[Min(I)].price \in Int /\ ts[Max(I)].price \in Int
    BY <1>1, <2>6
  <2>8. SumOver(VolumesOf(ts), I) \in Int /\ SumOver(TurnoversOf(ts), I) \in Int
    BY <1>1, SumOverType
  <2>9. Max({ts[i].price : i \in I}) = ts[k].price /\ Min({ts[i].price : i \in I}) = ts[l].price
    BY <2>1, <2>2, <2>3, <2>4
  <2>10. ts[k].price \in Int /\ ts[l].price \in Int
    BY <1>1
  <2>11. b = [minute |-> minute, open |-> ts[Min(I)].price, high |-> ts[k].price,
              low |-> ts[l].price, close |-> ts[Max(I)].price,
              volume |-> SumOver(VolumesOf(ts), I), amount |-> SumOver(TurnoversOf(ts), I)]
    BY <2>5, <2>9
  <2> HIDE DEF b
  <2>12. b \in DayBar
    BY <2>7, <2>8, <2>10, <2>11 DEF DayBar
  <2>13. /\ b.minute = minute /\ b.open = ts[Min(I)].price /\ b.high = ts[k].price
         /\ b.low = ts[l].price /\ b.close = ts[Max(I)].price
         /\ b.volume = SumOver(VolumesOf(ts), I) /\ b.amount = SumOver(TurnoversOf(ts), I)
    BY <2>11
  <2>14. \A i \in I : ts[i].price <= ts[k].price /\ ts[l].price <= ts[i].price
    BY <2>1, <2>3, <2>4
  <2> QED
    BY <1>3, <2>12, <2>13, <2>14 DEF b
<1> QED
  BY <1>2, <1>3

\* Bars that tell what a day's trades were.
Tells(ks, ts) ==
    /\ SumOver(VolumesOf(ks), 1 .. Len(ks)) = SumOver(VolumesOf(ts), PricedOf(ts))
    /\ SumOver(AmountsOf(ks), 1 .. Len(ks)) = SumOver(TurnoversOf(ts), PricedOf(ts))
    /\ PricedOf(ts) # {} =>
         /\ ks[1].open = ts[Min(PricedOf(ts))].price
         /\ ks[Len(ks)].close = ts[Max(PricedOf(ts))].price
         /\ Max({ks[i].high : i \in 1 .. Len(ks)}) = Max({ts[i].price : i \in PricedOf(ts)})
         /\ Min({ks[i].low : i \in 1 .. Len(ks)}) = Min({ts[i].price : i \in PricedOf(ts)})

LEMMA MinuteBarFacts ==
  ASSUME NEW ts, DayTrades(ts), NEW last, Carried(last, ts), NEW k \in 1 .. Len(Keys)
  PROVE  /\ Minutes(ts, last)[k]
              = TradeBar(Keys[k], ts, CountedFor(ts, Keys[k]), last[k - 1])
         /\ CountedFor(ts, Keys[k]) \in SUBSET (1 .. Len(ts))
         /\ Keys[k] \in Int /\ last[k - 1] \in Int
         /\ Minutes(ts, last)[k].close = last[k]
<1>1. Len(Keys) \in Nat /\ Keys[k] \in KeyMinutes
  BY KeysFacts
<1>2. Keys[k] \in Int
  BY <1>1, BarConstants DEF KeyMinutes
<1>3. last[k - 1] \in Int
  <2>1. k - 1 \in 0 .. Len(Keys)
    BY <1>1
  <2> QED
    BY <2>1 DEF Carried
<1>4. CountedFor(ts, Keys[k]) \in SUBSET (1 .. Len(ts))
  BY CountedForFacts
<1>5. Minutes(ts, last)[k] = TradeBar(Keys[k], ts, CountedFor(ts, Keys[k]), last[k - 1])
  BY DEF Minutes
<1>6. last[k] = IF CountedFor(ts, Keys[k]) = {} THEN last[k - 1]
                ELSE ts[Max(CountedFor(ts, Keys[k]))].price
  BY DEF Carried
<1>7. Minutes(ts, last)[k].close = last[k]
  <2> DEFINE I == CountedFor(ts, Keys[k])
             b == TradeBar(Keys[k], ts, I, last[k - 1])
  <2>1. /\ I = {} => b.close = last[k - 1]
        /\ I # {} => b.close = ts[Max(I)].price
    <3> HIDE DEF I
    <3>1. I \in SUBSET (1 .. Len(ts))
      BY <1>4 DEF I
    <3> QED
      BY <1>2, <1>3, <3>1, TradeBarFacts DEF Counts
  <2>2. Minutes(ts, last)[k] = b
    BY <1>5
  <2> QED
    BY <1>6, <2>1, <2>2
<1> QED
  BY <1>2, <1>3, <1>4, <1>5, <1>7

\* Trades.klinesForDay: the minutes tell what the trades were.
LEMMA MinutesDay ==
  ASSUME NEW ts, DayTrades(ts)
  PROVE  OnGrid(TradeBars(ts)) /\ Tells(TradeBars(ts), ts)
<1> DEFINE n == Len(Keys)
           priced == PricedOf(ts)
           P == [k \in 1 .. n |-> CountedFor(ts, Keys[k])]
           of(k) == CountedFor(ts, Keys[k])
<1>1. PICK last : Carried(last, ts) /\ TradeBars(ts) = Minutes(ts, last)
  BY TradeBarsFacts
<1> DEFINE r == Minutes(ts, last)
           b(k) == TradeBar(Keys[k], ts, of(k), last[k - 1])
<1>2. n \in Nat /\ n # 0 /\ n \in 1 .. n /\ 1 \in 1 .. n
  BY KeysFacts
<1>3. /\ Len(ts) \in Nat /\ VolumesOf(ts) \in Seq(Int) /\ TurnoversOf(ts) \in Seq(Int)
      /\ priced \in SUBSET (1 .. Len(ts))
      /\ \A i \in priced : ts[i].price \in Int
      /\ \A i \in 1 .. Len(ts) : ts[i].minute \in Nat
  BY TradeColumns
<1>4. \A k \in 1 .. n : /\ of(k) \in SUBSET (1 .. Len(ts)) /\ of(k) \in SUBSET priced
                        /\ Keys[k] \in Int /\ last[k - 1] \in Int
                        /\ r[k] = b(k) /\ r[k].close = last[k]
  BY <1>1, MinuteBarFacts, CountedForFacts
<1>5. ASSUME NEW k \in 1 .. n PROVE Counts(r[k], Keys[k], ts, of(k), last[k - 1])
  <2> HIDE DEF of, r
  <2> QED
    BY <1>4, TradeBarFacts
<1>6. \A k \in 1 .. n : r[k] \in DayBar /\ r[k].minute = Keys[k]
  <2> SUFFICES ASSUME NEW k \in 1 .. n PROVE r[k] \in DayBar /\ r[k].minute = Keys[k]
    OBVIOUS
  <2> HIDE DEF of, r
  <2> QED
    BY <1>5 DEF Counts
<1>7. r \in [1 .. n -> DayBar]
  BY <1>6 DEF Minutes
<1>8. r \in Seq(DayBar) /\ Len(r) = n
  BY <1>2, <1>7
<1>9. OnGrid(r)
  BY <1>6, <1>8 DEF OnGrid
<1>10. /\ VolumesOf(r) \in Seq(Int) /\ Len(VolumesOf(r)) = n
      /\ AmountsOf(r) \in Seq(Int) /\ Len(AmountsOf(r)) = n
      /\ \A k \in 1 .. n : VolumesOf(r)[k] = r[k].volume /\ AmountsOf(r)[k] = r[k].amount
  <2> HIDE DEF r
  <2> QED
    BY <1>8, Columns
<1>11. \A k \in 1 .. n : /\ r[k].volume = SumOver(VolumesOf(ts), P[k])
                         /\ r[k].amount = SumOver(TurnoversOf(ts), P[k])
  <2> SUFFICES ASSUME NEW k \in 1 .. n
               PROVE  /\ r[k].volume = SumOver(VolumesOf(ts), of(k))
                      /\ r[k].amount = SumOver(TurnoversOf(ts), of(k))
    OBVIOUS
  <2> HIDE DEF of, r
  <2> QED
    BY <1>5 DEF Counts
<1>12. \A j, k \in 1 .. n : j # k => P[j] \cap P[k] = {}
  <2> SUFFICES ASSUME NEW j \in 1 .. n, NEW k \in 1 .. n, j # k, NEW i \in P[j], i \in P[k]
               PROVE  FALSE
    OBVIOUS
  <2>1. Keys[j] = Keys[k]
    BY DEF CountedFor
  <2>2. j < k \/ k < j
    BY <1>2
  <2>3. Keys[j] < Keys[k] \/ Keys[k] < Keys[j]
    BY <2>2, KeysFacts
  <2> QED
    BY <1>4, <2>1, <2>3
<1>13. Parts(P, n) = priced
  <2>1. ASSUME NEW i \in priced PROVE \E k \in 1 .. n : i \in P[k]
    <3>1. ts[i].minute \in Nat
      BY <1>3
    <3>2. Bucket(ts[i].minute) \in KeyMinutes
      BY <3>1, BucketFacts
    <3>3. \E k \in 1 .. n : Keys[k] = Bucket(ts[i].minute)
      BY <3>2, KeysFacts
    <3> QED
      BY <3>3 DEF CountedFor
  <2>2. \A k \in 1 .. n : P[k] \in SUBSET priced
    BY <1>4
  <2> HIDE DEF P, priced
  <2> QED
    BY <2>1, <2>2 DEF Parts
<1>14. /\ SumOver(VolumesOf(r), 1 .. n) = SumOver(VolumesOf(ts), priced)
       /\ SumOver(AmountsOf(r), 1 .. n) = SumOver(TurnoversOf(ts), priced)
  <2>1. SumsOf(VolumesOf(r), VolumesOf(ts), P, n) /\ SumsOf(AmountsOf(r), TurnoversOf(ts), P, n)
    <3> HIDE DEF r, P
    <3> QED
      BY <1>10, <1>11, <1>12 DEF SumsOf
  <2> HIDE DEF r, P, priced
  <2> QED
    BY <1>2, <1>3, <1>10, <1>13, <2>1, SumOfParts
<1>15. ASSUME priced # {}
       PROVE  /\ r[1].open = ts[Min(priced)].price
              /\ r[n].close = ts[Max(priced)].price
              /\ Max({r[k].high : k \in 1 .. n}) = Max({ts[i].price : i \in priced})
              /\ Min({r[k].low : k \in 1 .. n}) = Min({ts[i].price : i \in priced})
  <2>1. Min(priced) \in priced /\ \A i \in priced : Min(priced) <= i
    BY <1>3, <1>15, MinOfPlaces
  <2>2. r[n].close = ts[Max(priced)].price
    BY <1>1, <1>2, <1>4, <1>15, CarriedPrices
  <2>3. r[1].open = ts[Min(priced)].price
    <3>1. CASE of(1) = {}
      <4>1. r[1].open = last[1 - 1]
        <5> HIDE DEF of, r
        <5> QED
          BY <1>2, <3>1, <1>5 DEF Counts
      <4>2. last[0] = ts[Min(priced)].price
        BY <1>1, <1>15 DEF Carried, FirstPrice
      <4> QED
        BY <4>1, <4>2
    <3>2. CASE of(1) # {}
      <4>1. r[1].open = ts[Min(of(1))].price
        <5> HIDE DEF of, r
        <5> QED
          BY <1>2, <3>2, <1>5 DEF Counts
      <4>2. of(1) \in SUBSET (1 .. Len(ts)) /\ of(1) \in SUBSET priced
        BY <1>2, <1>4
      <4>3. Min(of(1)) \in of(1) /\ \A i \in of(1) : Min(of(1)) <= i
        <5> HIDE DEF of
        <5> QED
          BY <1>3, <3>2, <4>2, MinOfPlaces
      <4> DEFINE f == Min(priced)
                 g == Min(of(1))
      <4>4. f \in 1 .. Len(ts) /\ g \in 1 .. Len(ts) /\ g \in priced /\ f <= g
        BY <1>3, <2>1, <4>2, <4>3
      <4>5. Bucket(ts[f].minute) = Keys[1]
        <5>1. ts[f].minute \in Nat /\ ts[g].minute \in Nat
          BY <1>3, <4>4
        <5>2. ts[f].minute <= ts[g].minute
          <6>1. CASE f = g
            BY <5>1, <6>1
          <6>2. CASE f # g
            <7>1. f < g
              BY <4>4, <6>2
            <7> HIDE DEF f, g
            <7> QED
              BY <4>4, <7>1 DEF DayTrades, InOrder
          <6> QED
            BY <6>1, <6>2
        <5>3. Bucket(ts[f].minute) <= Bucket(ts[g].minute)
          BY <5>1, <5>2, BucketFacts
        <5>4. Bucket(ts[g].minute) = Keys[1]
          BY <4>3 DEF CountedFor
        <5>5. Bucket(ts[f].minute) \in KeyMinutes /\ Bucket(ts[f].minute) \in Int
          BY <5>1, BucketFacts
        <5>6. PICK k \in 1 .. n : Keys[k] = Bucket(ts[f].minute)
          BY <5>5, KeysFacts
        <5>7. k = 1 \/ 1 < k
          BY <1>2
        <5>8. k = 1 \/ Keys[1] < Keys[k]
          BY <1>2, <5>7, KeysFacts
        <5> HIDE DEF f, g
        <5> QED
          BY <1>2, <1>4, <5>3, <5>4, <5>5, <5>6, <5>8
      <4>6. f \in of(1)
        BY <2>1, <4>5 DEF CountedFor
      <4>7. g <= f
        BY <4>3, <4>6
      <4>8. f = g
        <5> HIDE DEF f, g
        <5> QED
          BY <4>4, <4>7
      <4> QED
        BY <4>1, <4>8
    <3> QED
      BY <3>1, <3>2
  <2> DEFINE p == [i \in 1 .. Len(ts) |-> ts[i].price]
             h == [k \in 1 .. n |-> r[k].high]
             l == [k \in 1 .. n |-> r[k].low]
  <2>4. \A i \in priced : p[i] = ts[i].price /\ p[i] \in Int
    BY <1>3
  <2>5. \A k \in 1 .. n : h[k] = r[k].high /\ h[k] \in Int /\ l[k] = r[k].low /\ l[k] \in Int
    <3> HIDE DEF r
    <3> QED
      BY <1>6 DEF DayBar
  <2>6. ASSUME NEW k \in 1 .. n
        PROVE  /\ \E i \in priced : h[k] = p[i]
               /\ \E i \in priced : l[k] = p[i]
    <3>1. CASE of(k) = {}
      <4>1. r[k].high = last[k - 1] /\ r[k].low = last[k - 1]
        <5> HIDE DEF of, r
        <5> QED
          BY <3>1, <1>5 DEF Counts
      <4>2. k - 1 \in 0 .. Len(Keys)
        BY <1>2
      <4>3. \E i \in priced : last[k - 1] = ts[i].price
        BY <1>1, <1>15, <4>2, CarriedPrices
      <4> QED
        BY <2>4, <2>5, <4>1, <4>3
    <3>2. CASE of(k) # {}
      <4>1. /\ \E i \in of(k) : r[k].high = ts[i].price
            /\ \E i \in of(k) : r[k].low = ts[i].price
        <5> HIDE DEF of, r
        <5> QED
          BY <3>2, <1>5 DEF Counts
      <4>2. of(k) \in SUBSET priced
        BY <1>4
      <4> HIDE DEF of, r, p, priced, h, l
      <4> QED
        BY <2>4, <2>5, <4>1, <4>2
    <3> QED
      BY <3>1, <3>2
  <2>7. ASSUME NEW i \in priced PROVE \E k \in 1 .. n : p[i] <= h[k] /\ l[k] <= p[i]
    <3>1. i \in Parts(P, n)
      BY <1>13
    <3>2. PICK k \in 1 .. n : i \in P[k]
      <4> HIDE DEF P
      <4> QED
        BY <3>1 DEF Parts
    <3>3. i \in of(k)
      BY <3>2
    <3>4. ts[i].price <= r[k].high /\ r[k].low <= ts[i].price
      <4> HIDE DEF of, r
      <4> QED
        BY <3>3, <1>5 DEF Counts
    <3> QED
      BY <2>4, <2>5, <3>4
  <2> HIDE DEF p, h, l, r, priced
  <2>8. Places(priced, Len(ts)) /\ Places(1 .. n, n)
    BY <1>2, <1>3, <1>15 DEF Places
  <2>9. Ints(p, priced) /\ Ints(h, 1 .. n) /\ Ints(l, 1 .. n)
    BY <2>4, <2>5 DEF Ints
  <2>10. \A x \in Int : x <= x
    OBVIOUS
  <2>11. Below(p, priced, h, 1 .. n) /\ Above(p, priced, l, 1 .. n)
    BY <2>7 DEF Below, Above
  <2>12. Below(h, 1 .. n, p, priced) /\ Above(l, 1 .. n, p, priced)
    BY <2>4, <2>5, <2>6, <2>10 DEF Below, Above
  <2>13. Max(Image(h, 1 .. n)) = Max(Image(p, priced))
    BY <1>2, <1>3, <2>8, <2>9, <2>11, <2>12, SameHighest
  <2>14. Min(Image(l, 1 .. n)) = Min(Image(p, priced))
    BY <1>2, <1>3, <2>8, <2>9, <2>11, <2>12, SameLowest
  <2>15. /\ Image(h, 1 .. n) = {r[k].high : k \in 1 .. n}
         /\ Image(l, 1 .. n) = {r[k].low : k \in 1 .. n}
         /\ Image(p, priced) = {ts[i].price : i \in priced}
    BY <2>4, <2>5 DEF Image
  <2> QED
    BY <2>2, <2>3, <2>13, <2>14, <2>15
<1>16. Tells(r, ts)
  <2> HIDE DEF r
  <2> QED
    BY <1>8, <1>14, <1>15 DEF Tells
<1> QED
  BY <1>1, <1>9, <1>16

\* What tells the same of a day tells what its trades were.
LEMMA SameTells ==
  ASSUME NEW ts, DayTrades(ts), NEW ks, Tells(ks, ts), NEW r, SameDay(r, ks)
  PROVE  Tells(r, ts)
<1>1. PricedOf(ts) # {} => ks[1].open # 0
  <2> SUFFICES ASSUME PricedOf(ts) # {} PROVE ks[1].open # 0
    OBVIOUS
  <2>1. /\ PricedOf(ts) \in SUBSET (1 .. Len(ts)) /\ Len(ts) \in Nat
        /\ \A i \in 1 .. Len(ts) : ts[i].price \in Int
        /\ \A i \in PricedOf(ts) : ts[i].price > 0
    BY TradeColumns
  <2>2. Min(PricedOf(ts)) \in PricedOf(ts)
    BY <2>1, MinOfPlaces
  <2>3. ks[1].open = ts[Min(PricedOf(ts))].price
    BY DEF Tells
  <2> QED
    BY <2>1, <2>2, <2>3
<1> QED
  BY <1>1 DEF Tells, SameDay

\* The bars of a day are in the sessions.
LEMMA GridInSession ==
  ASSUME NEW ks, OnGrid(ks)
  PROVE  InSession(ks) /\ ks \in Seq(DayBar) /\ ks # <<>>
<1>1. ks \in Seq(DayBar) /\ Len(ks) = Len(Keys) /\ Len(Keys) \in Nat \ {0}
  BY KeysFacts DEF OnGrid
<1>2. ASSUME NEW i \in 1 .. Len(ks)
      PROVE  \E s \in Sessions : s.begin <= ks[i].minute /\ ks[i].minute <= s.end
  <2>1. ks[i].minute \in KeyMinutes
    BY <1>1, KeysFacts DEF OnGrid
  <2>2. CASE ks[i].minute \in Open .. Noon
    BY <2>2, BarConstants DEF Sessions
  <2>3. CASE ks[i].minute \in Afternoon + 1 .. Close
    BY <2>3, BarConstants DEF Sessions
  <2> QED
    BY <2>1, <2>2, <2>3 DEF KeyMinutes
<1>3. ks # <<>>
  BY <1>1
<1> QED
  BY <1>1, <1>2, <1>3 DEF InSession

MergedOf(ks) ==
    [n \in 1 .. Len(Keys) |->
       [plain |-> Merge(ks, n), grid |-> Merge241(ks, n),
        session |-> IF InSession(ks) THEN BySession(ks, n) ELSE <<>>]]

BarsInv ==
    /\ DayTrades(trades)
    /\ bars = <<>> \/ (bars = TradeBars(trades) /\ asked # "no")
    /\ asked = "minutes" => Placeable(trades)
    /\ merged = <<>> \/ (bars # <<>> /\ merged = MergedOf(bars))

\* Whatever bars a day's trades are made into, by minute and then by any number
\* of minutes, every priced trade counts once, and the day has its first, last,
\* highest and lowest price (Trades.klinesForDay, Klines.Merge, Klines.Merge241,
\* MinuteToSessions).
THEOREM BarsAreConserved == BarsSpec => []BarsConserve
<1>1. BarsInit => BarsInv
  <2> SUFFICES ASSUME BarsInit PROVE BarsInv
    OBVIOUS
  <2> DEFINE T == [minute : 0 .. LastMinute, price : TradePrices, volume : TradeVolumes]
  <2>1. trades \in BoundedSeq(T, MaxTrades) /\ InOrder(trades)
    BY DEF BarsInit
  <2>2. trades \in Seq(T)
    <3> HIDE DEF T
    <3>1. trades \in UNION {[1 .. m -> T] : m \in 0 .. MaxTrades}
      BY <2>1 DEF BoundedSeq, SeqOf
    <3>2. PICK m \in 0 .. MaxTrades : trades \in [1 .. m -> T]
      BY <3>1
    <3> QED
      BY <3>2, BarConstants
  <2>3. \A t \in T : t \in Trade
    <3>1. /\ \A x \in 0 .. LastMinute : x \in Nat
          /\ \A x \in TradePrices : x \in Int
          /\ \A x \in TradeVolumes : x \in Nat
      BY BarConstants
    <3> QED
      BY <3>1 DEF Trade
  <2>4. trades \in Seq(Trade)
    <3> HIDE DEF T
    <3>1. Len(trades) \in Nat /\ trades \in [1 .. Len(trades) -> T]
      BY <2>2
    <3>2. trades \in [1 .. Len(trades) -> Trade]
      BY <2>3, <3>1
    <3> QED
      BY <3>1, <3>2
  <2> QED
    BY <2>1, <2>4 DEF BarsInit, BarsInv, DayTrades
<1>2. BarsInv /\ [BarsNext]_barVars => BarsInv'
  <2> SUFFICES ASSUME BarsInv, [BarsNext]_barVars PROVE BarsInv'
    OBVIOUS
  <2>1. CASE Klines
    BY <2>1 DEF Klines, BarsInv
  <2>2. CASE TradesToMinutes
    BY <2>2 DEF TradesToMinutes, BarsInv
  <2>3. CASE MergeAll
    BY <2>3 DEF MergeAll, BarsInv, MergedOf
  <2>4. CASE UNCHANGED barVars
    BY <2>4 DEF barVars, BarsInv
  <2> QED
    BY <2>1, <2>2, <2>3, <2>4 DEF BarsNext
<1>3. BarsInv => BarsConserve
  <2> SUFFICES ASSUME BarsInv PROVE BarsConserve
    OBVIOUS
  <2>1. DayTrades(trades)
    BY DEF BarsInv
  <2>2. asked = "minutes" => PricedOf(trades) = 1 .. Len(trades)
    BY DEF BarsInv, Placeable, PricedOf
  <2>3. \A ks : Tells(ks, trades) => Same(ks) /\ Spans(ks)
    BY DEF Tells, Same, Spans
  <2>4. bars # <<>> => OnGrid(bars) /\ Tells(bars, trades)
    BY <2>1, MinutesDay DEF BarsInv
  <2>5. ASSUME NEW n \in DOMAIN merged,
               NEW ks \in {merged[n].plain, merged[n].grid, merged[n].session}
        PROVE  Same(ks) /\ Spans(ks)
    <3>1. bars # <<>> /\ merged = MergedOf(bars) /\ n \in 1 .. Len(Keys) /\ Len(Keys) \in Nat
      <4>1. merged # <<>>
        OBVIOUS
      <4>2. bars # <<>> /\ merged = MergedOf(bars)
        BY <4>1 DEF BarsInv
      <4>3. DOMAIN MergedOf(bars) = 1 .. Len(Keys)
        BY DEF MergedOf
      <4> QED
        BY <4>2, <4>3, KeysFacts
    <3>2. n \in Nat /\ n \in Nat \ {0}
      BY <3>1
    <3>3. OnGrid(bars) /\ Tells(bars, trades)
      BY <2>4, <3>1
    <3>4. InSession(bars) /\ bars \in Seq(DayBar)
      BY <3>3, GridInSession
    <3>5. /\ merged[n].plain = Merge(bars, n) /\ merged[n].grid = Merge241(bars, n)
          /\ merged[n].session = BySession(bars, n)
      BY <3>1, <3>4 DEF MergedOf
    <3>6. /\ SameDay(Merge(bars, n), bars) /\ SameDay(Merge241(bars, n), bars)
          /\ SameDay(BySession(bars, n), bars)
      BY <3>1, <3>2, <3>3, <3>4, MergedDay, GridDay, SessionDay
    <3>7. SameDay(ks, bars)
      BY <3>5, <3>6
    <3>8. Tells(ks, trades)
      BY <2>1, <3>3, <3>7, SameTells
    <3> QED
      BY <2>3, <3>8
  <2> QED
    BY <2>2, <2>3, <2>4, <2>5 DEF BarsConserve
<1> QED
  BY <1>1, <1>2, <1>3, PTL DEF BarsSpec
==============================================================================
