------------------------- MODULE MinuteCoverageProofs -------------------------
(* What TLAPS proves of MinuteCoverage for any number of years, days and bars, *)
(* any trading calendar, window of the server and list of settings.            *)
EXTENDS MinuteCoverage, TLAPS, FiniteSetTheorems, WellFoundedInduction

(***************************************************************************)
(* Slots, days and years.                                                  *)
(***************************************************************************)
LEMMA Division ==
  ASSUME NEW n \in Nat, NEW k \in Nat \ {0}
  PROVE  /\ n \div k \in Nat /\ n % k \in Nat
         /\ k * (n \div k) <= n /\ n < k * (n \div k) + k
         /\ n % k = n - k * (n \div k)
OBVIOUS

LEMMA Multiples ==
  ASSUME NEW i \in Nat, NEW j \in Nat, NEW k \in Nat
  PROVE  /\ k * i \in Nat
         /\ k * (i + 1) = k * i + k
         /\ i <= j => k * i <= k * j
OBVIOUS

\* The years are laid out one after the other.
LEMMA YearStartIs ==
  ASSUME NEW y \in Nat
  PROVE  /\ Days * Slots \in Nat \ {0}
         /\ YearStart(y) = (Days * Slots) * y
         /\ YearStart(y) = Slots * (Days * y)
         /\ YearStart(y) \in Nat
         /\ YearStart(y + 1) = YearStart(y) + Days * Slots
         /\ YearStart(y) < YearStart(y + 1)
<1>1. /\ Days * Slots \in Nat \ {0}
      /\ YearStart(y) = (Days * Slots) * y
      /\ YearStart(y + 1) = (Days * Slots) * (y + 1)
      /\ YearStart(y) = Slots * (Days * y)
  BY ConstantsOK DEF YearStart
<1> DEFINE L == Days * Slots
<1> HIDE DEF L
<1>2. L \in Nat /\ L # 0 /\ YearStart(y) = L * y /\ YearStart(y + 1) = L * (y + 1)
  BY <1>1 DEF L
<1>3. L * y \in Nat /\ L * (y + 1) = L * y + L
  BY <1>2, Multiples
<1>4. YearStart(y) \in Nat /\ YearStart(y + 1) = YearStart(y) + L
  BY <1>2, <1>3
<1>5. QED
  BY <1>1, <1>2, <1>4 DEF L

LEMMA YearsAscend ==
  ASSUME NEW y \in Nat, NEW z \in Nat, y <= z
  PROVE  YearStart(y) <= YearStart(z)
<1> DEFINE L == Days * Slots
<1>1. L \in Nat /\ YearStart(y) = L * y /\ YearStart(z) = L * z
  BY YearStartIs
<1> HIDE DEF L
<1>2. QED
  BY <1>1, Multiples

LEMMA YearOfIs ==
  ASSUME NEW t \in Nat
  PROVE  /\ YearOf(t) \in Nat
         /\ YearStart(YearOf(t)) <= t
         /\ t < YearStart(YearOf(t) + 1)
         /\ \A y \in Nat : YearStart(y) <= t /\ t < YearStart(y + 1) => YearOf(t) = y
         /\ \A y \in Nat : y < YearOf(t) => YearStart(y + 1) <= t
<1> DEFINE L == Days * Slots
           q == t \div L
<1>1. L \in Nat \ {0}
  BY YearStartIs
<1>2. YearOf(t) = q
  BY DEF YearOf
<1>3. q \in Nat /\ L * q <= t /\ t < L * q + L
  <2> HIDE DEF L
  <2>1. QED
    BY <1>1, Division
<1> HIDE DEF q
<1>4. YearStart(q) = L * q /\ YearStart(q + 1) = YearStart(q) + L
  BY <1>3, YearStartIs
<1>5. YearStart(q) <= t /\ t < YearStart(q + 1)
  BY <1>1, <1>3, <1>4
<1>6. \A y \in Nat : y < q => YearStart(y + 1) <= t
  <2> SUFFICES ASSUME NEW y \in Nat, y < q PROVE YearStart(y + 1) <= t
    OBVIOUS
  <2>1. y + 1 \in Nat /\ y + 1 <= q
    BY <1>3
  <2>2. YearStart(y + 1) <= YearStart(q) /\ YearStart(y + 1) \in Nat /\ YearStart(q) \in Nat
    BY <2>1, <1>3, YearsAscend, YearStartIs
  <2>3. QED
    BY <2>2, <1>5
<1>7. \A y \in Nat : YearStart(y) <= t /\ t < YearStart(y + 1) => q = y
  <2> SUFFICES ASSUME NEW y \in Nat, YearStart(y) <= t, t < YearStart(y + 1), q # y
               PROVE  FALSE
    OBVIOUS
  <2>1. YearStart(y) \in Nat /\ YearStart(y + 1) \in Nat /\ YearStart(q + 1) \in Nat
    BY <1>3, YearStartIs
  <2>2. CASE y < q
    BY <2>1, <2>2, <1>6
  <2>3. CASE q < y
    <3>1. q + 1 \in Nat /\ q + 1 <= y
      BY <1>3, <2>3
    <3>2. YearStart(q + 1) <= YearStart(y)
      BY <3>1, YearsAscend
    <3>3. QED
      BY <3>2, <2>1, <1>5
  <2>4. QED
    BY <1>3, <2>2, <2>3
<1>8. QED
  BY <1>2, <1>3, <1>5, <1>6, <1>7

LEMMA TimesAre ==
  /\ Years \subseteq Nat /\ Times \subseteq Nat /\ IsFiniteSet(Times)
  /\ \A t \in Nat : \A u \in Times : t <= u => t \in Times
  /\ \A t \in Times : YearOf(t) \in Years
  /\ \A y \in Years : YearStart(y) \in Times
  /\ \A y \in Years : YearStart(y + 1) \in Nat
  /\ \E bound \in Nat : \A t \in Times : t <= bound
  /\ Traded \subseteq Times
<1>0. LastYear \in Nat /\ LastYear + 1 \in Nat
  BY ConstantsOK
<1> DEFINE E == YearStart(LastYear + 1)
<1>1. E \in Nat /\ Times = 0 .. E - 1
  BY <1>0, YearStartIs DEF Times, YearStart
<1>2. IsFiniteSet(Times)
  BY <1>1, FS_Interval
<1>3. ASSUME NEW t \in Times PROVE YearOf(t) \in Years
  <2>1. t \in Nat /\ t < E /\ YearOf(t) \in Nat
    BY <1>1, YearOfIs
  <2>2. ~ (LastYear < YearOf(t))
    <3> SUFFICES ASSUME LastYear < YearOf(t) PROVE FALSE
      OBVIOUS
    <3>1. E <= t
      BY <1>0, <2>1, YearOfIs
    <3>2. QED
      BY <1>1, <2>1, <3>1
  <2>3. QED
    BY <1>0, <2>1, <2>2 DEF Years
<1>4. ASSUME NEW y \in Years PROVE YearStart(y) \in Times /\ YearStart(y + 1) \in Nat
  <2>1. y \in Nat /\ y + 1 \in Nat /\ y + 1 <= LastYear + 1
    BY <1>0 DEF Years
  <2>2. /\ YearStart(y) \in Nat /\ YearStart(y + 1) \in Nat /\ YearStart(y) < YearStart(y + 1)
        /\ YearStart(y + 1) <= E
    BY <1>0, <2>1, YearStartIs, YearsAscend
  <2>3. QED
    BY <1>1, <2>2
<1>5. Years \subseteq Nat /\ Traded \subseteq Times
  BY <1>0 DEF Years, Traded
<1>6. Times \subseteq Nat /\ \A t \in Nat : \A u \in Times : t <= u => t \in Times
  BY <1>1
<1>7. \E bound \in Nat : \A t \in Times : t <= bound
  <2>1. \A t \in Times : t <= E
    BY <1>1
  <2>2. QED
    BY <1>1, <2>1
<1>8. QED
  BY <1>2, <1>3, <1>4, <1>5, <1>6, <1>7

LEMMA InYearIs ==
  ASSUME NEW y \in Years, NEW T \in SUBSET Times
  PROVE  InYear(y, T) = {t \in T : YearStart(y) <= t /\ t < YearStart(y + 1)}
<1>1. y \in Nat /\ T \subseteq Nat
  BY TimesAre
<1>2. ASSUME NEW t \in T
      PROVE  YearOf(t) = y <=> (YearStart(y) <= t /\ t < YearStart(y + 1))
  BY <1>1, YearOfIs
<1>3. QED
  BY <1>2 DEF InYear

LEMMA DayOfIs ==
  ASSUME NEW t \in Nat
  PROVE  /\ DayOf(t) \in Nat
         /\ DayStart(t) = Slots * DayOf(t) /\ DayStart(t) = DayOf(t) * Slots
         /\ DayStart(t) \in Nat /\ DayStart(t) <= t /\ t < DayStart(t) + Slots
<1> DEFINE q == t \div Slots
<1>1. Slots \in Nat \ {0}
  BY ConstantsOK
<1>2. q \in Nat /\ Slots * q <= t /\ t < Slots * q + Slots /\ t % Slots = t - Slots * q
  BY <1>1, Division
<1>3. DayOf(t) = q /\ DayStart(t) = t - (t % Slots)
  BY DEF DayOf, DayStart
<1> HIDE DEF q
<1>4. Slots * q \in Nat /\ Slots * q = q * Slots
  BY <1>1, <1>2
<1>5. DayStart(t) = Slots * q
  BY <1>1, <1>2, <1>3, <1>4
<1>6. QED
  BY <1>1, <1>2, <1>3, <1>4, <1>5

LEMMA DaysAscend ==
  ASSUME NEW s \in Nat, NEW t \in Nat
  PROVE  /\ s <= t => DayStart(s) <= DayStart(t)
         /\ DayStart(s) < DayStart(t) => s < DayStart(t)
<1>0. Slots \in Nat \ {0}
  BY ConstantsOK
<1>1. /\ DayOf(s) \in Nat /\ DayStart(s) = Slots * DayOf(s) /\ DayStart(s) \in Nat
      /\ DayStart(s) <= s /\ s < DayStart(s) + Slots
      /\ DayOf(t) \in Nat /\ DayStart(t) = Slots * DayOf(t) /\ DayStart(t) \in Nat
      /\ DayStart(t) <= t /\ t < DayStart(t) + Slots
  BY DayOfIs
<1>2. DayOf(t) < DayOf(s) => DayStart(t) + Slots <= DayStart(s)
  <2> SUFFICES ASSUME DayOf(t) < DayOf(s) PROVE DayStart(t) + Slots <= DayStart(s)
    OBVIOUS
  <2>1. DayOf(t) + 1 \in Nat /\ DayOf(t) + 1 <= DayOf(s)
    BY <1>1
  <2>2. Slots * (DayOf(t) + 1) <= Slots * DayOf(s)
    BY <1>0, <1>1, <2>1, Multiples
  <2>3. Slots * (DayOf(t) + 1) = Slots * DayOf(t) + Slots
    BY <1>0, <1>1, Multiples
  <2>4. QED
    BY <1>0, <1>1, <2>2, <2>3
<1>3. DayOf(s) < DayOf(t) => DayStart(s) + Slots <= DayStart(t)
  <2> SUFFICES ASSUME DayOf(s) < DayOf(t) PROVE DayStart(s) + Slots <= DayStart(t)
    OBVIOUS
  <2>1. DayOf(s) + 1 \in Nat /\ DayOf(s) + 1 <= DayOf(t)
    BY <1>1
  <2>2. Slots * (DayOf(s) + 1) <= Slots * DayOf(t)
    BY <1>0, <1>1, <2>1, Multiples
  <2>3. Slots * (DayOf(s) + 1) = Slots * DayOf(s) + Slots
    BY <1>0, <1>1, Multiples
  <2>4. QED
    BY <1>0, <1>1, <2>2, <2>3
<1>4. s <= t => DayStart(s) <= DayStart(t)
  <2> SUFFICES ASSUME s <= t, DayStart(t) < DayStart(s) PROVE FALSE
    BY <1>1
  <2>1. DayOf(t) < DayOf(s)
    <3>1. DayOf(s) <= DayOf(t) => Slots * DayOf(s) <= Slots * DayOf(t)
      BY <1>0, <1>1, Multiples
    <3>2. QED
      BY <1>1, <3>1
  <2>2. QED
    BY <1>0, <1>1, <1>2, <2>1
<1>5. DayStart(s) < DayStart(t) => s < DayStart(t)
  <2> SUFFICES ASSUME DayStart(s) < DayStart(t) PROVE s < DayStart(t)
    OBVIOUS
  <2>1. DayOf(s) < DayOf(t)
    <3>1. DayOf(t) <= DayOf(s) => Slots * DayOf(t) <= Slots * DayOf(s)
      BY <1>0, <1>1, Multiples
    <3>2. QED
      BY <1>1, <3>1
  <2>2. QED
    BY <1>0, <1>1, <1>3, <2>1
<1>6. QED
  BY <1>4, <1>5

\* A year begins with a day.
LEMMA YearStartsDay ==
  ASSUME NEW y \in Nat
  PROVE  DayStart(YearStart(y)) = YearStart(y)
<1>0. Slots \in Nat \ {0} /\ Days \in Nat
  BY ConstantsOK
<1> DEFINE t == YearStart(y)
           d == Days * y
<1>1. t \in Nat /\ t = Slots * d
  BY YearStartIs
<1>2. d \in Nat
  BY <1>0, Multiples
<1> HIDE DEF t, d
<1>3. /\ DayOf(t) \in Nat /\ DayStart(t) = Slots * DayOf(t)
      /\ DayStart(t) <= t /\ t < DayStart(t) + Slots
  BY <1>1, DayOfIs
<1>4. DayOf(t) = d
  <2>1. CASE DayOf(t) < d
    <3>1. DayOf(t) + 1 \in Nat /\ DayOf(t) + 1 <= d
      BY <1>2, <1>3, <2>1
    <3>2. Slots * (DayOf(t) + 1) <= Slots * d /\ Slots * (DayOf(t) + 1) = Slots * DayOf(t) + Slots
      BY <1>0, <1>2, <1>3, <3>1, Multiples
    <3>3. Slots * DayOf(t) \in Nat
      BY <1>0, <1>3, Multiples
    <3>4. QED
      BY <1>0, <1>1, <1>3, <3>2, <3>3
  <2>2. CASE d < DayOf(t)
    <3>1. d + 1 \in Nat /\ d + 1 <= DayOf(t)
      BY <1>2, <1>3, <2>2
    <3>2. Slots * (d + 1) <= Slots * DayOf(t) /\ Slots * (d + 1) = Slots * d + Slots
      BY <1>0, <1>2, <1>3, <3>1, Multiples
    <3>3. Slots * DayOf(t) \in Nat
      BY <1>0, <1>3, Multiples
    <3>4. QED
      BY <1>0, <1>1, <1>3, <3>2, <3>3
  <2>3. QED
    BY <1>2, <1>3, <2>1, <2>2
<1>5. QED
  BY <1>1, <1>3, <1>4 DEF t

LEMMA OldestIn ==
  ASSUME NEW S \in SUBSET Nat, S # {}
  PROVE  Min(S) \in S /\ \A t \in S : Min(S) <= t
<1> DEFINE R == OpToRel(<, Nat)
<1>1. PICK m \in S : \A t \in S : ~ (<<t, m>> \in R)
  <2>1. IsWellFoundedOn(R, Nat)
    BY NatLessThanWellFounded
  <2> HIDE DEF R
  <2>2. QED
    BY <2>1, WFMin
<1>2. \A t \in S : m <= t
  <2> SUFFICES ASSUME NEW t \in S, t < m PROVE FALSE
    OBVIOUS
  <2>1. <<t, m>> \in R
    BY DEF OpToRel
  <2>2. QED
    BY <1>1, <2>1
<1>3. QED
  BY <1>2 DEF Min

\* A bounded set of times has a newest one.
LEMMA NewestIn ==
  ASSUME NEW S \in SUBSET Times, S # {}
  PROVE  Max(S) \in S /\ \A t \in S : t <= Max(S)
<1>1. PICK bound \in Nat : \A t \in Times : t <= bound
  BY TimesAre
<1>2. S \subseteq Nat
  BY TimesAre
<1> DEFINE T == {bound - t : t \in S}
<1>3. T \in SUBSET Nat /\ T # {}
  <2>1. \A t \in S : t \in Nat /\ t <= bound
    BY <1>1, <1>2
  <2>2. QED
    BY <2>1
<1>4. PICK k \in T : \A j \in T : k <= j
  <2> HIDE DEF T
  <2>1. QED
    BY <1>3, OldestIn
<1>5. PICK m \in S : k = bound - m
  BY <1>4
<1>6. \A t \in S : m >= t
  <2> SUFFICES ASSUME NEW t \in S PROVE m >= t
    OBVIOUS
  <2>1. bound - m <= bound - t
    BY <1>4, <1>5
  <2>2. QED
    BY <1>2, <2>1
<1>7. Max(S) \in S /\ \A t \in S : Max(S) >= t
  BY <1>5, <1>6 DEF Max
<1>8. QED
  BY <1>2, <1>7

(***************************************************************************)
(* The server's bars.                                                      *)
(***************************************************************************)

\* The server's bars are the newest of those that were traded.
Newest(K) ==
    /\ K \subseteq Traded
    /\ \A t \in K : t <= now
    /\ \A t \in K : \A s \in Traded : t <= s /\ s <= now => s \in K

LEMMA NativeNewest ==
  ASSUME now \in Times
  PROVE  Newest(Native)
<1>1. Traded \subseteq Times /\ Times \subseteq Nat /\ IsFiniteSet(Times) /\ now \in Nat
  BY TimesAre
<1>2. ASSUME NEW t \in Native, NEW s \in Traded, t <= s, s <= now
      PROVE  s \in Native
  <2> DEFINE A == {u \in Traded : t < u /\ u <= now}
             B == {u \in Traded : s < u /\ u <= now}
  <2>1. t \in Nat /\ s \in Nat /\ Cardinality(A) < Keep
    BY <1>1, <1>2 DEF Native
  <2>2. IsFiniteSet(A)
    BY <1>1, FS_Subset
  <2>3. B \subseteq A
    <3> SUFFICES ASSUME NEW u \in Traded, s < u, u <= now PROVE t < u
      OBVIOUS
    <3>1. t \in Nat /\ s \in Nat /\ u \in Nat
      BY <1>1, <2>1
    <3>2. QED
      BY <1>2, <3>1
  <2>4. Cardinality(B) <= Cardinality(A) /\ Cardinality(A) \in Nat /\ Cardinality(B) \in Nat
    BY <2>2, <2>3, FS_Subset, FS_CardinalityType
  <2>5. Cardinality(B) < Keep
    BY <2>1, <2>4, ConstantsOK
  <2>6. QED
    BY <1>2, <2>5 DEF Native
<1>3. Native \subseteq Traded /\ \A t \in Native : t <= now
  BY DEF Native
<1>4. QED
  BY <1>2, <1>3 DEF Newest

LEMMA FetchedNewest ==
  ASSUME now \in Times, NEW earliest \in Times
  PROVE  /\ Newest(Fetched(earliest))
         /\ \A t \in Native : earliest <= t => t \in Fetched(earliest)
<1> DEFINE before == {t \in Native : t < earliest}
<1>1. Newest(Native) /\ Native \subseteq Times /\ Times \subseteq Nat
  BY NativeNewest, TimesAre DEF Newest
<1>2. CASE before = {}
  BY <1>1, <1>2 DEF Fetched
<1>3. CASE before # {}
  <2>1. Max(before) \in before
    <3>1. before \in SUBSET Times
      BY <1>1
    <3> HIDE DEF before
    <3>2. QED
      BY <1>3, <3>1, NewestIn
  <2> DEFINE m == Max(before)
  <2>2. m \in Nat /\ m < earliest
    BY <1>1, <2>1
  <2>3. Fetched(earliest) = {t \in Native : t >= m}
    BY <1>3 DEF Fetched, From
  <2> HIDE DEF m
  <2>4. \A t \in Native : t \in Nat
    BY <1>1
  <2>5. earliest \in Nat /\ Traded \subseteq Nat
    BY TimesAre
  <2>6. \A t \in Native : earliest <= t => t \in Fetched(earliest)
    BY <2>2, <2>3, <2>4, <2>5
  <2>7. Newest(Fetched(earliest))
    <3>1. \A t \in Fetched(earliest) : \A s \in Traded : t <= s => s >= m
      BY <2>2, <2>3, <2>4, <2>5
    <3>2. \A t \in Fetched(earliest) : t \in Native
      BY <2>3
    <3>3. \A t \in Fetched(earliest) : \A s \in Traded :
             t <= s /\ s <= now => s \in Fetched(earliest)
      BY <1>1, <2>3, <3>1, <3>2 DEF Newest
    <3>4. QED
      BY <1>1, <3>2, <3>3 DEF Newest
  <2>8. QED
    BY <2>6, <2>7
<1>4. QED
  BY <1>2, <1>3

(***************************************************************************)
(* The inductive invariant.                                                *)
(***************************************************************************)

\* A mark reaches no further than the present.
MarksBehind ==
    \A y \in Years : mark[y].through <= now

\* What the server had at a native scan of a year is stored, and is there for
\* years only that were over.
ScansStored ==
    \A y \in Years : /\ offered[y] \subseteq InYear(y, rows)
                     /\ offered[y] # {} => YearStart(y + 1) <= now

\* The commit of w is to delete the bar t and not to write it again.
Deletes(w, t) ==
    /\ w.from <= t /\ t \notin w.out
    /\ w.way = "rows" \/ \E s \in w.out : s <= t

\* All a pull has in hand for year y: it stays in the year and in the past; ...
InBounds(y, w) ==
    /\ w \in Write /\ w.year = y
    /\ YearStart(y) <= w.from
    /\ w.through <= now /\ w.through <= YearStart(y + 1)
    /\ \A t \in w.out : t \in InYear(y, Traded) /\ w.from <= t /\ t <= now

\* ... deletes at most the newest bar of a year that was running; ...
DeletesNewest(y, w) ==
    \A t \in InYear(y, rows) : Deletes(w, t) =>
        w.through < YearStart(y + 1) /\ \A s \in InYear(y, rows) : s <= t

\* ... which has no scan to lose and no finished mark; ...
RunningYear(y, w) ==
    w.through < YearStart(y + 1) =>
        /\ offered[y] = {} /\ w.way # "native"
        /\ mark[y].through < YearStart(y + 1)

\* ... stores what the server had; and, where it finishes a year in the mode
\* of the fallback, leaves out no bar that it has not been asked to leave out.
Scans(w) == w.way = "native" /\ w.out # {} => w.had \subseteq w.out

Covers(y, w) ==
    w.way = "fallback" /\ w.through >= YearStart(y + 1) =>
        \A t \in InYear(y, Traded) :
            (\A c \in Configs : c.fallback => c.start <= t) => t \in w.out \cup w.gap

Pending(y, w) ==
    InBounds(y, w) /\ DeletesNewest(y, w) /\ RunningYear(y, w) /\ Scans(w) /\ Covers(y, w)

Inv ==
    /\ TypeOK
    /\ MarkVouches
    /\ MarksBehind
    /\ ScansStored
    /\ \A y \in DOMAIN pull.todo : Pending(y, pull.todo[y])

(***************************************************************************)
(* Planning a pull.                                                        *)
(***************************************************************************)
LEMMA ConfigIs ==
  ASSUME NEW c \in Configs
  PROVE  c.start \in Times /\ c.fallback \in BOOLEAN
BY ConstantsOK

LEMMA ThroughIs ==
  ASSUME now \in Times, NEW y \in Years, y <= Current
  PROVE  /\ Through(y) \in Nat /\ Through(y) <= now /\ Through(y) <= YearStart(y + 1)
         /\ y < Current => Through(y) = YearStart(y + 1)
         /\ y = Current => Through(y) = now /\ now < YearStart(y + 1)
         /\ Through(y) < YearStart(y + 1) <=> y = Current
<1>1. now \in Nat /\ y \in Nat /\ Current \in Nat /\ YearStart(y + 1) \in Nat
  BY TimesAre, YearOfIs DEF Current
<1>2. y < Current => YearStart(y + 1) <= now
  BY <1>1, YearOfIs DEF Current
<1>3. now < YearStart(Current + 1)
  BY <1>1, YearOfIs DEF Current
<1>4. QED
  BY <1>1, <1>2, <1>3 DEF Through

\* From where a year is scanned: from the start date or the beginning of the
\* year if it is over, and no earlier if it is running.
LEMMA BeginsIs ==
  ASSUME TypeOK, NEW start \in Times, NEW fallback \in BOOLEAN,
         NEW y \in Years, y <= Current
  PROVE  /\ Begins(y, start, fallback) \in Times
         /\ YearStart(y) <= Begins(y, start, fallback)
         /\ y < Current =>
              Begins(y, start, fallback) = Greater(start, YearStart(y))
         /\ y = Current /\ ~fallback =>
              \A t \in InYear(y, rows) : t <= Begins(y, start, fallback)
<1> DEFINE from == Greater(start, YearStart(y))
           stored == InYear(y, rows)
           last == LastMinUnix(y)
<1>1. /\ start \in Nat /\ YearStart(y) \in Nat /\ y \in Nat /\ Current \in Nat
      /\ YearStart(y) \in Times /\ Times \subseteq Nat
      /\ \A t \in Nat : \A u \in Times : t <= u => t \in Times
  BY TimesAre, YearOfIs DEF TypeOK, Current
<1>2. from \in Times /\ from \in Nat /\ YearStart(y) <= from
  BY <1>1 DEF Greater
<1>3. /\ stored \in SUBSET Times
      /\ stored = {} => last = 0
      /\ stored # {} => last = Max(stored)
  BY TimesAre DEF InYear, TypeOK, LastMinUnix
<1> HIDE DEF from, stored, last
<1>4. /\ last \in Nat /\ (last = 0 \/ last \in Times)
      /\ \A t \in stored : t <= last
  <2>1. CASE stored = {}
    BY <1>3, <2>1
  <2>2. CASE stored # {}
    <3>1. Max(stored) \in stored /\ \A t \in stored : t <= Max(stored)
      BY <1>3, <2>2, NewestIn
    <3>2. QED
      BY <1>1, <1>3, <2>2, <3>1
  <2>3. QED
    BY <2>1, <2>2
<1>5. CASE y < Current
  <2>1. Begins(y, start, fallback) = from
    BY <1>5 DEF Begins, from
  <2>2. QED
    BY <1>1, <1>2, <1>5, <2>1 DEF from
<1>6. CASE y = Current
  <2>1. Begins(y, start, fallback) = Resume(y, from, fallback)
    BY <1>1, <1>6 DEF Begins, from
  <2>2. PICK z \in Int : /\ z <= last
                         /\ ~fallback => z = last
                         /\ Resume(y, from, fallback) = Greater(z, from)
    <3>1. mark[y].through \in Int
      BY DEF TypeOK
    <3>2. CASE ~fallback
      BY <1>4, <3>2 DEF Resume, last
    <3>3. CASE fallback /\ (mark[y] = NoMark \/ ~mark[y].fallback \/ mark[y].from > from)
      BY <1>4, <3>3 DEF Resume
    <3>4. CASE fallback /\ ~(mark[y] = NoMark \/ ~mark[y].fallback \/ mark[y].from > from)
      <4>1. Resume(y, from, fallback) = Greater(Lesser(last, mark[y].through), from)
        BY <3>4 DEF Resume, last
      <4>2. Lesser(last, mark[y].through) \in Int /\ Lesser(last, mark[y].through) <= last
        BY <1>4, <3>1 DEF Lesser
      <4>3. QED
        BY <3>4, <4>1, <4>2
    <3>5. QED
      BY <3>2, <3>3, <3>4
  <2>3. CASE z > from
    <3>1. Greater(z, from) = z /\ z \in Nat /\ z <= last /\ last \in Times
      BY <1>2, <1>4, <2>2, <2>3 DEF Greater
    <3>2. z \in Times
      BY <1>1, <3>1
    <3>3. QED
      BY <1>1, <1>2, <1>4, <1>6, <2>1, <2>2, <2>3, <3>1, <3>2 DEF stored
  <2>4. CASE z <= from
    <3>1. Greater(z, from) = from
      BY <1>2, <2>2, <2>4 DEF Greater
    <3>2. ~fallback => \A t \in stored : t <= from
      <4>1. \A t \in stored : t \in Nat
        BY <1>1, <1>3
      <4>2. QED
        BY <1>2, <1>4, <2>2, <2>4, <4>1
    <3>3. QED
      BY <1>1, <1>2, <1>6, <2>1, <2>2, <3>1, <3>2 DEF stored
  <2>5. QED
    BY <1>2, <2>2, <2>3, <2>4
<1>7. QED
  BY <1>1, <1>5, <1>6

LEMMA PlainIs ==
  ASSUME TypeOK, NEW start \in Times, NEW fallback \in BOOLEAN,
         NEW y \in Targets(start, fallback)
  PROVE  LET w == Plain(y, start, fallback)
         IN /\ w \in Write /\ y \in Years /\ y <= Current
            /\ w.year = y /\ w.from = Begins(y, start, fallback)
            /\ w.through = Through(y) /\ w.way = "rows"
            /\ w.out = {} /\ w.had = {} /\ w.gap = {}
<1>1. y \in Years /\ y <= Current
  BY DEF Targets
<1>2. Begins(y, start, fallback) \in Times
  BY <1>1, BeginsIs
<1>3. Through(y) \in Nat
  BY <1>1, ThroughIs DEF TypeOK
<1>4. QED
  BY <1>1, <1>2, <1>3 DEF Plain, Write

\* What running and past years have in hand.
LEMMA RunningHolds ==
  ASSUME Inv, NEW y \in Years, y <= Current, NEW w, w.through = Through(y),
         w.way = "native" => y < Current
  PROVE  RunningYear(y, w)
<1> SUFFICES ASSUME w.through < YearStart(y + 1)
             PROVE  /\ offered[y] = {} /\ w.way # "native"
                    /\ mark[y].through < YearStart(y + 1)
  BY DEF RunningYear
<1>1. now \in Times /\ now \in Nat /\ y \in Nat /\ YearStart(y + 1) \in Nat
      /\ mark[y].through \in Int
  BY TimesAre DEF Inv, TypeOK
<1>2. y = Current /\ now < YearStart(y + 1)
  BY <1>1, ThroughIs
<1>3. mark[y].through <= now /\ (offered[y] # {} => YearStart(y + 1) <= now)
  BY DEF Inv, MarksBehind, ScansStored
<1>4. w.way # "native"
  BY <1>1, <1>2
<1>5. QED
  BY <1>1, <1>2, <1>3, <1>4

\* The server's bars and what a pull sees of the data bases.
LEMMA DataIs ==
  ASSUME Inv
  PROVE  /\ now \in Times /\ now \in Nat
         /\ Traded \subseteq Times /\ Times \subseteq Nat
         /\ rows \subseteq Traded /\ \A t \in rows : t <= now
BY TimesAre DEF Inv, TypeOK

\* A year with the fallback.
LEMMA FillPending ==
  ASSUME Inv, NEW c \in Configs, c.fallback, NEW y \in Targets(c.start, c.fallback),
         NEW ks, Newest(ks), NEW list \in Answers, NEW bad
  PROVE  Pending(y, Fill(Plain(y, c.start, c.fallback), ks, list, bad))
<1> DEFINE p == Plain(y, c.start, c.fallback)
           w == Fill(p, ks, list, bad)
           base == Base(p, ks)
           B == BeforeBoundary(p, Boundary(ks))
           want == Wanted(p, base, Boundary(ks), list.days)
           got == IF list.ok THEN want \ bad ELSE {}
           gap == LeftOut(p, ks, base, list)
           ok == p.from < B => list.ok /\ want \cap bad = {}
<1>0. TypeOK /\ c.start \in Times /\ c.fallback \in BOOLEAN
  BY ConfigIs DEF Inv
<1>1. /\ p \in Write /\ y \in Years /\ y <= Current
      /\ p.year = y /\ p.from = Begins(y, c.start, c.fallback)
      /\ p.through = Through(y) /\ p.way = "rows"
      /\ p.out = {} /\ p.had = {} /\ p.gap = {}
  BY <1>0, PlainIs
<1> HIDE DEF p
<1>2. /\ now \in Times /\ now \in Nat /\ Traded \subseteq Times /\ Times \subseteq Nat
      /\ rows \subseteq Traded /\ \A t \in rows : t <= now
      /\ ks \subseteq Traded /\ \A t \in ks : t <= now
      /\ \A t \in ks : \A s \in Traded : t <= s /\ s <= now => s \in ks
  BY DataIs DEF Newest
<1>3. /\ p.from \in Times /\ p.from \in Nat /\ YearStart(y) <= p.from
      /\ y < Current => p.from = Greater(c.start, YearStart(y))
  <2>1. /\ Begins(y, c.start, c.fallback) \in Times
        /\ YearStart(y) <= Begins(y, c.start, c.fallback)
        /\ y < Current => Begins(y, c.start, c.fallback) = Greater(c.start, YearStart(y))
    BY <1>0, <1>1, BeginsIs
  <2>2. QED
    BY <1>1, <1>2, <2>1
<1>4. /\ p.through \in Nat /\ p.through <= now /\ p.through <= YearStart(y + 1)
      /\ y < Current => p.through = YearStart(y + 1)
      /\ y = Current => p.through = now /\ now < YearStart(y + 1)
      /\ y \in Nat /\ Current \in Nat /\ YearStart(y) \in Nat /\ YearStart(y + 1) \in Nat
  <2>1. /\ y \in Nat /\ Current \in Nat /\ YearStart(y) \in Nat
        /\ YearStart(y + 1) \in Nat
    BY <1>1, <1>2, TimesAre, YearOfIs DEF Current
  <2>2. QED
    BY <1>1, <1>2, <2>1, ThroughIs
<1>5. /\ w.year = y /\ w.from = p.from /\ w.through = p.through /\ w.had = {}
      /\ w.out = base \cup {t \in UNION {Bars(d) : d \in got} : t >= p.from}
      /\ w.way = IF ok THEN "fallback" ELSE "rows"
      /\ w.gap = IF ok THEN gap ELSE {}
  BY <1>1 DEF Fill, Write, Needed
<1> HIDE DEF w
<1>6. \A t : t \in base <=> t \in rows \cup ks /\ p.from <= t /\ t < p.through
  BY DEF Base
<1>7. /\ B \in Int /\ B <= DayStart(p.through) /\ B <= Boundary(ks)
      /\ B = DayStart(p.through) \/ B = Boundary(ks)
      /\ DayStart(p.through) \in Nat /\ DayStart(p.through) <= p.through
      /\ \E n \in Nat : Boundary(ks) = DayStart(n) /\ n <= now
                        /\ (ks = {} => n = now) /\ (ks # {} => n = Min(ks))
  <2>1. DayStart(p.through) \in Nat /\ DayStart(p.through) <= p.through
    BY <1>4, DayOfIs
  <2>2. PICK n \in Nat : Boundary(ks) = DayStart(n) /\ n <= now
                        /\ (ks = {} => n = now) /\ (ks # {} => n = Min(ks))
    <3>1. CASE ks = {}
      BY <1>2, <3>1 DEF Boundary
    <3>2. CASE ks # {}
      <4>1. ks \in SUBSET Nat
        BY <1>2
      <4>2. Min(ks) \in ks
        BY <3>2, <4>1, OldestIn
      <4>3. Min(ks) \in Nat /\ Min(ks) <= now
        BY <1>2, <4>1, <4>2
      <4>4. Lesser(now, Min(ks)) = Min(ks)
        BY <1>2, <4>3 DEF Lesser
      <4>5. QED
        BY <3>2, <4>3, <4>4 DEF Boundary
    <3>3. QED
      BY <3>1, <3>2
  <2>3. Boundary(ks) \in Nat
    BY <2>2, DayOfIs
  <2>4. B = Lesser(Boundary(ks), DayStart(p.through))
    BY DEF BeforeBoundary
  <2> HIDE DEF B
  <2>5. QED
    BY <2>1, <2>2, <2>3, <2>4 DEF Lesser
<1> HIDE DEF B, base
\* A day that trades are asked for ends before the boundary.
<1>8. ASSUME NEW d \in want, NEW t \in Bars(d)
      PROVE  t \in Traded /\ t < p.through
  <2>1. /\ d \in Trading /\ d * Slots < B
    BY <1>8 DEF Wanted, Older, B
  <2>2. t \in Times /\ t \in Nat /\ DayOf(t) = d
    BY <1>2, <1>8 DEF Bars
  <2>3. DayStart(t) < DayStart(p.through) /\ DayStart(t) \in Nat
    <3>1. DayStart(t) = d * Slots /\ DayStart(t) \in Nat
      BY <2>2, DayOfIs
    <3>2. QED
      BY <1>7, <2>1, <3>1
  <2>4. t < DayStart(p.through)
    BY <1>4, <2>2, <2>3, DaysAscend
  <2>5. QED
    BY <1>4, <1>7, <2>1, <2>2, <2>4 DEF Traded
<1>9. \A t \in w.out : t \in Traded /\ p.from <= t /\ t < p.through
  <2> TAKE t \in w.out
  <2>1. CASE t \in base
    BY <1>2, <1>6, <2>1
  <2>2. CASE t \in UNION {Bars(d) : d \in got} /\ t >= p.from
    <3>1. PICK d \in got : t \in Bars(d)
      BY <2>2
    <3>2. d \in want
      BY <3>1
    <3>3. t \in Traded /\ t < p.through
      BY <1>8, <3>1, <3>2
    <3>4. t \in Nat
      BY <1>2, <3>3
    <3>5. QED
      BY <1>3, <2>2, <3>3, <3>4
  <2>3. QED
    BY <1>5, <2>1, <2>2
<1>10. base \subseteq w.out
  BY <1>5
<1>11. InBounds(y, w)
  <2>1. w.out \in SUBSET Times
    BY <1>2, <1>9
  <2>2. w.gap \in SUBSET Times
    <3>1. gap \in SUBSET Times
      BY <1>2 DEF LeftOut, Between, Bars
    <3>2. QED
      BY <1>5, <3>1
  <2>3. w \in Write
    <3>1. w = [p EXCEPT !.out = w.out, !.way = w.way, !.gap = w.gap]
      BY <1>1 DEF w, Fill, Write
    <3>2. w.way \in {"fallback", "native", "rows"}
      BY <1>5
    <3>3. QED
      BY <1>1, <2>1, <2>2, <3>1, <3>2 DEF Write
  <2>4. ASSUME NEW t \in w.out
        PROVE  t \in InYear(y, Traded) /\ w.from <= t /\ t <= now
    <3>1. t \in Traded /\ t \in Nat /\ p.from <= t /\ t < p.through
      BY <1>2, <1>9
    <3>2. YearStart(y) <= t /\ t < YearStart(y + 1) /\ t <= now
      BY <1>2, <1>3, <1>4, <3>1
    <3>3. InYear(y, Traded) = {s \in Traded : YearStart(y) <= s /\ s < YearStart(y + 1)}
      BY <1>1, <1>2, InYearIs
    <3>4. QED
      BY <1>5, <3>1, <3>2, <3>3
  <2>5. QED
    BY <1>3, <1>4, <1>5, <2>3, <2>4 DEF InBounds
<1>12. DeletesNewest(y, w)
  <2> SUFFICES ASSUME NEW t \in InYear(y, rows), Deletes(w, t)
               PROVE  w.through < YearStart(y + 1) /\ \A s \in InYear(y, rows) : s <= t
    BY DEF DeletesNewest
  <2>1. /\ t \in rows /\ t \in Nat /\ t <= now /\ p.from <= t /\ t \notin base
    BY <1>2, <1>5, <1>10 DEF Deletes, InYear
  <2>2. p.through <= t
    BY <1>4, <1>6, <2>1
  <2>3. t < YearStart(y + 1)
    <3>1. InYear(y, rows) = {s \in rows : YearStart(y) <= s /\ s < YearStart(y + 1)}
      BY <1>1, <1>2, InYearIs
    <3>2. QED
      BY <3>1
  <2>4. y = Current /\ p.through = now /\ now < YearStart(y + 1)
    BY <1>1, <1>4, <2>1, <2>2, <2>3
  <2>5. t = now
    BY <1>2, <2>1, <2>2, <2>4
  <2>6. QED
    BY <1>2, <1>5, <2>4, <2>5 DEF InYear
<1>13. RunningYear(y, w)
  <2>1. w.way # "native"
    BY <1>5
  <2>2. QED
    BY <1>1, <1>5, <2>1, RunningHolds
<1>14. Scans(w)
  BY <1>5 DEF Scans
<1>15. Covers(y, w)
  <2> SUFFICES ASSUME w.way = "fallback", w.through >= YearStart(y + 1),
                      NEW t \in InYear(y, Traded),
                      \A e \in Configs : e.fallback => e.start <= t
               PROVE  t \in w.out \cup w.gap
    BY DEF Covers
  <2>0. y < Current /\ p.through = YearStart(y + 1)
    BY <1>1, <1>4, <1>5
  <2>1. /\ t \in Traded /\ t \in Nat /\ YearStart(y) <= t /\ t < YearStart(y + 1)
        /\ c.start <= t
    <3>1. InYear(y, Traded) = {s \in Traded : YearStart(y) <= s /\ s < YearStart(y + 1)}
      BY <1>1, <1>2, InYearIs
    <3>2. QED
      BY <1>2, <3>1
  <2>2. p.from <= t /\ t < p.through /\ t <= now
    <3>1. p.from = Greater(c.start, YearStart(y)) /\ c.start \in Nat
      BY <1>0, <1>2, <1>3, <2>0
    <3>2. p.from <= t
      BY <1>4, <2>1, <3>1 DEF Greater
    <3>3. QED
      BY <1>2, <1>4, <2>0, <2>1, <3>2
  <2>3. ok /\ w.gap = gap
    BY <1>5
  <2>4. CASE t < B
    <3>1. list.ok /\ want \cap bad = {}
      BY <1>3, <1>7, <2>1, <2>2, <2>3, <2>4
    <3> DEFINE d == DayOf(t)
    <3>2. /\ d \in Nat /\ d * Slots = DayStart(t) /\ DayStart(t) <= t
          /\ DayStart(t) \in Nat /\ DayStart(p.from) \in Nat
          /\ DayStart(p.from) <= DayStart(t)
      BY <1>3, <2>1, <2>2, DayOfIs, DaysAscend
    <3>3. d \in Trading /\ t \in Bars(d)
      BY <1>2, <2>1 DEF Traded, Bars
    <3>4. d * Slots < B
      BY <1>7, <2>1, <2>4, <3>2
    <3>5. CASE Bars(d) \subseteq base
      BY <1>10, <3>3, <3>5
    <3>6. CASE d \notin list.days
      <4>1. d \in Older(p, Boundary(ks))
        BY <3>2, <3>3, <3>4 DEF Older, B
      <4>2. t \in gap
        BY <3>3, <3>6, <4>1 DEF LeftOut
      <4>3. QED
        BY <2>3, <4>2
    <3>7. CASE ~ (Bars(d) \subseteq base) /\ d \in list.days
      <4>1. d \in want
        BY <3>2, <3>3, <3>4, <3>7 DEF Wanted, Older, B
      <4>2. d \in got
        BY <3>1, <4>1
      <4> HIDE DEF d, got
      <4>3. t \in UNION {Bars(e) : e \in got}
        BY <3>3, <4>2
      <4>4. t >= p.from
        BY <2>2
      <4>5. QED
        BY <1>5, <4>3, <4>4 DEF got
    <3>8. QED
      BY <3>5, <3>6, <3>7
  <2>5. CASE ~ (t < B)
    <3>1. DayStart(p.through) = p.through
      BY <1>4, <2>0, YearStartsDay
    <3>2. PICK n \in Nat : /\ B = DayStart(n) /\ n <= now
                           /\ ks = {} => n = now
                           /\ ks # {} => n = Min(ks)
      BY <1>7, <2>1, <2>2, <2>5, <3>1
    <3>3. DayStart(n) <= t
      BY <1>7, <2>1, <2>5, <3>2
    <3>4. CASE ks = {}
      <4>1. DayStart(p.through) <= DayStart(now)
        BY <1>2, <1>4, DaysAscend
      <4>2. QED
        BY <1>4, <1>7, <2>1, <2>2, <3>1, <3>2, <3>3, <3>4, <4>1, DayOfIs
    <3>5. CASE ks # {} /\ t < Min(ks)
      <4>1. t \in Between(DayStart(Min(ks)), Min(ks))
        BY <2>1, <3>2, <3>3, <3>5 DEF Between
      <4>2. t \in gap \/ t \in base
        BY <3>5, <4>1 DEF LeftOut
      <4>3. QED
        BY <1>10, <2>3, <4>2
    <3>6. CASE ks # {} /\ ~ (t < Min(ks))
      <4>1. ks \in SUBSET Nat
        BY <1>2
      <4>2. Min(ks) \in ks
        BY <3>6, <4>1, OldestIn
      <4>3. Min(ks) <= t
        BY <2>1, <3>2, <3>6
      <4>4. t \in ks
        BY <1>2, <2>1, <2>2, <4>2, <4>3
      <4>5. QED
        BY <1>6, <1>10, <2>2, <4>4
    <3>7. QED
      BY <3>4, <3>5, <3>6
  <2>6. QED
    BY <2>4, <2>5
<1>16. QED
  BY <1>11, <1>12, <1>13, <1>14, <1>15 DEF Pending, w, p

\* A year without the fallback.
LEMMA StorePending ==
  ASSUME Inv, NEW c \in Configs, ~c.fallback, NEW y \in Targets(c.start, c.fallback),
         NEW ks, Newest(ks),
         ks = {} \/ \A t \in Native : Begins(y, c.start, c.fallback) <= t => t \in ks
  PROVE  Pending(y, Store(Plain(y, c.start, c.fallback), ks))
<1> DEFINE p == Plain(y, c.start, c.fallback)
           w == Store(p, ks)
<1>0. TypeOK /\ c.start \in Times /\ c.fallback \in BOOLEAN
  BY ConfigIs DEF Inv
<1>1. /\ p \in Write /\ y \in Years /\ y <= Current
      /\ p.year = y /\ p.from = Begins(y, c.start, c.fallback)
      /\ p.through = Through(y) /\ p.way = "rows"
      /\ p.out = {} /\ p.had = {} /\ p.gap = {}
  BY <1>0, PlainIs
<1> HIDE DEF p
<1>2. /\ now \in Times /\ now \in Nat /\ Traded \subseteq Times /\ Times \subseteq Nat
      /\ rows \subseteq Traded /\ \A t \in rows : t <= now
      /\ ks \subseteq Traded /\ \A t \in ks : t <= now
      /\ \A t \in ks : \A s \in Traded : t <= s /\ s <= now => s \in ks
  BY DataIs DEF Newest
<1>3. /\ p.from \in Times /\ p.from \in Nat /\ YearStart(y) <= p.from
      /\ y = Current => \A t \in InYear(y, rows) : t <= p.from
  <2> DEFINE f == Begins(y, c.start, c.fallback)
  <2>1. /\ f \in Times /\ YearStart(y) <= f
        /\ y = Current /\ ~c.fallback => \A t \in InYear(y, rows) : t <= f
    BY <1>0, <1>1, BeginsIs
  <2>2. f \in Nat /\ p.from = f
    BY <1>1, <1>2, <2>1
  <2> HIDE DEF f
  <2>3. QED
    BY <2>1, <2>2
<1>4. /\ p.through \in Nat /\ p.through <= now /\ p.through <= YearStart(y + 1)
      /\ p.through < YearStart(y + 1) <=> y = Current
      /\ y \in Nat /\ Current \in Nat
  <2>1. y \in Nat /\ Current \in Nat
    BY <1>1, <1>2, TimesAre, YearOfIs DEF Current
  <2>2. QED
    BY <1>1, <1>2, <2>1, ThroughIs
<1>5. /\ w.year = y /\ w.from = p.from /\ w.through = p.through /\ w.gap = {}
      /\ w.out = From(p.from, InYear(y, ks))
      /\ w.way = IF y < Current THEN "native" ELSE "rows"
      /\ w.had = From(p.from, InYear(y, Native))
  BY <1>1 DEF Store, Write
<1>6. InBounds(y, w)
  <2>1. w.out \in SUBSET Times /\ w.had \in SUBSET Times
    BY <1>2, <1>5 DEF From, InYear, Native
  <2>2. w \in Write
    <3>1. w = [p EXCEPT !.out = w.out, !.way = w.way, !.had = w.had]
      BY <1>1 DEF Store, Write
    <3> HIDE DEF w
    <3>2. w.way \in {"fallback", "native", "rows"}
      BY <1>5
    <3>3. QED
      BY <1>1, <2>1, <3>1, <3>2 DEF Write
  <2>3. ASSUME NEW t \in w.out
        PROVE  t \in InYear(y, Traded) /\ w.from <= t /\ t <= now
    <3>1. t \in ks /\ YearOf(t) = y /\ t >= p.from
      BY <1>5 DEF From, InYear
    <3>2. t \in Nat
      BY <1>2, <3>1
    <3>3. QED
      BY <1>2, <1>3, <1>5, <3>1, <3>2 DEF InYear
  <2> HIDE DEF w
  <2>4. QED
    BY <1>3, <1>4, <1>5, <2>2, <2>3 DEF InBounds
<1> HIDE DEF w
<1>7. DeletesNewest(y, w)
  <2> SUFFICES ASSUME NEW t \in InYear(y, rows), Deletes(w, t)
               PROVE  w.through < YearStart(y + 1) /\ \A s \in InYear(y, rows) : s <= t
    BY DEF DeletesNewest
  <2>1. t \in rows /\ YearOf(t) = y /\ t \in Nat /\ t <= now /\ p.from <= t /\ t \notin w.out
    BY <1>2, <1>5 DEF Deletes, InYear
  <2>2. CASE y = Current
    <3>1. \A s \in InYear(y, rows) : s \in Nat /\ s <= p.from
      BY <1>2, <1>3, <2>2 DEF InYear
    <3>2. QED
      BY <1>3, <1>4, <1>5, <2>1, <2>2, <3>1
  <2>3. CASE y # Current
    <3>1. w.way = "native"
      BY <1>1, <1>4, <1>5, <2>3
    <3>2. PICK s \in w.out : s <= t
      BY <3>1 DEF Deletes
    <3>3. s \in ks
      BY <1>5 DEF From, InYear
    <3>4. t \in ks
      BY <1>2, <2>1, <3>2, <3>3
    <3>5. t \in w.out
      BY <1>3, <1>5, <2>1, <3>4 DEF From, InYear
    <3>6. QED
      BY <2>1, <3>5
  <2>4. QED
    BY <2>2, <2>3
<1>8. RunningYear(y, w)
  <2>1. w.way = "native" => y < Current
    BY <1>5
  <2>2. QED
    BY <1>1, <1>5, <2>1, RunningHolds
<1>9. Scans(w)
  <2> SUFFICES ASSUME w.out # {}, NEW t \in w.had PROVE t \in w.out
    BY DEF Scans
  <2>1. ks # {}
    BY <1>5 DEF From, InYear
  <2>2. t \in Native /\ YearOf(t) = y /\ t >= p.from
    BY <1>5 DEF From, InYear
  <2>3. t \in Nat
    BY <1>2, <2>2 DEF Native
  <2>4. t \in ks
    BY <1>1, <1>3, <2>1, <2>2, <2>3
  <2>5. QED
    BY <1>5, <2>2, <2>4 DEF From, InYear
<1>10. Covers(y, w)
  BY <1>5 DEF Covers
<1>11. QED
  BY <1>6, <1>7, <1>8, <1>9, <1>10 DEF Pending, w, p

\* The invariants of what is stored do not look at the pull in hand.
Stored == MarkVouches /\ MarksBehind /\ ScansStored

LEMMA StoredStays ==
  ASSUME UNCHANGED <<now, rows, mark, gone, offered>>, Stored
  PROVE  Stored'
BY DEF Stored, MarkVouches, MarksBehind, ScansStored

LEMMA PendingStays ==
  ASSUME NEW y, NEW w, UNCHANGED <<now, rows, mark, offered>>, Pending(y, w)
  PROVE  Pending(y, w)'
BY DEF Pending, InBounds, DeletesNewest, RunningYear, Scans, Covers, Deletes

LEMMA PullInv ==
  ASSUME Inv, NEW c \in Configs, Pull(c.start, c.fallback)
  PROVE  Inv'
<1> DEFINE targets == Targets(c.start, c.fallback)
           begins == {Begins(y, c.start, c.fallback) : y \in targets}
<1>1. /\ targets # {} /\ UNCHANGED <<now, rows, mark, gone, offered>>
      /\ pull'.fallback = c.fallback
  BY DEF Pull
<1>2. PICK ks \in {Fetched(Min(begins)), {}}, list \in Answers, bad \in Failures :
        pull' = [todo |-> [y \in targets |->
                             LET w == Plain(y, c.start, c.fallback)
                             IN IF c.fallback THEN Fill(w, ks, list, bad)
                                              ELSE Store(w, ks)],
                 fallback |-> c.fallback]
  BY DEF Pull
<1>3. /\ DOMAIN pull'.todo = targets
      /\ \A y \in targets :
            pull'.todo[y] = IF c.fallback THEN Fill(Plain(y, c.start, c.fallback), ks, list, bad)
                                          ELSE Store(Plain(y, c.start, c.fallback), ks)
  BY <1>2
<1>4. TypeOK /\ c.start \in Times /\ c.fallback \in BOOLEAN /\ now \in Times
  BY ConfigIs DEF Inv, TypeOK
<1>5. \A y \in targets : y \in Years /\ y <= Current
  BY DEF Targets
<1>6. Min(begins) \in begins /\ (\A t \in begins : Min(begins) <= t) /\ begins \subseteq Times
  <2>1. begins \subseteq Times
    BY <1>4, <1>5, BeginsIs
  <2>2. begins # {}
    BY <1>1
  <2>3. begins \in SUBSET Nat
    BY <2>1, TimesAre
  <2> HIDE DEF begins
  <2>4. QED
    BY <2>1, <2>2, <2>3, OldestIn
<1>7. Newest(ks)
  <2>1. Newest({})
    BY DEF Newest
  <2> HIDE DEF begins
  <2>2. Min(begins) \in Times
    BY <1>6
  <2>3. Newest(Fetched(Min(begins)))
    BY <1>4, <2>2, FetchedNewest
  <2>4. QED
    BY <2>1, <2>3
<1>8. ASSUME NEW y \in targets
      PROVE  ks = {} \/ \A t \in Native : Begins(y, c.start, c.fallback) <= t => t \in ks
  <2> SUFFICES ASSUME ks = Fetched(Min(begins)), NEW t \in Native,
                      Begins(y, c.start, c.fallback) <= t
               PROVE  t \in ks
    OBVIOUS
  <2> DEFINE f == Begins(y, c.start, c.fallback)
  <2>1. f \in begins
    OBVIOUS
  <2>2. t \in Nat
    BY TimesAre DEF Native
  <2>3. f \in Nat /\ Min(begins) \in Times /\ Min(begins) \in Nat /\ Min(begins) <= f
    BY <1>6, <2>1, TimesAre
  <2>4. f <= t
    OBVIOUS
  <2> HIDE DEF begins, f
  <2>5. Min(begins) <= t
    BY <2>2, <2>3, <2>4
  <2>6. QED
    BY <1>4, <2>3, <2>5, FetchedNewest
<1> HIDE DEF begins
<1>9. ASSUME NEW y \in targets
      PROVE  Pending(y, pull'.todo[y])
  <2>1. CASE c.fallback
    <3>1. Pending(y, Fill(Plain(y, c.start, c.fallback), ks, list, bad))
      BY <1>7, <2>1, FillPending
    <3>2. QED
      BY <1>3, <2>1, <3>1
  <2>2. CASE ~c.fallback
    <3>1. Pending(y, Store(Plain(y, c.start, c.fallback), ks))
      BY <1>7, <1>8, <2>2, StorePending
    <3>2. QED
      BY <1>3, <2>2, <3>1
  <2>3. QED
    BY <1>4, <2>1, <2>2
<1>10. ASSUME NEW y \in DOMAIN pull'.todo
       PROVE  y \in Years /\ pull'.todo[y] \in Write /\ Pending(y, pull.todo[y])'
  <2>1. y \in targets /\ y \in Years
    BY <1>3, <1>5
  <2>2. PICK w : w = pull'.todo[y]
    OBVIOUS
  <2>3. Pending(y, w)
    BY <1>9, <2>1, <2>2
  <2>4. Pending(y, w)' /\ w \in Write
    BY <1>1, <2>3, PendingStays DEF Pending, InBounds
  <2>5. QED
    BY <2>1, <2>2, <2>4 DEF Pending, InBounds, DeletesNewest, RunningYear, Scans, Covers, Deletes
<1>11. TypeOK'
  <2> DEFINE todo == [y \in targets |->
                        LET w == Plain(y, c.start, c.fallback)
                        IN IF c.fallback THEN Fill(w, ks, list, bad) ELSE Store(w, ks)]
  <2>1. pull' = [todo |-> todo, fallback |-> c.fallback]
    BY <1>2
  <2>2. \A y \in targets : todo[y] \in Write
    BY <1>3, <1>10, <2>1
  <2>3. DOMAIN todo = targets /\ targets \in SUBSET Years
    BY <1>5
  <2>4. todo \in [targets -> Write]
    BY <2>2
  <2> HIDE DEF todo, targets
  <2>5. pull' \in [todo : UNION {[T -> Write] : T \in SUBSET Years}, fallback : BOOLEAN]
    BY <1>4, <2>1, <2>3, <2>4
  <2>6. QED
    BY <1>1, <1>4, <2>5 DEF TypeOK
<1>12. Stored'
  BY <1>1, StoredStays DEF Inv, Stored
<1>13. QED
  BY <1>10, <1>11, <1>12 DEF Inv, Stored

(***************************************************************************)
(* Commits, and the theorems.                                              *)
(***************************************************************************)
LEMMA PullIs ==
  ASSUME TypeOK
  PROVE  /\ DOMAIN pull.todo \in SUBSET Years /\ pull.fallback \in BOOLEAN
         /\ pull.todo \in [DOMAIN pull.todo -> Write]
         /\ pull = [todo |-> pull.todo, fallback |-> pull.fallback]
BY DEF TypeOK

\* What is left to do when one year is done with, or all of them.
LEMMA RestIs ==
  ASSUME Inv, DOMAIN pull.todo # {}
  PROVE  /\ Due \in DOMAIN pull.todo /\ Due \in Years
         /\ Rest.fallback = pull.fallback
         /\ DOMAIN Rest.todo = DOMAIN pull.todo \ {Due}
         /\ \A y \in DOMAIN Rest.todo : Rest.todo[y] = pull.todo[y]
         /\ Rest \in [todo : UNION {[T -> Write] : T \in SUBSET Years}, fallback : BOOLEAN]
<1>1. DOMAIN pull.todo \in SUBSET Nat /\ DOMAIN pull.todo \subseteq Years
  BY TimesAre, PullIs DEF Inv
<1>2. Due \in DOMAIN pull.todo
  BY <1>1, OldestIn DEF Due
<1>3. pull = [todo |-> pull.todo, fallback |-> pull.fallback]
  BY PullIs DEF Inv
<1>4. Rest = [todo |-> [y \in DOMAIN pull.todo \ {Due} |-> pull.todo[y]],
              fallback |-> pull.fallback]
  BY <1>3 DEF Rest
<1>5. /\ Rest.fallback = pull.fallback
      /\ DOMAIN Rest.todo = DOMAIN pull.todo \ {Due}
      /\ \A y \in DOMAIN Rest.todo : Rest.todo[y] = pull.todo[y]
  BY <1>4
<1>6. Rest \in [todo : UNION {[T -> Write] : T \in SUBSET Years}, fallback : BOOLEAN]
  <2> DEFINE T == DOMAIN pull.todo \ {Due}
             f == [y \in T |-> pull.todo[y]]
  <2>1. T \in SUBSET Years /\ pull.fallback \in BOOLEAN /\ \A y \in T : pull.todo[y] \in Write
    BY PullIs DEF Inv
  <2>2. f \in [T -> Write]
    BY <2>1
  <2>3. Rest = [todo |-> f, fallback |-> pull.fallback]
    BY <1>4
  <2> HIDE DEF f, T
  <2>4. QED
    BY <2>1, <2>2, <2>3
<1>7. QED
  BY <1>1, <1>2, <1>5, <1>6

LEMMA RestingIs ==
  /\ DOMAIN Resting.todo = {} /\ Resting.fallback = FALSE
  /\ Resting \in [todo : UNION {[T -> Write] : T \in SUBSET Years}, fallback : BOOLEAN]
<1>1. DOMAIN Resting.todo = {} /\ Resting.fallback = FALSE
  BY DEF Resting
<1>2. <<>> \in [{} -> Write]
  OBVIOUS
<1>3. <<>> \in UNION {[T -> Write] : T \in SUBSET Years}
  BY <1>2
<1>4. QED
  BY <1>1, <1>3 DEF Resting

LEMMA DueIs ==
  ASSUME Inv, DOMAIN pull.todo # {}
  PROVE  Due \in Years /\ pull.todo[Due] \in Write /\ Pending(Due, pull.todo[Due])
BY RestIs DEF Inv, Pending, InBounds

\* What a commit takes out of the data base, it deletes for good.
LEMMA CommitDeletes ==
  ASSUME Inv, NEW y \in Years, NEW w \in Write, Pending(y, w), w.out # {},
         NEW t \in From(WriteFrom(w), InYear(y, rows)), t \notin w.out
  PROVE  /\ t \in InYear(y, rows) /\ Deletes(w, t)
         /\ w.through < YearStart(y + 1)
         /\ \A s \in InYear(y, rows) : s <= t
<1>1. t \in InYear(y, rows) /\ t >= WriteFrom(w) /\ t \in Nat
  BY DataIs DEF From, InYear
<1>2. w.out \in SUBSET Nat /\ (\A s \in w.out : w.from <= s) /\ w.from \in Nat
  BY TimesAre DEF Pending, InBounds, Write
<1>3. Min(w.out) \in w.out
  BY <1>2, OldestIn
<1>4. Deletes(w, t)
  <2>1. CASE w.way = "rows"
    <3>1. WriteFrom(w) = w.from
      BY <2>1 DEF WriteFrom
    <3>2. QED
      BY <1>1, <1>2, <2>1, <3>1 DEF Deletes
  <2>2. CASE w.way # "rows"
    <3>1. WriteFrom(w) = Min(w.out)
      BY <2>2 DEF WriteFrom
    <3>2. w.from <= Min(w.out) /\ Min(w.out) \in Nat /\ Min(w.out) <= t
      BY <1>1, <1>2, <1>3, <3>1
    <3>3. w.from <= t
      BY <1>1, <1>2, <3>2
    <3>4. QED
      BY <1>3, <3>2, <3>3 DEF Deletes
  <2>3. QED
    BY <2>1, <2>2
<1>5. QED
  BY <1>1, <1>4 DEF Pending, DeletesNewest

\* The pull goes on with other years.
LEMMA OtherPending ==
  ASSUME NEW z, NEW v, Pending(z, v), now' = now,
         InYear(z, rows') = InYear(z, rows),
         offered'[z] = offered[z], mark'[z] = mark[z]
  PROVE  Pending(z, v)'
<1>1. InBounds(z, v)'
  BY DEF Pending, InBounds
<1>2. DeletesNewest(z, v)'
  BY DEF Pending, DeletesNewest, Deletes
<1>3. RunningYear(z, v)'
  BY DEF Pending, RunningYear
<1>4. Scans(v)' /\ Covers(z, v)'
  BY DEF Pending, Scans, Covers
<1>5. QED
  BY <1>1, <1>2, <1>3, <1>4 DEF Pending

LEMMA MarkedIs ==
  ASSUME TypeOK, NEW y \in Years, NEW w \in Write, w.year = y
  PROVE  /\ Marked(w) \in [from : Times, through : Nat \cup {-1}, fallback : BOOLEAN]
         /\ Marked(w).fallback => w.way = "fallback"
         /\ \/ Marked(w).through = 0
            \/ Marked(w).through = w.through
            \/ Marked(w).through = mark[y].through
<1> DEFINE old == mark[y]
           fresh == [from |-> w.from, fallback |-> w.way = "fallback",
                     through |-> IF w.way = "fallback" THEN w.through ELSE 0]
<1>1. /\ old.from \in Times /\ old.through \in Nat \cup {-1} /\ old.through \in Int
      /\ w.from \in Times /\ w.through \in Nat /\ Times \subseteq Nat
  BY TimesAre DEF TypeOK, Write
<1>2. /\ fresh.from = w.from /\ fresh.fallback = (w.way = "fallback")
      /\ fresh.fallback \in BOOLEAN
      /\ fresh.through = IF w.way = "fallback" THEN w.through ELSE 0
      /\ fresh.through \in Nat
  BY <1>1
<1> DEFINE joined == [fresh EXCEPT !.from = Lesser(old.from, @),
                                   !.through = Greater(old.through, @)]
<1>3. Marked(w) = fresh \/ Marked(w) = joined
  BY DEF Marked
<1>4. joined = [from |-> Lesser(old.from, fresh.from), fallback |-> fresh.fallback,
                through |-> Greater(old.through, fresh.through)]
  <2> DEFINE j == [from |-> Lesser(old.from, fresh.from), fallback |-> fresh.fallback,
                   through |-> Greater(old.through, fresh.through)]
  <2>1. DOMAIN joined = {"from", "fallback", "through"} /\ DOMAIN j = {"from", "fallback", "through"}
    OBVIOUS
  <2>2. joined.from = j.from /\ joined.fallback = j.fallback /\ joined.through = j.through
    OBVIOUS
  <2>3. joined = [f \in {"from", "fallback", "through"} |-> joined[f]]
    OBVIOUS
  <2>4. j = [f \in {"from", "fallback", "through"} |-> j[f]]
    OBVIOUS
  <2>5. QED
    BY <2>2, <2>3, <2>4
<1> HIDE DEF old
<1>5. /\ fresh = [from |-> fresh.from, fallback |-> fresh.fallback,
                  through |-> fresh.through]
  OBVIOUS
<1> HIDE DEF fresh
<1> HIDE DEF joined
<1>6. joined.from \in Times /\ joined.through \in Nat
  BY <1>1, <1>2, <1>4 DEF Lesser, Greater
<1>7. /\ fresh \in [from : Times, through : Nat \cup {-1}, fallback : BOOLEAN]
      /\ joined \in [from : Times, through : Nat \cup {-1}, fallback : BOOLEAN]
  BY <1>1, <1>2, <1>4, <1>5, <1>6
<1>8. joined.through = old.through \/ joined.through = fresh.through
  BY <1>4 DEF Greater
<1>9. QED
  BY <1>2, <1>3, <1>4, <1>7, <1>8 DEF old

LEMMA CommitInv ==
  ASSUME Inv, Commit
  PROVE  Inv'
<1>0. TypeOK /\ MarkVouches /\ MarksBehind /\ ScansStored /\ DOMAIN pull.todo # {}
  BY DEF Inv, Commit
<1>1. PICK y \in Years, w \in Write :
        y = Due /\ w = pull.todo[Due] /\ w.year = y /\ Pending(y, w)
  BY <1>0, DueIs DEF Pending, InBounds
<1>2. /\ now' = now /\ pull' = Rest
      /\ DOMAIN pull'.todo = DOMAIN pull.todo \ {y}
      /\ \A z \in DOMAIN pull'.todo : pull'.todo[z] = pull.todo[z]
      /\ pull' \in [todo : UNION {[T -> Write] : T \in SUBSET Years}, fallback : BOOLEAN]
  BY <1>0, <1>1, RestIs DEF Commit
<1>3. CASE w.out = {}
  <2>1. UNCHANGED <<now, rows, mark, gone, offered>>
    BY <1>1, <1>2, <1>3 DEF Commit
  <2>2. ASSUME NEW z \in DOMAIN pull'.todo PROVE Pending(z, pull.todo[z])'
    <3>1. PICK v : v = pull.todo[z] /\ v = pull'.todo[z]
      BY <1>2
    <3>2. Pending(z, v)
      BY <1>2, <3>1 DEF Inv
    <3>3. Pending(z, v)'
      BY <2>1, <3>2, PendingStays
    <3>4. QED
      BY <3>1, <3>3 DEF Pending, InBounds, DeletesNewest, RunningYear, Scans, Covers, Deletes
  <2>3. TypeOK'
    BY <1>0, <1>2, <2>1 DEF TypeOK
  <2>4. Stored'
    BY <1>0, <2>1, StoredStays DEF Stored
  <2>5. QED
    BY <2>2, <2>3, <2>4 DEF Inv, Stored
<1>4. CASE w.out # {}
  <2> DEFINE cut == From(WriteFrom(w), InYear(y, rows))
  <2>1. /\ rows' = (rows \ cut) \cup w.out
        /\ gone' = (gone \cup w.gap) \ rows'
        /\ w.way = "rows" => mark' = mark /\ offered' = offered
        /\ w.way # "rows" =>
              /\ mark' = [mark EXCEPT ![y] = Marked(w)]
              /\ offered' = [offered EXCEPT ![y] =
                               IF w.way = "native" THEN @ \cup w.had ELSE {}]
    BY <1>1, <1>4 DEF Commit
  <2>2. /\ now \in Times /\ now \in Nat /\ Traded \subseteq Times /\ Times \subseteq Nat
        /\ rows \subseteq Traded /\ \A t \in rows : t <= now
    BY DataIs
  <2>3. /\ \A t \in w.out : t \in InYear(y, Traded) /\ t <= now
        /\ w.through <= now /\ w.through \in Nat /\ YearStart(y + 1) \in Nat
        /\ YearStart(y + 1) # 0
        /\ w.had \subseteq Times /\ w.gap \subseteq Times
    <3>1. y \in Nat
      BY TimesAre
    <3>2. YearStart(y + 1) \in Nat /\ YearStart(y + 1) # 0
      BY <3>1, YearStartIs
    <3>3. w.through \in Nat /\ w.had \subseteq Times /\ w.gap \subseteq Times
      BY DEF Write
    <3>4. QED
      BY <1>1, <3>2, <3>3 DEF Pending, InBounds
  <2>4. \A t \in cut \ w.out : /\ t \in InYear(y, rows) /\ w.through < YearStart(y + 1)
                               /\ \A s \in InYear(y, rows) : s <= t
    BY <1>1, <1>4, CommitDeletes
  <2>5. cut \subseteq InYear(y, rows)
    BY DEF From
  <2> HIDE DEF cut
  \* A year that is over loses nothing.
  <2>6. ~ (w.through < YearStart(y + 1)) => rows \subseteq rows'
    BY <2>1, <2>4
  <2>7. \A z \in Years : z # y => InYear(z, rows') = InYear(z, rows)
    <3> SUFFICES ASSUME NEW z \in Years, z # y
                 PROVE  \A t : t \in InYear(z, rows') <=> t \in InYear(z, rows)
      OBVIOUS
    <3> TAKE t
    <3>1. t \in cut => YearOf(t) = y
      BY <2>5 DEF InYear
    <3>2. t \in w.out => YearOf(t) = y
      BY <2>3 DEF InYear
    <3>3. QED
      BY <2>1, <3>1, <3>2 DEF InYear
  <2>8. rows' \subseteq Traded /\ (\A t \in rows' : t <= now) /\ w.out \subseteq rows'
    BY <2>1, <2>2, <2>3 DEF InYear
  <2>9. \A t \in rows \cup gone : t \in rows => t \in rows' \/ t \in cut
    BY <2>1
  <2>10. gone \subseteq rows' \cup gone' /\ w.gap \subseteq rows' \cup gone'
    BY <2>1
  <2>11. mark \in [Years -> [from : Times, through : Nat \cup {-1}, fallback : BOOLEAN]]
         /\ offered \in [Years -> SUBSET Times] /\ gone \subseteq Times
    BY <1>0 DEF TypeOK
  <2>12. /\ Marked(w) \in [from : Times, through : Nat \cup {-1}, fallback : BOOLEAN]
         /\ Marked(w).fallback => w.way = "fallback"
         /\ \/ Marked(w).through = 0
            \/ Marked(w).through = w.through
            \/ Marked(w).through = mark[y].through
    BY <1>0, <1>1, MarkedIs
  <2>13. \A z \in Years : z # y => mark'[z] = mark[z] /\ offered'[z] = offered[z]
    BY <2>1, <2>11
  <2>14. /\ w.way = "rows" => mark'[y] = mark[y] /\ offered'[y] = offered[y]
         /\ w.way # "rows" => mark'[y] = Marked(w)
         /\ w.way = "native" => offered'[y] = offered[y] \cup w.had
         /\ w.way \notin {"rows", "native"} => offered'[y] = {}
    BY <2>1, <2>11
  <2>15. TypeOK'
    <3>1. mark' \in [Years -> [from : Times, through : Nat \cup {-1}, fallback : BOOLEAN]]
      <4>1. CASE w.way = "rows"
        BY <2>1, <2>11, <4>1
      <4>2. CASE w.way # "rows"
        BY <2>1, <2>11, <2>12, <4>2
      <4>3. QED
        BY <4>1, <4>2
    <3>2. offered' \in [Years -> SUBSET Times]
      <4>1. offered[y] \cup w.had \in SUBSET Times /\ {} \in SUBSET Times
        BY <2>3, <2>11
      <4>2. QED
        BY <2>1, <2>11, <4>1
    <3>3. gone' \subseteq Times
      BY <2>1, <2>3, <2>11
    <3>4. rows' \subseteq {t \in Traded : t <= now'}
      BY <1>2, <2>8
    <3>5. QED
      BY <1>2, <2>2, <3>1, <3>2, <3>3, <3>4 DEF TypeOK
  <2>16. \A z \in Years : mark[z].through \in Int /\ mark[z].through <= now
    BY <1>0, <2>11 DEF MarksBehind
  <2>17. MarksBehind'
    <3> SUFFICES ASSUME NEW z \in Years PROVE mark'[z].through <= now
      BY <1>2 DEF MarksBehind
    <3>1. CASE z # y \/ w.way = "rows"
      BY <2>13, <2>14, <2>16, <3>1
    <3>2. CASE z = y /\ w.way # "rows"
      BY <2>2, <2>3, <2>12, <2>14, <2>16, <3>2
    <3>3. QED
      BY <3>1, <3>2
  \* What is known of a year that is still running.
  <2>18. w.through < YearStart(y + 1) =>
           offered[y] = {} /\ w.way # "native" /\ mark[y].through < YearStart(y + 1)
    BY <1>1 DEF Pending, RunningYear
  <2>19. ScansStored'
    <3> SUFFICES ASSUME NEW z \in Years
                 PROVE  /\ offered'[z] \subseteq InYear(z, rows')
                        /\ offered'[z] # {} => YearStart(z + 1) <= now
      BY <1>2 DEF ScansStored
    <3>0. offered[z] \subseteq InYear(z, rows) /\ (offered[z] # {} => YearStart(z + 1) <= now)
      BY <1>0 DEF ScansStored
    <3>1. CASE z # y
      BY <2>7, <2>13, <3>0, <3>1
    <3>2. CASE z = y /\ w.way = "rows"
      <4>1. CASE w.through < YearStart(y + 1)
        BY <2>14, <2>18, <3>2, <4>1
      <4>2. CASE ~ (w.through < YearStart(y + 1))
        BY <2>6, <2>14, <3>0, <3>2, <4>2 DEF InYear
      <4>3. QED
        BY <4>1, <4>2
    <3>3. CASE z = y /\ w.way = "native"
      <4>1. ~ (w.through < YearStart(y + 1)) /\ YearStart(y + 1) <= now
        BY <2>2, <2>3, <2>18, <3>3
      <4>2. w.had \subseteq w.out
        BY <1>1, <1>4, <3>3 DEF Pending, Scans
      <4>3. w.had \subseteq InYear(y, rows')
        BY <2>3, <2>8, <4>2 DEF InYear
      <4>4. offered[y] \subseteq InYear(y, rows')
        BY <2>6, <3>0, <3>3, <4>1 DEF InYear
      <4>5. QED
        BY <2>14, <3>3, <4>1, <4>3, <4>4
    <3>4. CASE z = y /\ w.way \notin {"rows", "native"}
      BY <2>14, <3>4
    <3>5. QED
      BY <3>1, <3>2, <3>3, <3>4
  <2>20. MarkVouches'
    <3>1. ASSUME NEW z \in Years, mark'[z].fallback, mark'[z].through >= YearStart(z + 1),
                 NEW t \in InYear(z, Traded), t >= mark'[z].from,
                 \A c \in Configs : c.fallback => c.start <= t
          PROVE  t \in rows' \cup gone'
      <4>1. CASE z = y /\ w.way # "rows"
        <5>1. w.way = "fallback"
          BY <2>12, <2>14, <3>1, <4>1
        <5>2. w.through >= YearStart(y + 1)
          BY <2>3, <2>12, <2>14, <2>16, <2>18, <3>1, <4>1
        <5>3. t \in w.out \cup w.gap
          BY <1>1, <3>1, <4>1, <5>1, <5>2 DEF Pending, Covers
        <5>4. QED
          BY <2>8, <2>10, <5>3
      <4>2. CASE z # y \/ w.way = "rows"
        <5>1. mark'[z] = mark[z]
          BY <2>13, <2>14, <4>2
        <5>2. t \in rows \cup gone
          BY <1>0, <3>1, <5>1 DEF MarkVouches, From, InYear
        <5>3. CASE t \in gone
          BY <2>10, <5>3
        <5>4. CASE t \in rows /\ z # y
          <6>1. t \in InYear(z, rows)
            BY <3>1, <5>4 DEF InYear
          <6>2. QED
            BY <2>7, <5>4, <6>1 DEF InYear
        <5>5. CASE t \in rows /\ z = y
          <6>1. ~ (w.through < YearStart(y + 1))
            BY <2>3, <2>16, <2>18, <3>1, <5>1, <5>5
          <6>2. QED
            BY <2>6, <5>5, <6>1
        <5>6. QED
          BY <5>2, <5>3, <5>4, <5>5
      <4>3. QED
        BY <4>1, <4>2
    <3>2. rows' \subseteq {t \in Traded : t <= now'}
      BY <1>2, <2>8
    <3>3. QED
      BY <3>1, <3>2 DEF MarkVouches, From, InYear
  <2>21. ASSUME NEW z \in DOMAIN pull'.todo PROVE Pending(z, pull.todo[z])'
    <3>1. PICK v : v = pull.todo[z] /\ v = pull'.todo[z]
      BY <1>2
    <3>2. Pending(z, v) /\ z # y /\ z \in Years
      BY <1>0, <1>2, <3>1, PullIs DEF Inv
    <3>3. Pending(z, v)'
      BY <1>2, <2>7, <2>13, <3>2, OtherPending
    <3>4. QED
      BY <3>1, <3>3 DEF Pending, InBounds, DeletesNewest, RunningYear, Scans, Covers, Deletes
  <2>22. QED
    BY <2>15, <2>17, <2>19, <2>20, <2>21 DEF Inv
<1>5. QED
  BY <1>3, <1>4

\* A commit that is given up, or time that passes: nothing stored changes.
LEMMA QuietInv ==
  ASSUME Inv, CommitFails \/ Crash \/ Tick \/ UNCHANGED vars
  PROVE  Inv'
<1>0. TypeOK /\ Stored
  BY DEF Inv, Stored
<1>1. /\ UNCHANGED <<rows, mark, gone, offered>>
      /\ now' \in Times /\ now \in Nat /\ now' \in Nat /\ now <= now'
  <2>1. now \in Nat /\ now \in Times
    BY DataIs
  <2>2. CASE Tick
    BY <2>1, <2>2 DEF Tick
  <2>3. CASE CommitFails \/ Crash \/ UNCHANGED vars
    BY <2>1, <2>3 DEF CommitFails, Crash, vars
  <2>4. QED
    BY <2>2, <2>3
<1>2. /\ pull' \in [todo : UNION {[T -> Write] : T \in SUBSET Years}, fallback : BOOLEAN]
      /\ DOMAIN pull'.todo \subseteq DOMAIN pull.todo
      /\ \A y \in DOMAIN pull'.todo : pull'.todo[y] = pull.todo[y]
  <2>1. CASE pull' = pull
    BY <1>0, <2>1 DEF TypeOK
  <2>2. CASE pull' = Resting
    BY <2>2, RestingIs
  <2>3. CASE DOMAIN pull.todo # {} /\ pull' = Rest
    BY <2>3, RestIs
  <2>4. QED
    BY <2>1, <2>2, <2>3 DEF CommitFails, Crash, Tick, vars
<1>3. TypeOK'
  <2>1. rows \subseteq Traded /\ \A t \in rows : t <= now /\ t \in Nat
    BY DataIs
  <2>2. rows' \subseteq {t \in Traded : t <= now'}
    BY <1>1, <2>1
  <2>3. QED
    BY <1>0, <1>1, <1>2, <2>2 DEF TypeOK
<1>4. MarkVouches' /\ MarksBehind' /\ ScansStored'
  <2>1. MarkVouches'
    BY <1>0, <1>1, <1>3 DEF Stored, MarkVouches, TypeOK
  <2>2. \A y \in Years : mark[y].through \in Int /\ YearStart(y + 1) \in Nat
    BY <1>0, TimesAre DEF TypeOK
  <2>3. MarksBehind' /\ ScansStored'
    BY <1>0, <1>1, <2>2 DEF Stored, MarksBehind, ScansStored
  <2>4. QED
    BY <2>1, <2>3
<1>5. ASSUME NEW y \in DOMAIN pull'.todo PROVE Pending(y, pull.todo[y])'
  <2>1. PICK w : w = pull.todo[y] /\ w = pull'.todo[y]
    BY <1>2
  <2>2. Pending(y, w)
    BY <1>2, <2>1 DEF Inv
  <2>3. InBounds(y, w)'
    <3>1. /\ w \in Write /\ w.year = y /\ YearStart(y) <= w.from
          /\ w.through <= now /\ w.through <= YearStart(y + 1) /\ w.through \in Nat
          /\ \A t \in w.out : /\ t \in InYear(y, Traded) /\ w.from <= t /\ t <= now
                              /\ t \in Nat
      BY <2>2, TimesAre DEF Pending, InBounds, Write
    <3>2. w.through <= now' /\ \A t \in w.out : t <= now'
      BY <1>1, <3>1
    <3>3. QED
      BY <3>1, <3>2 DEF InBounds
  <2>4. DeletesNewest(y, w)' /\ RunningYear(y, w)' /\ Scans(w)' /\ Covers(y, w)'
    BY <1>1, <2>2 DEF Pending, DeletesNewest, RunningYear, Scans, Covers, Deletes
  <2>5. QED
    BY <2>1, <2>3, <2>4 DEF Pending, InBounds, DeletesNewest, RunningYear, Scans, Covers, Deletes
<1>6. QED
  BY <1>3, <1>4, <1>5 DEF Inv

LEMMA InitInv == Init => Inv
<1> SUFFICES ASSUME Init PROVE Inv
  OBVIOUS
<1>1. /\ now = 0 /\ rows = {} /\ gone = {} /\ pull = Resting
      /\ mark = [y \in Years |-> NoMark] /\ offered = [y \in Years |-> {}]
  BY DEF Init
<1>2. 0 \in Times
  <2>1. 0 \in Years /\ 0 \in Nat
    BY ConstantsOK DEF Years
  <2>2. YearStart(0) \in Times
    BY <2>1, TimesAre
  <2>3. YearStart(0) = 0
    BY <2>1, YearStartIs DEF YearStart
  <2>4. QED
    BY <2>2, <2>3
<1>3. /\ NoMark.from = 0 /\ NoMark.through = -1 /\ NoMark.fallback = FALSE
      /\ NoMark \in [from : Times, through : Nat \cup {-1}, fallback : BOOLEAN]
  BY <1>2 DEF NoMark
<1> HIDE DEF NoMark
<1>4. TypeOK
  BY <1>1, <1>2, <1>3, RestingIs DEF TypeOK
<1>5. MarkVouches /\ MarksBehind /\ ScansStored
  BY <1>1, <1>3 DEF MarkVouches, MarksBehind, ScansStored
<1>6. QED
  BY <1>1, <1>4, <1>5, RestingIs DEF Inv

LEMMA NextInv == Inv /\ [Next]_vars => Inv'
<1> SUFFICES ASSUME Inv, [Next]_vars PROVE Inv'
  OBVIOUS
<1>1. ASSUME NEW c \in Configs, Pull(c.start, c.fallback) PROVE Inv'
  BY <1>1, PullInv
<1>2. CASE Commit
  BY <1>2, CommitInv
<1>3. CASE CommitFails \/ Crash \/ Tick \/ UNCHANGED vars
  BY <1>3, QuietInv
<1>4. QED
  BY <1>1, <1>2, <1>3 DEF Next

LEMMA SpecInv == Spec => []Inv
BY InitInv, NextInv, PTL DEF Spec

\* Types: every stored bar is of a past or the present slot of a traded day.
THEOREM TypeCorrect == Spec => []TypeOK
<1>1. Inv => TypeOK
  BY DEF Inv
<1>2. QED
  BY SpecInv, <1>1, PTL

\* A finished fallback mark hides no gap after the latest start date, for every
\* calendar, every window of the server, every list of settings, and whatever
\* days fail.
THEOREM MarksVouch == Spec => []MarkVouches
<1>1. Inv => MarkVouches
  BY DEF Inv
<1>2. QED
  BY SpecInv, <1>1, PTL

\* What the server had when a year was scanned stays in the data base for as
\* long as the mark of the scan does.
THEOREM ScansVouch == Spec => []ScanVouches
<1>1. Inv => ScanVouches
  BY DEF Inv, ScansStored, ScanVouches, InYear
<1>2. QED
  BY SpecInv, <1>1, PTL

\* No step deletes a bar that is not the newest of a year which was running
\* when the pull was planned.
THEOREM LossesAreBounded == Spec => LosesAtMostNewest
<1>1. Inv /\ [Next]_vars => [LosesNewest]_vars
  <2> SUFFICES ASSUME Inv, Next, NEW t \in rows \ rows'
               PROVE  /\ t = LastMinUnix(YearOf(t))
                      /\ pull.todo[Due].through < YearStart(YearOf(t) + 1)
    BY DEF LosesNewest
  <2>1. Commit
    BY DEF Next, Pull, CommitFails, Crash, Tick
  <2>2. DOMAIN pull.todo # {}
    BY <2>1 DEF Commit
  <2>3. PICK y \in Years, w \in Write :
          y = Due /\ w = pull.todo[Due] /\ w.year = y /\ Pending(y, w)
    BY <2>2, DueIs DEF Pending, InBounds
  <2>4. w.out # {} /\ t \in From(WriteFrom(w), InYear(y, rows)) /\ t \notin w.out
    BY <2>1, <2>3 DEF Commit
  <2>5. /\ t \in InYear(y, rows) /\ w.through < YearStart(y + 1)
        /\ \A s \in InYear(y, rows) : s <= t
    BY <2>3, <2>4, CommitDeletes
  <2>6. InYear(y, rows) \in SUBSET Times /\ InYear(y, rows) # {} /\ YearOf(t) = y
    BY <2>5, DataIs DEF InYear
  <2>7. Max(InYear(y, rows)) \in InYear(y, rows) /\ t <= Max(InYear(y, rows))
    BY <2>5, <2>6, NewestIn
  <2>8. Max(InYear(y, rows)) <= t /\ Max(InYear(y, rows)) \in Nat /\ t \in Nat
    BY <2>5, <2>6, <2>7, TimesAre
  <2>9. LastMinUnix(y) = t
    BY <2>6, <2>7, <2>8 DEF LastMinUnix
  <2>10. QED
    BY <2>3, <2>5, <2>6, <2>9
<1>2. QED
  BY SpecInv, <1>1, PTL DEF Spec, LosesAtMostNewest
===============================================================================
