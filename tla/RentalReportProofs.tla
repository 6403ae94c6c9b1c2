--------------------------- MODULE RentalReportProofs --------------------------
(***************************************************************************)
(* Proofs about RentalReport: that the report and the reserved slots tell  *)
(* the same story, and that the pages of the list cover it.                *)
(*                                                                         *)
(* Sums and pages are recursive functions.  Each is compared with a closed *)
(* form: that satisfies the recursion, and a function which satisfies it,  *)
(* too, cannot differ at a smallest argument.                              *)
(***************************************************************************)
EXTENDS RentalReport, RentalStaffProofs

\* The least number of a set of naturals.
LEMMA LeastNumber ==
    ASSUME NEW S \in SUBSET Nat, S # {}
    PROVE  \E n \in S : \A m \in S : n <= m
<1>1. PICK n \in S : \A m \in S : <<m, n>> \notin OpToRel(<, Nat)
  BY WFMin, NatLessThanWellFounded, Zenon
<1>2. \A m \in S : ~(m < n)
  BY <1>1, Zenon DEF OpToRel
<1> QED BY <1>2

Smallest(s, C) == s \in C /\ \A r \in C : r \subseteq s => r = s

\* A smallest one among subsets of a finite set.
LEMMA SmallestSubset ==
    ASSUME NEW S, IsFiniteSet(S), NEW C, C \subseteq SUBSET S, C # {}
    PROVE  \E s : Smallest(s, C)
<1>1. IsWellFoundedOn(StrictSubsetOrdering(S), FiniteSubsetsOf(S))
  BY FS_StrictSubsetOrderingWellFounded
<1>2. C \subseteq FiniteSubsetsOf(S)
  BY FS_Subset DEF FiniteSubsetsOf
<1>3. PICK s \in C : \A r \in C : <<r, s>> \notin StrictSubsetOrdering(S)
  BY <1>1, <1>2, WFMin
<1>4. \A r \in C : r \subseteq s /\ r # s => <<r, s>> \in StrictSubsetOrdering(S)
  BY DEF StrictSubsetOrdering
<1>5. \A r \in C : r \subseteq s => r = s
  BY <1>3, <1>4, Zenon
<1> QED BY <1>5, Zenon DEF Smallest

\* The greatest number of a finite set of naturals.
LEMMA GreatestNumber ==
    ASSUME NEW S \in SUBSET Nat, S # {}, IsFiniteSet(S)
    PROVE  \E n \in S : \A m \in S : m <= n
<1> DEFINE from(n) == {m \in S : m >= n}
           C == {from(n) : n \in S}
<1>1. C \subseteq SUBSET S /\ C # {}
  OBVIOUS
<1>2. PICK s : Smallest(s, C)
  <2> HIDE DEF C
  <2> QED BY <1>1, SmallestSubset
<1>3. PICK n \in S : s = from(n)
  BY <1>2 DEF Smallest
<1>4. ASSUME NEW m \in S, m > n
      PROVE  FALSE
  <2>1. \A k \in S : k >= m => k >= n
    BY <1>4
  <2>2. from(m) \subseteq from(n)
    BY <2>1
  <2>3. n \in from(n) /\ n \notin from(m)
    BY <1>4
  <2> QED BY <1>2, <1>3, <2>2, <2>3 DEF Smallest
<1> QED BY <1>4
-----------------------------------------------------------------------------
(***************************************************************************)
(* Sums over finite sets.                                                  *)
(***************************************************************************)
SumStep(w, S, iter) ==
    [s \in SUBSET S |->
        IF s = {} THEN 0
        ELSE w[CHOOSE x \in s : TRUE] + iter[s \ {CHOOSE x \in s : TRUE}]]

\* T is a closed form of the sums of w over the subsets of S.
SumsTo(w, S, T) ==
    /\ DOMAIN T = SUBSET S /\ T[{}] = 0
    /\ \A s \in SUBSET S : \A x \in s : T[s] = w[x] + T[s \ {x}]

\* There is no other function that satisfies the recursion of a sum.
LEMMA SumIsUnique ==
    ASSUME NEW S, IsFiniteSet(S), NEW w, NEW T, T = [s \in SUBSET S |-> T[s]],
           SumsTo(w, S, T), NEW f
    PROVE  f = SumStep(w, S, f) <=> f = T
<1> DEFINE pick(s) == CHOOSE x \in s : TRUE
<1>1. \A s \in SUBSET S : s # {} => pick(s) \in s
  OBVIOUS
<1> HIDE DEF pick
<1>2. SumStep(w, S, f) =
          [s \in SUBSET S |-> IF s = {} THEN 0
                              ELSE w[pick(s)] + f[s \ {pick(s)}]]
  BY DEF SumStep, pick
<1>3. ASSUME f = T
      PROVE  f = SumStep(w, S, f)
  <2>1. \A s \in SUBSET S :
           T[s] = IF s = {} THEN 0 ELSE w[pick(s)] + T[s \ {pick(s)}]
    BY <1>1 DEF SumsTo
  <2> QED BY <1>2, <1>3, <2>1
<1>4. ASSUME f = SumStep(w, S, f)
      PROVE  f = T
  <2>1. \A s \in SUBSET S :
           f[s] = IF s = {} THEN 0 ELSE w[pick(s)] + f[s \ {pick(s)}]
    BY <1>2, <1>4
  <2>2. f = [s \in SUBSET S |-> f[s]]
    BY <1>2, <1>4
  <2> DEFINE bad == {s \in SUBSET S : f[s] # T[s]}
  <2>3. SUFFICES ASSUME bad # {} PROVE FALSE
    BY <2>2
  <2>4. PICK s : Smallest(s, bad)
    <3>1. bad \subseteq SUBSET S
      OBVIOUS
    <3> HIDE DEF bad
    <3> QED BY <2>3, <3>1, SmallestSubset
  <2>5. s \in SUBSET S /\ f[s] # T[s]
    BY <2>4 DEF Smallest
  <2>6. s # {}
    BY <2>1, <2>5 DEF SumsTo
  <2>7. pick(s) \in s /\ s \ {pick(s)} \in SUBSET S
    BY <1>1, <2>5, <2>6
  <2>8. f[s \ {pick(s)}] = T[s \ {pick(s)}]
    <3>1. s \ {pick(s)} \notin bad
      BY <2>4, <2>7 DEF Smallest
    <3> QED BY <2>7, <3>1
  <2> HIDE DEF bad
  <2> QED BY <2>1, <2>5, <2>6, <2>7, <2>8 DEF SumsTo
<1> QED BY <1>3, <1>4
-----------------------------------------------------------------------------
(***************************************************************************)
(* The report.                                                             *)
(***************************************************************************)
Counted(v, month) ==
    {id \in OverlappingRentals(month) :
        rentals[id].vehicle = v /\ DaysInMonth(id, month) # {}}

Covered(S, month) == UNION {DaysInMonth(id, month) : id \in S}

ReservedDays(v, month) == {d \in month.first .. month.last : <<v, d>> \in slots}

\* The conditions of ReportMatchesSlots, and what is known of the rows then.
Settles ==
    /\ ~East /\ rentals \in Seq(Rows \cup {Deleted})
    /\ slots = UNION {Keys(rentals[id]) : id \in Active}
    /\ DatesApart
    /\ \A id \in Live : /\ rentals[id].start <= rentals[id].end
                        /\ rentals[id].billed = Cardinality(Dates(rentals[id]))

LEMMA LiveRow ==
    ASSUME rentals \in Seq(Rows \cup {Deleted}), NEW id \in Live
    PROVE  /\ rentals[id] \in Rows
           /\ rentals[id].start \in Nat /\ rentals[id].end \in Nat
<1>1. id \in 1 .. Len(rentals) /\ rentals[id] # Deleted
  BY DEF Live, Ids
<1>2. rentals[id] \in Rows
  BY <1>1, ElementOfSeq
<1> QED BY <1>2, DaysAreNumbers DEF Rows

LEMMA RatesAreNumbers ==
    /\ DailyRate \in [Vehicles -> Nat \ {0}]
    /\ Scale \in Nat \ {0}
    /\ Vehicles \subseteq Nat \ {0}
BY ReportAssumption

LEMMA MonthDays ==
    ASSUME NEW month \in Months
    PROVE  month.first \in Nat /\ month.last \in Nat
BY ReportAssumption, DaysAreNumbers

\* The report's days of a rental are its dates in the month.
LEMMA DaysAreDates ==
    ASSUME Settles, NEW id \in Live, NEW month \in Months
    PROVE  /\ DaysInMonth(id, month) =
                  Dates(rentals[id]) \cap (month.first .. month.last)
           /\ IsFiniteSet(DaysInMonth(id, month))
           /\ Cardinality(DaysInMonth(id, month)) \in Nat
<1>1. /\ rentals[id].start \in Nat /\ rentals[id].end \in Nat
      /\ month.first \in Nat /\ month.last \in Nat
  BY LiveRow, MonthDays DEF Settles
<1>2. DaysInMonth(id, month) =
          Dates(rentals[id]) \cap (month.first .. month.last)
  BY <1>1 DEF Settles, DaysInMonth, RentalStart, RentalEnd, ParsedDay, Later,
              Earlier, Dates
<1>3. /\ Later(RentalStart(id), month.first) \in Int
      /\ Earlier(RentalEnd(id), month.last) \in Int
  BY <1>1 DEF Settles, RentalStart, RentalEnd, ParsedDay, Later, Earlier
<1> QED BY <1>2, <1>3, FS_Interval, FS_CardinalityType DEF DaysInMonth

LEMMA Quotient ==
    ASSUME NEW n \in Nat \ {0}, NEW a \in Nat
    PROVE  (n * a) \div n = a
OBVIOUS

LEMMA Regrouped ==
    ASSUME NEW a \in Nat, NEW b \in Nat, NEW c \in Nat
    PROVE  /\ a * b * c = a * (b * c) /\ a * b \in Nat
           /\ a * b = b * a
OBVIOUS

\* Of a rental that is counted the report divides the amount by the number of
\* days it was charged for.
LEMMA ShareIsRate ==
    ASSUME Settles, NEW id \in Live, NEW month \in Months
    PROVE  /\ DailyRate[rentals[id].vehicle] * Scale \in Nat
           /\ RevenueInMonth(id, month) =
                  (DailyRate[rentals[id].vehicle] * Scale)
                      * Cardinality(DaysInMonth(id, month))
<1> DEFINE row == rentals[id]
           rate == DailyRate[row.vehicle]
           n == row.end - row.start + 1
           share == Cardinality(DaysInMonth(id, month))
<1>1. row \in Rows /\ row.start \in Nat /\ row.end \in Nat /\ row.start <= row.end
  BY LiveRow DEF Settles
<1>2. rate \in Nat /\ Scale \in Nat /\ rate * Scale \in Nat
  <2>1. row.vehicle \in Vehicles
    BY <1>1 DEF Rows
  <2>2. rate \in Nat /\ Scale \in Nat
    BY <2>1, RatesAreNumbers
  <2> QED BY <2>2, Regrouped
<1>3. row.billed = n /\ n \in Nat \ {0}
  <2>1. Cardinality(row.start .. row.end) = n
    <3>1. /\ row.start \in Int /\ row.end \in Int
          /\ ~(row.start > row.end)
      BY <1>1
    <3> HIDE DEF row
    <3> QED BY <3>1, FS_Interval
  <2>2. row.billed = Cardinality(row.start .. row.end)
    BY DEF Settles, Dates
  <2> QED BY <1>1, <2>1, <2>2
<1>4. TotalRentalDays(id) = n
  BY <1>1 DEF Settles, TotalRentalDays, RentalStart, RentalEnd, ParsedDay, Later
<1>5. share \in Nat
  BY DaysAreDates
<1>6. RevenueInMonth(id, month) = share * ((n * rate * Scale) \div n)
  BY <1>3, <1>4 DEF RevenueInMonth
<1> HIDE DEF n, rate, share
<1>7. (n * rate * Scale) \div n = rate * Scale
  <2>1. n * rate * Scale = n * (rate * Scale)
    BY <1>2, <1>3, Regrouped
  <2> QED BY <1>2, <1>3, <2>1, Quotient
<1>8. RevenueInMonth(id, month) = (rate * Scale) * share
  BY <1>2, <1>5, <1>6, <1>7
<1> QED BY <1>2, <1>8 DEF rate, share

LEMMA CountedRentals ==
    ASSUME Settles, NEW v \in Vehicles, NEW month \in Months
    PROVE  /\ IsFiniteSet(Counted(v, month))
           /\ Counted(v, month) \subseteq Active
           /\ \A id \in Counted(v, month) : rentals[id].vehicle = v
<1>1. Counted(v, month) \subseteq 1 .. Len(rentals)
  BY DEF Settles, Counted, OverlappingRentals, Live, Ids
<1>2. IsFiniteSet(1 .. Len(rentals))
  BY FS_Interval, LenProperties DEF Settles
<1>3. IsFiniteSet(Counted(v, month))
  BY <1>1, <1>2, FS_Subset
<1> QED BY <1>3 DEF Counted, OverlappingRentals, Active

\* Rentals of one vehicle share no day.
LEMMA CountedApart ==
    ASSUME Settles, NEW v \in Vehicles, NEW month \in Months,
           NEW a \in Counted(v, month), NEW b \in Counted(v, month), a # b
    PROVE  DaysInMonth(a, month) \cap DaysInMonth(b, month) = {}
<1>1. /\ a \in Active /\ rentals[a].vehicle = v
      /\ b \in Active /\ rentals[b].vehicle = v
  BY CountedRentals
<1>2. /\ DaysInMonth(a, month) \subseteq Dates(rentals[a])
      /\ DaysInMonth(b, month) \subseteq Dates(rentals[b])
  BY <1>1, DaysAreDates DEF Active
<1>3. Keys(rentals[a]) \cap Keys(rentals[b]) = {}
  BY <1>1 DEF Settles, DatesApart
<1>4. ASSUME NEW d, d \in DaysInMonth(a, month), d \in DaysInMonth(b, month)
      PROVE  FALSE
  <2>1. <<v, d>> \in Keys(rentals[a]) /\ <<v, d>> \in Keys(rentals[b])
    BY <1>1, <1>2, <1>4 DEF Keys
  <2> QED BY <1>3, <2>1
<1> QED BY <1>4

\* The days that rentals cover are finitely many and, as no two share one,
\* their number is a sum.
LEMMA SharesAddUp ==
    ASSUME Settles, NEW v \in Vehicles, NEW month \in Months, NEW c \in Nat
    PROVE  SumsTo([id \in Counted(v, month) |->
                      c * Cardinality(DaysInMonth(id, month))],
                  Counted(v, month),
                  [s \in SUBSET Counted(v, month) |->
                      c * Cardinality(Covered(s, month))])
<1> DEFINE S == Counted(v, month)
           w == [id \in S |-> c * Cardinality(DaysInMonth(id, month))]
           T == [s \in SUBSET S |-> c * Cardinality(Covered(s, month))]
<1>1. \A id \in S : /\ IsFiniteSet(DaysInMonth(id, month))
                    /\ Cardinality(DaysInMonth(id, month)) \in Nat
                    /\ DaysInMonth(id, month) \subseteq month.first .. month.last
  BY CountedRentals, DaysAreDates DEF Active
<1>2. ASSUME NEW s \in SUBSET S
      PROVE  IsFiniteSet(Covered(s, month)) /\ Cardinality(Covered(s, month)) \in Nat
  <2>1. Covered(s, month) \in SUBSET (month.first .. month.last)
    BY <1>1 DEF Covered
  <2>2. IsFiniteSet(month.first .. month.last)
    BY MonthDays, FS_Interval
  <2> QED BY <2>1, <2>2, FS_Subset, FS_CardinalityType
<1>3. T[{}] = 0
  <2>1. Covered({}, month) = {}
    BY DEF Covered
  <2> QED BY <2>1, FS_EmptySet
<1>4. ASSUME NEW s \in SUBSET S, NEW x \in s
      PROVE  T[s] = w[x] + T[s \ {x}]
  <2> DEFINE D == DaysInMonth(x, month)
             R == Covered(s \ {x}, month)
  <2>1. Covered(s, month) = D \cup R
    BY DEF Covered
  <2>2. D \cap R = {}
    BY CountedApart DEF Covered
  <2>3. /\ IsFiniteSet(D) /\ Cardinality(D) \in Nat
        /\ IsFiniteSet(R) /\ Cardinality(R) \in Nat
    BY <1>1, <1>2
  <2>4. w[x] = c * Cardinality(D) /\ T[s \ {x}] = c * Cardinality(R)
    OBVIOUS
  <2>5. T[s] = c * Cardinality(D \cup R)
    BY <2>1
  <2> HIDE DEF D, R, T, w
  <2>6. Cardinality(D \cup R) = Cardinality(D) + Cardinality(R)
    <3>1. Cardinality(D \cup R) =
              Cardinality(D) + Cardinality(R) - Cardinality(D \cap R)
      BY <2>3, FS_Union
    <3>2. Cardinality(D \cap R) = 0
      BY <2>2, FS_EmptySet
    <3> QED BY <2>3, <3>1, <3>2
  <2> QED BY <2>3, <2>4, <2>5, <2>6
<1> QED BY <1>3, <1>4 DEF SumsTo

LEMMA ReservedAreCovered ==
    ASSUME Settles, NEW v \in Vehicles, NEW month \in Months
    PROVE  ReservedDays(v, month) = Covered(Counted(v, month), month)
<1>1. ASSUME NEW d \in ReservedDays(v, month)
      PROVE  d \in Covered(Counted(v, month), month)
  <2>1. d \in month.first .. month.last /\ <<v, d>> \in slots
    BY DEF ReservedDays
  <2>2. PICK id \in Active : <<v, d>> \in Keys(rentals[id])
    BY <2>1 DEF Settles
  <2>3. id \in Live /\ rentals[id].vehicle = v /\ d \in Dates(rentals[id])
    BY <2>2 DEF Keys, Active
  <2>4. d \in DaysInMonth(id, month)
    BY <2>1, <2>3, DaysAreDates
  <2>5. rentals[id].start <= month.last /\ rentals[id].end >= month.first
    BY <2>1, <2>3, LiveRow, MonthDays DEF Dates, Settles
  <2>6. id \in Counted(v, month)
    BY <2>2, <2>3, <2>4, <2>5 DEF Counted, OverlappingRentals, Active
  <2> QED BY <2>4, <2>6 DEF Covered
<1>2. ASSUME NEW d \in Covered(Counted(v, month), month)
      PROVE  d \in ReservedDays(v, month)
  <2>1. PICK id \in Counted(v, month) : d \in DaysInMonth(id, month)
    BY DEF Covered
  <2>2. id \in Active /\ id \in Live /\ rentals[id].vehicle = v
    BY CountedRentals DEF Active
  <2>3. d \in Dates(rentals[id]) /\ d \in month.first .. month.last
    BY <2>1, <2>2, DaysAreDates
  <2>4. <<v, d>> \in slots
    BY <2>2, <2>3 DEF Settles, Keys
  <2> QED BY <2>3, <2>4 DEF ReservedDays
<1> QED BY <1>1, <1>2

LEMMA ReservedCount ==
    ASSUME NEW v \in Vehicles, NEW month \in Months
    PROVE  /\ IsFiniteSet(ReservedDays(v, month))
           /\ Cardinality(ReservedDays(v, month)) \in Nat
           /\ Cardinality(slots \cap ({v} \X (month.first .. month.last))) =
                  Cardinality(ReservedDays(v, month))
<1> DEFINE R == ReservedDays(v, month)
           K == slots \cap ({v} \X (month.first .. month.last))
           f == [d \in R |-> <<v, d>>]
<1>1. IsFiniteSet(R) /\ Cardinality(R) \in Nat
  <2>1. R \in SUBSET (month.first .. month.last)
    BY DEF ReservedDays
  <2>2. IsFiniteSet(month.first .. month.last)
    BY MonthDays, FS_Interval
  <2> QED BY <2>1, <2>2, FS_Subset, FS_CardinalityType
<1>2. f \in [R -> K]
  BY DEF ReservedDays
<1>3. \A a, b \in R : f[a] = f[b] => a = b
  OBVIOUS
<1>4. ASSUME NEW k \in K
      PROVE  \E d \in R : f[d] = k
  <2>1. PICK d \in month.first .. month.last : k = <<v, d>>
    OBVIOUS
  <2> QED BY <2>1 DEF ReservedDays
<1>5. f \in Bijection(R, K)
  BY <1>2, <1>3, <1>4 DEF Bijection, Injection, Surjection, IsInjective
<1> HIDE DEF R, K, f
<1>6. Cardinality(K) = Cardinality(R)
  BY <1>1, <1>5, FS_Bijection DEF ExistsBijection
<1> QED BY <1>1, <1>6 DEF R, K

DaysReported(v, month) ==
    MapThenSumSet(LAMBDA id : Cardinality(DaysInMonth(id, month)),
                  Counted(v, month))

RevenueReported(v, month) ==
    MapThenSumSet(LAMBDA id : RevenueInMonth(id, month), Counted(v, month))

DayStep(S, month, iter) ==
    [s \in SUBSET S |->
        IF s = {} THEN 0
        ELSE Cardinality(DaysInMonth(CHOOSE x \in s : TRUE, month))
                 + iter[s \ {CHOOSE x \in s : TRUE}]]

DaySums(S, month) == CHOOSE f : f = DayStep(S, month, f)

LEMMA DaysAreFold ==
    ASSUME NEW v, NEW month
    PROVE  DaysReported(v, month) = DaySums(Counted(v, month), month)[Counted(v, month)]
BY DEF DaysReported, MapThenSumSet, MapThenFoldSet, DayStep, DaySums

LEMMA ReportedDays ==
    ASSUME Settles, NEW v \in Vehicles, NEW month \in Months
    PROVE  DaysReported(v, month) = Cardinality(ReservedDays(v, month))
<1> DEFINE S == Counted(v, month)
           w == [id \in S |-> 1 * Cardinality(DaysInMonth(id, month))]
           T == [s \in SUBSET S |-> 1 * Cardinality(Covered(s, month))]
<1>1. IsFiniteSet(S) /\ SumsTo(w, S, T) /\ T = [s \in SUBSET S |-> T[s]]
  BY CountedRentals, SharesAddUp
<1>2. ASSUME NEW f
      PROVE  DayStep(S, month, f) = SumStep(w, S, f)
  <2>1. \A s \in SUBSET S : s # {} =>
           w[CHOOSE x \in s : TRUE] =
               Cardinality(DaysInMonth(CHOOSE x \in s : TRUE, month))
    <3>1. \A id \in S : Cardinality(DaysInMonth(id, month)) \in Nat
      BY CountedRentals, DaysAreDates DEF Active
    <3>2. \A id \in S : w[id] = Cardinality(DaysInMonth(id, month))
      BY <3>1
    <3>3. \A s \in SUBSET S : s # {} => (CHOOSE x \in s : TRUE) \in S
      OBVIOUS
    <3> HIDE DEF w, S
    <3> QED BY <3>2, <3>3
  <2> HIDE DEF w, S
  <2> QED BY <2>1 DEF SumStep, DayStep
<1>3. DaySums(S, month) = T
  <2>1. \A f : f = SumStep(w, S, f) <=> f = T
    <3> HIDE DEF w, S, T
    <3> QED BY <1>1, SumIsUnique
  <2>2. \A f : f = DayStep(S, month, f) <=> f = T
    <3> HIDE DEF w, S, T
    <3> QED BY <1>2, <2>1
  <2> HIDE DEF w, S, T
  <2> QED BY <2>2 DEF DaySums
<1>4. T[S] = Cardinality(ReservedDays(v, month))
  <2>1. T[S] = 1 * Cardinality(Covered(S, month))
    OBVIOUS
  <2> HIDE DEF T, S
  <2>2. Covered(S, month) = ReservedDays(v, month)
    BY ReservedAreCovered DEF S
  <2>3. Cardinality(ReservedDays(v, month)) \in Nat
    BY ReservedCount
  <2> QED BY <2>1, <2>2, <2>3
<1> HIDE DEF w, T
<1>5. DaysReported(v, month) = DaySums(S, month)[S]
  BY DaysAreFold
<1> QED BY <1>3, <1>4, <1>5

RevenueStep(S, month, iter) ==
    [s \in SUBSET S |->
        IF s = {} THEN 0
        ELSE RevenueInMonth(CHOOSE x \in s : TRUE, month)
                 + iter[s \ {CHOOSE x \in s : TRUE}]]

RevenueSums(S, month) == CHOOSE f : f = RevenueStep(S, month, f)

LEMMA RevenueIsFold ==
    ASSUME NEW v, NEW month
    PROVE  RevenueReported(v, month) =
               RevenueSums(Counted(v, month), month)[Counted(v, month)]
BY DEF RevenueReported, MapThenSumSet, MapThenFoldSet, RevenueStep, RevenueSums

LEMMA ReportedRevenue ==
    ASSUME Settles, NEW v \in Vehicles, NEW month \in Months
    PROVE  RevenueReported(v, month) =
               (DailyRate[v] * Scale) * Cardinality(ReservedDays(v, month))
<1> DEFINE c == DailyRate[v] * Scale
           S == Counted(v, month)
           w == [id \in S |-> c * Cardinality(DaysInMonth(id, month))]
           T == [s \in SUBSET S |-> c * Cardinality(Covered(s, month))]
<1>0. c \in Nat
  BY RatesAreNumbers, Regrouped
<1>1. IsFiniteSet(S) /\ SumsTo(w, S, T) /\ T = [s \in SUBSET S |-> T[s]]
  BY <1>0, CountedRentals, SharesAddUp
<1>2. ASSUME NEW f
      PROVE  RevenueStep(S, month, f) = SumStep(w, S, f)
  <2>1. \A s \in SUBSET S : s # {} =>
           w[CHOOSE x \in s : TRUE] =
               RevenueInMonth(CHOOSE x \in s : TRUE, month)
    <3>1. \A id \in S : id \in Live /\ rentals[id].vehicle = v
      BY CountedRentals DEF Active
    <3>2. \A id \in S : w[id] = RevenueInMonth(id, month)
      BY <3>1, ShareIsRate
    <3>3. \A s \in SUBSET S : s # {} => (CHOOSE x \in s : TRUE) \in S
      OBVIOUS
    <3> HIDE DEF w, S
    <3> QED BY <3>2, <3>3
  <2> HIDE DEF w, S
  <2> QED BY <2>1 DEF SumStep, RevenueStep
<1>3. RevenueSums(S, month) = T
  <2>1. \A f : f = SumStep(w, S, f) <=> f = T
    <3> HIDE DEF w, S, T
    <3> QED BY <1>1, SumIsUnique
  <2>2. \A f : f = RevenueStep(S, month, f) <=> f = T
    <3> HIDE DEF w, S, T
    <3> QED BY <1>2, <2>1
  <2> HIDE DEF w, S, T
  <2> QED BY <2>2 DEF RevenueSums
<1>4. T[S] = c * Cardinality(ReservedDays(v, month))
  <2>1. T[S] = c * Cardinality(Covered(S, month))
    OBVIOUS
  <2> HIDE DEF T, S
  <2>2. Covered(S, month) = ReservedDays(v, month)
    BY ReservedAreCovered DEF S
  <2> QED BY <2>1, <2>2, ReservedCount
<1> HIDE DEF w, T
<1>5. RevenueReported(v, month) = RevenueSums(S, month)[S]
  BY RevenueIsFold
<1> QED BY <1>3, <1>4, <1>5

\* An amount without a fraction of a cent is not changed by rounding.
LEMMA RoundedWhole ==
    ASSUME NEW n \in Nat, NEW a \in Nat
    PROVE  Rounded(a * Scale * n) = a * n
<1>1. Scale \in Nat \ {0} /\ a * n \in Nat
  BY RatesAreNumbers, Regrouped
<1>2. a * Scale * n = (a * n) * Scale
  <2>1. a * Scale * n = a * (Scale * n)
    BY <1>1, Regrouped
  <2>2. a * (Scale * n) = a * (n * Scale)
    BY <1>1, Regrouped
  <2>3. a * (n * Scale) = (a * n) * Scale
    BY <1>1, Regrouped
  <2> QED BY <2>1, <2>2, <2>3
<1>3. \A m \in Nat : \A k \in Nat \ {0} : (2 * (m * k) + k) \div (2 * k) = m
  OBVIOUS
<1> QED BY <1>1, <1>2, <1>3 DEF Rounded

\* What the report says of a vehicle and a month.
LEMMA ReportEntry ==
    ASSUME Settles, NEW v \in Vehicles, NEW month \in Months
    PROVE  LET reserved == slots \cap ({v} \X (month.first .. month.last))
           IN  /\ Cardinality(reserved) \in Nat
               /\ Report(Vehicles, month)[v].days = Cardinality(reserved)
               /\ Report(Vehicles, month)[v].revenue =
                      DailyRate[v] * Cardinality(reserved)
<1> DEFINE n == Cardinality(ReservedDays(v, month))
<1>1. /\ n \in Nat
      /\ Cardinality(slots \cap ({v} \X (month.first .. month.last))) = n
  BY ReservedCount
<1>2. Report(Vehicles, month)[v].days = DaysReported(v, month)
  BY DEF Report, DaysReported, Counted, MapThenSumSet, MapThenFoldSet
<1>3. Report(Vehicles, month)[v].revenue = Rounded(RevenueReported(v, month))
  BY DEF Report, RevenueReported, Counted, MapThenSumSet, MapThenFoldSet
<1>4. DaysReported(v, month) = n
  BY ReportedDays
<1>5. RevenueReported(v, month) = DailyRate[v] * Scale * n
  BY ReportedRevenue
<1>6. DailyRate[v] \in Nat
  BY RatesAreNumbers
<1> HIDE DEF n
<1>7. Rounded(RevenueReported(v, month)) = DailyRate[v] * n
  BY <1>1, <1>5, <1>6, RoundedWhole
<1> QED BY <1>1, <1>2, <1>3, <1>4, <1>7

\* There is a vehicle of the highest revenue unless none has any.
LEMMA SomeoneEarnsMost ==
    ASSUME Settles, NEW month \in Months
    PROVE  HighestRevenueVehicle(Report(Vehicles, month)) = 0 <=>
               \A v \in Vehicles : Report(Vehicles, month)[v].days = 0
<1> DEFINE report == Report(Vehicles, month)
           earners == {v \in Vehicles : report[v].revenue > 0}
           best == {v \in DOMAIN report :
                       /\ report[v].revenue > 0
                       /\ \A u \in DOMAIN report :
                             \/ report[u].revenue < report[v].revenue
                             \/ report[u].revenue = report[v].revenue /\ u >= v}
<1>1. DOMAIN report = Vehicles /\ Vehicles \subseteq Nat \ {0}
  BY RatesAreNumbers DEF Report
<1>2. \A v \in Vehicles : /\ report[v].revenue \in Nat /\ report[v].days \in Nat
                          /\ report[v].revenue = 0 <=> report[v].days = 0
  <2> SUFFICES ASSUME NEW v \in Vehicles
               PROVE  /\ report[v].revenue \in Nat /\ report[v].days \in Nat
                      /\ report[v].revenue = 0 <=> report[v].days = 0
    OBVIOUS
  <2>1. DailyRate[v] \in Nat \ {0}
    BY RatesAreNumbers
  <2>2. report[v].days \in Nat /\ report[v].revenue = DailyRate[v] * report[v].days
    BY ReportEntry
  <2>3. \A a \in Nat \ {0} : \A n \in Nat : a * n \in Nat /\ (a * n = 0 <=> n = 0)
    OBVIOUS
  <2> HIDE DEF report
  <2> QED BY <2>1, <2>2, <2>3
<1>3. IsFiniteSet(earners)
  <2> DEFINE rented == {rentals[id].vehicle : id \in Live}
             f == [id \in Live |-> rentals[id].vehicle]
  <2>1. IsFiniteSet(Live)
    <3>1. Live \subseteq 1 .. Len(rentals)
      BY DEF Settles, Live, Ids
    <3>2. IsFiniteSet(1 .. Len(rentals))
      BY FS_Interval, LenProperties DEF Settles
    <3> QED BY <3>1, <3>2, FS_Subset
  <2>2. IsFiniteSet(rented)
    <3>1. f \in Surjection(Live, rented)
      BY DEF Surjection
    <3> HIDE DEF f, rented
    <3> QED BY <2>1, <3>1, FS_Surjection
  <2>3. ASSUME NEW v \in earners, v \notin rented
        PROVE  FALSE
    <3>1. Counted(v, month) = {}
      BY <2>3, CountedRentals DEF Active
    <3>2. ReservedDays(v, month) = {}
      BY <3>1, ReservedAreCovered DEF Covered
    <3>3. report[v].days = 0
      <4>1. v \in Vehicles
        OBVIOUS
      <4>2. report[v].days =
                Cardinality(slots \cap ({v} \X (month.first .. month.last)))
        BY <4>1, ReportEntry
      <4>3. Cardinality(ReservedDays(v, month)) = 0
        BY <3>2, FS_EmptySet
      <4> QED BY <4>1, <4>2, <4>3, ReservedCount
    <3>4. report[v].revenue \in Nat /\ report[v].revenue > 0 /\ v \in Vehicles
      BY <1>2
    <3> HIDE DEF report
    <3> QED BY <1>2, <3>3, <3>4
  <2>4. earners \in SUBSET rented
    BY <2>3
  <2> QED BY <2>2, <2>4, FS_Subset
<1>4. HighestRevenueVehicle(report) = IF best = {} THEN 0 ELSE CHOOSE v \in best : TRUE
  BY DEF HighestRevenueVehicle
<1> HIDE DEF report
<1>5. earners = {} => best = {}
  BY <1>1
<1>6. ASSUME earners # {}
      PROVE  best # {}
  <2> DEFINE revenues == {report[v].revenue : v \in earners}
  <2>1. revenues \in SUBSET Nat /\ revenues # {}
    BY <1>2, <1>6
  <2>2. IsFiniteSet(revenues)
    <3> DEFINE f == [v \in earners |-> report[v].revenue]
    <3>1. f \in Surjection(earners, revenues)
      BY DEF Surjection
    <3> HIDE DEF f, earners, revenues
    <3> QED BY <1>3, <3>1, FS_Surjection
  <2>3. PICK top \in revenues : \A r \in revenues : r <= top
    <3> HIDE DEF revenues
    <3> QED BY <2>1, <2>2, GreatestNumber
  <2> DEFINE leaders == {v \in earners : report[v].revenue = top}
  <2>4. leaders \in SUBSET Nat /\ leaders # {}
    BY <1>1
  <2>5. PICK v \in leaders : \A u \in leaders : v <= u
    BY <2>4, LeastNumber
  <2>6. ASSUME NEW u \in Vehicles
        PROVE  \/ report[u].revenue < report[v].revenue
               \/ report[u].revenue = report[v].revenue /\ u >= v
    <3>1. report[u].revenue \in Nat /\ top \in Nat /\ top > 0 /\ u \in Nat /\ v \in Nat
      BY <1>1, <1>2, <2>1
    <3>2. report[u].revenue > 0 => report[u].revenue <= top
      BY <2>3
    <3>3. report[u].revenue = top => v <= u
      BY <2>5, <3>1
    <3> QED BY <3>1, <3>2, <3>3
  <2>7. v \in best
    BY <1>1, <2>6
  <2> QED BY <2>7
<1>7. best # {} => (CHOOSE v \in best : TRUE) # 0
  <2>1. best \subseteq Nat \ {0}
    BY <1>1
  <2> HIDE DEF best
  <2> QED BY <2>1
<1>8. earners = {} <=> \A v \in Vehicles : report[v].days = 0
  BY <1>2
<1> HIDE DEF best, earners
<1>9. HighestRevenueVehicle(report) = 0 <=> \A v \in Vehicles : report[v].days = 0
  BY <1>4, <1>5, <1>6, <1>7, <1>8
<1> QED BY <1>9 DEF report

\* The monthly report, which is computed from the rentals table, and the
\* calendar of reserved dates in Redis agree at rest, after any number of
\* bookings, changes, refusals, cancellations and deletions of a regular run, in
\* a zone that is not ahead of UTC: in each month a vehicle was rented on exactly
\* its reserved days and earned its rate for each, whatever the length of the
\* months and of the rentals across their ends.
THEOREM ReportIsRight == Spec => []ReportMatchesSlots
<1>1. ASSUME StaffInv, Regular, AtRest, ~East
      PROVE  Settles
  <2>1. slots = UNION {Keys(rentals[id]) : id \in Active}
    BY <1>1, RestMatches
  <2>2. \A id \in Live :
           /\ rentals[id].start <= rentals[id].end
           /\ rentals[id].billed = Cardinality(Dates(rentals[id]))
    <3> SUFFICES ASSUME NEW id \in Live
                 PROVE  /\ rentals[id].start <= rentals[id].end
                        /\ rentals[id].billed = Cardinality(Dates(rentals[id]))
      OBVIOUS
    <3>1. rentals[id].start <= rentals[id].end
      BY <1>1 DEF StaffInv, RegularInv, RowsForward
    <3>2. BilledRight(rentals[id])
      BY <1>1 DEF StaffInv, AloneInv, Regular
    <3>3. rentals[id].start \in Nat /\ rentals[id].end \in Nat
      BY <1>1, LiveRow DEF StaffInv, StaffTyped, TypeOK
    <3> QED BY <3>1, <3>2, <3>3 DEF BilledRight
  <2> QED BY <1>1, <2>1, <2>2
          DEF Settles, StaffInv, StaffTyped, TypeOK, RegularInv
<1>2. StaffInv => ReportMatchesSlots
  BY <1>1, ReportEntry, SomeoneEarnsMost DEF ReportMatchesSlots
<1> QED BY <1>2, StaffInvariant, PTL
-----------------------------------------------------------------------------
(***************************************************************************)
(* The pages of the list.                                                  *)
(***************************************************************************)
\* In a finite set there are fewer above a greater number,
LEMMA AboveShrinks ==
    ASSUME NEW S \in SUBSET Nat, IsFiniteSet(S), NEW x \in S
    PROVE  /\ IsFiniteSet(Above(S, x)) /\ Cardinality(Above(S, x)) \in Nat
           /\ Cardinality(Above(S, x)) < Cardinality(S)
           /\ \A y \in S : y > x =>
                  Cardinality(Above(S, y)) < Cardinality(Above(S, x))
<1>1. \A z \in S : IsFiniteSet(Above(S, z)) /\ Cardinality(Above(S, z)) \in Nat
  <2> TAKE z \in S
  <2>1. Above(S, z) \in SUBSET S
    BY DEF Above
  <2> QED BY <2>1, FS_Subset, FS_CardinalityType
<1>2. Cardinality(Above(S, x)) < Cardinality(S)
  <2>1. Above(S, x) \in SUBSET S /\ Above(S, x) # S
    BY DEF Above
  <2>2. /\ Cardinality(Above(S, x)) <= Cardinality(S)
        /\ Cardinality(Above(S, x)) # Cardinality(S)
    BY <2>1, FS_Subset
  <2>3. Cardinality(S) \in Nat
    BY FS_CardinalityType
  <2> QED BY <1>1, <2>2, <2>3
<1>3. ASSUME NEW y \in S, y > x
      PROVE  Cardinality(Above(S, y)) < Cardinality(Above(S, x))
  <2>1. Above(S, y) \in SUBSET Above(S, x)
    <3>1. \A z \in S : z > y => z > x
      BY <1>3
    <3> QED BY <3>1 DEF Above
  <2>2. y \in Above(S, x) /\ y \notin Above(S, y)
    BY <1>3 DEF Above
  <2>3. /\ Cardinality(Above(S, y)) <= Cardinality(Above(S, x))
        /\ Cardinality(Above(S, y)) # Cardinality(Above(S, x))
    BY <1>1, <2>1, <2>2, FS_Subset
  <2> QED BY <1>1, <2>3
<1> QED BY <1>1, <1>2, <1>3

\* so that each rank belongs to exactly one number.
LEMMA DescendingRanks ==
    ASSUME NEW S \in SUBSET Nat, IsFiniteSet(S)
    PROVE  /\ Cardinality(S) \in Nat
           /\ DOMAIN Descending(S) = 1 .. Cardinality(S)
           /\ \A i \in 1 .. Cardinality(S) :
                  /\ Descending(S)[i] \in S
                  /\ Cardinality(Above(S, Descending(S)[i])) = i - 1
           /\ \A x \in S :
                  /\ Cardinality(Above(S, x)) + 1 \in 1 .. Cardinality(S)
                  /\ Descending(S)[Cardinality(Above(S, x)) + 1] = x
<1> DEFINE n == Cardinality(S)
           rank(x) == Cardinality(Above(S, x))
           f == [x \in S |-> rank(x) + 1]
<1>1. n \in Nat
  BY FS_CardinalityType
<1>2. \A x \in S : rank(x) \in Nat /\ rank(x) + 1 \in 1 .. n
  <2> TAKE x \in S
  <2>1. rank(x) \in Nat /\ rank(x) < n
    BY AboveShrinks
  <2> HIDE DEF rank, n
  <2> QED BY <1>1, <2>1
<1>3. \A x, y \in S : rank(x) = rank(y) => x = y
  <2> TAKE x, y \in S
  <2>1. x > y => rank(x) < rank(y)
    BY AboveShrinks
  <2>2. y > x => rank(y) < rank(x)
    BY AboveShrinks
  <2>3. x \in Nat /\ y \in Nat /\ rank(x) \in Nat /\ rank(y) \in Nat
    BY <1>2
  <2> HIDE DEF rank
  <2> QED BY <2>1, <2>2, <2>3
<1>4. \A i \in 1 .. n : \E x \in S : rank(x) = i - 1
  <2>1. f \in [S -> 1 .. n]
    BY <1>2
  <2>2. \A x, y \in S : f[x] = f[y] => x = y
    <3> HIDE DEF rank
    <3> QED BY <1>2, <1>3
  <2>3. f \in Injection(S, 1 .. n)
    BY <2>1, <2>2 DEF Injection, IsInjective
  <2>4. IsFiniteSet(1 .. n) /\ Cardinality(1 .. n) = n
    BY <1>1, FS_Interval
  <2>5. f \in Surjection(S, 1 .. n)
    <3> HIDE DEF f
    <3> QED BY <2>3, <2>4, FS_Injection
  <2>6. \A i \in 1 .. n : \E x \in S : f[x] = i
    BY <2>5 DEF Surjection
  <2> HIDE DEF rank, n
  <2> QED BY <1>2, <2>6
<1>5. \A i \in 1 .. n : /\ Descending(S)[i] \in S
                        /\ rank(Descending(S)[i]) = i - 1
  <2> TAKE i \in 1 .. n
  <2>1. Descending(S)[i] = CHOOSE x \in S : rank(x) = i - 1
    BY DEF Descending
  <2> HIDE DEF rank, n
  <2> QED BY <1>4, <2>1
<1>6. \A x \in S : Descending(S)[rank(x) + 1] = x
  <2> TAKE x \in S
  <2>1. rank(x) + 1 \in 1 .. n /\ (rank(x) + 1) - 1 = rank(x)
    BY <1>2
  <2> HIDE DEF rank, n
  <2> QED BY <1>3, <1>5, <2>1
<1>7. DOMAIN Descending(S) = 1 .. n
  BY DEF Descending
<1> QED BY <1>1, <1>2, <1>5, <1>6, <1>7

LEMMA DescendingIsSeq ==
    ASSUME NEW S \in SUBSET Nat, IsFiniteSet(S)
    PROVE  /\ Descending(S) \in Seq(S)
           /\ Len(Descending(S)) = Cardinality(S)
<1>1. /\ Cardinality(S) \in Nat /\ DOMAIN Descending(S) = 1 .. Cardinality(S)
      /\ \A i \in 1 .. Cardinality(S) : Descending(S)[i] \in S
  BY DescendingRanks
<1>2. Descending(S) = [i \in 1 .. Cardinality(S) |-> Descending(S)[i]]
  BY DEF Descending
<1> QED BY <1>1, <1>2

Under(S, c) == {x \in S : x < c}

\* What is below the p-th are the rest, in the same order.
LEMMA UnderRanks ==
    ASSUME NEW S \in SUBSET Nat, IsFiniteSet(S), NEW p \in 1 .. Cardinality(S)
    PROVE  LET R == Under(S, Descending(S)[p])
           IN  /\ R \in SUBSET Nat /\ IsFiniteSet(R)
               /\ Cardinality(R) = Cardinality(S) - p
               /\ \A j \in 1 .. Cardinality(R) :
                      Descending(R)[j] = Descending(S)[p + j]
<1> DEFINE n == Cardinality(S)
           c == Descending(S)[p]
           R == Under(S, c)
           A == Above(S, c)
<1>1. n \in Nat /\ p \in Nat /\ c \in S /\ Cardinality(A) = p - 1
  <2>1. n \in Nat
    BY FS_CardinalityType
  <2> QED BY <2>1, DescendingRanks
<1>2. /\ IsFiniteSet(A)
      /\ R \in SUBSET Nat /\ IsFiniteSet(R) /\ Cardinality(R) \in Nat
  <2>1. A \in SUBSET S /\ R \in SUBSET S
    BY DEF Above, Under
  <2> QED BY <2>1, FS_Subset, FS_CardinalityType
<1> HIDE DEF c
<1>3. ASSUME NEW T, IsFiniteSet(T), Cardinality(T) \in Nat, T \subseteq R
      PROVE  Cardinality((A \cup {c}) \cup T) = p + Cardinality(T)
  <2>1. IsFiniteSet(A \cup {c}) /\ Cardinality(A \cup {c}) = p
    <3>1. c \notin A
      BY <1>1 DEF Above
    <3> HIDE DEF A
    <3>2. /\ IsFiniteSet(A \cup {c})
          /\ Cardinality(A \cup {c}) = Cardinality(A) + 1
      BY <1>2, <3>1, FS_AddElement
    <3> QED BY <1>1, <3>2
  <2>2. (A \cup {c}) \cap T = {}
    <3>1. \A y \in T : y \in Nat /\ y < c
      BY <1>1, <1>3 DEF Under
    <3>2. \A y \in A : y \in Nat /\ y > c
      BY <1>1 DEF Above
    <3>3. c \in Nat
      BY <1>1
    <3> HIDE DEF A
    <3> QED BY <3>1, <3>2, <3>3
  <2> HIDE DEF A, R
  <2>3. Cardinality((A \cup {c}) \cup T) =
            Cardinality(A \cup {c}) + Cardinality(T) - Cardinality((A \cup {c}) \cap T)
    BY <1>3, <2>1, FS_Union
  <2>4. Cardinality((A \cup {c}) \cap T) = 0
    BY <2>2, FS_EmptySet
  <2> QED BY <1>1, <1>3, <2>1, <2>3, <2>4
<1>4. Cardinality(R) = n - p
  <2>1. S = (A \cup {c}) \cup R
    <3>1. \A y \in S : y > c \/ y = c \/ y < c
      BY <1>1
    <3>2. \A y : y \in S <=> (y \in A \/ y = c \/ y \in R)
      BY <1>1, <3>1 DEF Above, Under
    <3> HIDE DEF A, R
    <3> QED BY <3>2
  <2>2. n = Cardinality((A \cup {c}) \cup R)
    BY <2>1
  <2> HIDE DEF A, R, n
  <2> QED BY <1>1, <1>2, <1>3, <2>2
<1>5. ASSUME NEW j \in 1 .. Cardinality(R)
      PROVE  Descending(R)[j] = Descending(S)[p + j]
  <2> DEFINE x == Descending(R)[j]
  <2>1. x \in R /\ Cardinality(Above(R, x)) = j - 1
    <3> HIDE DEF R
    <3> QED BY <1>2, DescendingRanks
  <2>2. x \in S /\ x < c /\ x \in Nat /\ c \in Nat
    BY <1>1, <2>1 DEF Under
  <2> HIDE DEF x
  <2>3. Above(S, x) = (A \cup {c}) \cup Above(R, x)
    <3>1. \A y \in S : y > x <=> y > c \/ y = c \/ (y < c /\ y > x)
      BY <2>2
    <3>2. \A y : y \in Above(S, x) <=> y \in A \/ y = c \/ y \in Above(R, x)
      BY <1>1, <2>2, <3>1 DEF Above, Under
    <3> HIDE DEF A, R
    <3> QED BY <3>2
  <2>4. /\ IsFiniteSet(Above(R, x)) /\ Cardinality(Above(R, x)) \in Nat
        /\ Above(R, x) \subseteq R
    <3>1. Above(R, x) \subseteq R
      BY DEF Above
    <3> HIDE DEF R
    <3> QED BY <1>2, <2>1, <3>1, AboveShrinks
  <2>5. Cardinality(Above(S, x)) = p + (j - 1)
    <3> HIDE DEF A, R
    <3> QED BY <1>3, <2>1, <2>3, <2>4
  <2>6. Descending(S)[Cardinality(Above(S, x)) + 1] = x
    BY <2>2, DescendingRanks
  <2>7. Cardinality(Above(S, x)) + 1 = p + j
    <3>1. j \in Int
      BY <1>2
    <3> QED BY <1>1, <2>5, <3>1
  <2> QED BY <2>6, <2>7 DEF x
<1> QED BY <1>2, <1>4, <1>5 DEF c

LEMMA PageAndRest ==
    ASSUME NEW S \in SUBSET Nat, IsFiniteSet(S), NEW p \in 1 .. Cardinality(S)
    PROVE  Descending(S) =
               SubSeq(Descending(S), 1, p) \o Descending(Under(S, Descending(S)[p]))
<1> DEFINE n == Cardinality(S)
           D == Descending(S)
           R == Under(S, Descending(S)[p])
           E == Descending(R)
           P == SubSeq(D, 1, p)
<1>1. n \in Nat /\ D \in Seq(S) /\ Len(D) = n
  BY FS_CardinalityType, DescendingIsSeq
<1>2. /\ R \in SUBSET Nat /\ IsFiniteSet(R) /\ Cardinality(R) = n - p
      /\ \A j \in 1 .. Cardinality(R) : E[j] = D[p + j]
  BY UnderRanks
<1>3. E \in Seq(S) /\ Len(E) = n - p
  <2>1. E \in Seq(R) /\ Len(E) = Cardinality(R)
    <3> HIDE DEF R
    <3> QED BY <1>2, DescendingIsSeq
  <2>2. R \subseteq S
    BY DEF Under
  <2> HIDE DEF R, E
  <2> QED BY <1>2, <2>1, <2>2, SeqMonotonic
<1> HIDE DEF D, R, E, n
<1>4. p \in Nat /\ 1 <= p /\ p <= n
  BY <1>1 DEF n
<1>5. /\ P \in Seq(S) /\ Len(P) = p
      /\ \A i \in 1 .. p : P[i] = D[i]
  <2>1. \A i \in 1 .. p : D[i] \in S
    BY <1>1, <1>4, ElementOfSeq
  <2> QED BY <1>4, <2>1, SubSeqProperties
<1> HIDE DEF P
<1>6. /\ P \o E \in Seq(S) /\ Len(P \o E) = n
      /\ \A i \in 1 .. n : (P \o E)[i] = IF i <= p THEN P[i] ELSE E[i - p]
  <2>1. /\ P \o E \in Seq(S) /\ Len(P \o E) = Len(P) + Len(E)
        /\ \A i \in 1 .. Len(P) + Len(E) :
               (P \o E)[i] = IF i <= Len(P) THEN P[i] ELSE E[i - Len(P)]
    BY <1>3, <1>5, ConcatProperties
  <2>2. Len(P) + Len(E) = n
    BY <1>1, <1>3, <1>4, <1>5
  <2> QED BY <1>5, <2>1, <2>2
<1>7. \A i \in 1 .. n : D[i] = (P \o E)[i]
  <2> TAKE i \in 1 .. n
  <2>1. CASE i <= p
    BY <1>1, <1>4, <1>5, <1>6, <2>1
  <2>2. CASE i > p
    <3>1. i - p \in 1 .. (n - p) /\ p + (i - p) = i /\ ~(i <= p)
      BY <1>1, <1>4, <2>2
    <3>2. E[i - p] = D[i]
      BY <1>2, <3>1
    <3>3. (P \o E)[i] = E[i - p]
      BY <1>6, <3>1
    <3> QED BY <3>2, <3>3
  <2>3. i \in Int /\ p \in Int
    BY <1>1, <1>4
  <2>4. i <= p \/ i > p
    BY <2>3
  <2> QED BY <2>1, <2>2, <2>4
<1>8. D = P \o E
  BY <1>1, <1>6, <1>7, SeqEqual
<1> QED BY <1>8 DEF D, E, P, R

LEMMA FirstOfSeq ==
    ASSUME NEW S, NEW s \in Seq(S), NEW n \in Nat
    PROVE  /\ n >= Len(s) => FirstOf(s, n) = s
           /\ n <= Len(s) => /\ FirstOf(s, n) = SubSeq(s, 1, n)
                             /\ FirstOf(s, n) \in Seq(S)
                             /\ Len(FirstOf(s, n)) = n
                             /\ \A i \in 1 .. n : FirstOf(s, n)[i] = s[i]
<1>1. Len(s) \in Nat
  BY LenProperties
<1>2. ASSUME n >= Len(s)
      PROVE  FirstOf(s, n) = s
  <2>1. Earlier(n, Len(s)) = Len(s)
    BY <1>1, <1>2 DEF Earlier
  <2> QED BY <2>1, SubSeqFull DEF FirstOf
<1>3. ASSUME n <= Len(s)
      PROVE  /\ FirstOf(s, n) = SubSeq(s, 1, n)
             /\ FirstOf(s, n) \in Seq(S)
             /\ Len(FirstOf(s, n)) = n
             /\ \A i \in 1 .. n : FirstOf(s, n)[i] = s[i]
  <2>1. Earlier(n, Len(s)) = n
    BY <1>1, <1>3 DEF Earlier
  <2>2. \A i \in 1 .. n : s[i] \in S
    BY <1>1, <1>3, ElementOfSeq
  <2>3. /\ SubSeq(s, 1, n) \in Seq(S)
        /\ Len(SubSeq(s, 1, n)) = n
        /\ \A i \in 1 .. n : SubSeq(s, 1, n)[i] = s[i]
    BY <2>2, SubSeqProperties
  <2> QED BY <2>1, <2>3 DEF FirstOf
<1> QED BY <1>2, <1>3

\* A page is the beginning of what there is, and its cursor leads to the rest.
LEMMA OnePage ==
    ASSUME NEW S \in SUBSET (Nat \ {0}), IsFiniteSet(S),
           NEW rows, rows = FirstOf(Descending(S), PageSize + 1),
           NEW next, next = NextCursor(rows)
    PROVE  /\ next \in S \cup {0}
           /\ Descending(S) =
                  FirstOf(rows, PageSize) \o
                      (IF next = 0 THEN <<>> ELSE Descending(Under(S, next)))
<1> DEFINE n == Cardinality(S)
           D == Descending(S)
           p == PageSize
<1>0. rows = FirstOf(D, p + 1)
  OBVIOUS
<1>1. /\ S \in SUBSET Nat /\ n \in Nat /\ D \in Seq(S) /\ Len(D) = n
      /\ p \in Nat \ {0}
  BY FS_CardinalityType, DescendingIsSeq, ReportAssumption
<1> HIDE DEF D, n, p
<1>2. CASE n <= p
  <2>1. rows = D
    BY <1>0, <1>1, <1>2, FirstOfSeq
  <2>2. FirstOf(D, p) = D
    BY <1>1, <1>2, FirstOfSeq
  <2>3. NextCursor(D) = 0
    BY <1>1, <1>2 DEF NextCursor, p
  <2>4. D = D \o <<>>
    BY <1>1, ConcatEmptySeq
  <2> QED BY <2>1, <2>2, <2>3, <2>4 DEF D, p
<1>3. CASE n > p
  <2>1. /\ rows \in Seq(S) /\ Len(rows) = p + 1
        /\ \A i \in 1 .. p + 1 : rows[i] = D[i]
    <3>1. p + 1 \in Nat /\ p + 1 <= Len(D)
      BY <1>1, <1>3
    <3> QED BY <1>0, <1>1, <3>1, FirstOfSeq
  <2>2. next = D[p]
    <3>1. Len(rows) > p /\ p \in 1 .. p + 1
      BY <1>1, <2>1
    <3>2. next = rows[p]
      BY <3>1 DEF NextCursor, p
    <3> QED BY <2>1, <3>1, <3>2
  <2>3. FirstOf(rows, p) = SubSeq(D, 1, p)
    <3>1. p \in Nat /\ p <= Len(rows) /\ p <= Len(D)
      BY <1>1, <1>3, <2>1
    <3>2. /\ FirstOf(rows, p) \in Seq(S) /\ Len(FirstOf(rows, p)) = p
          /\ \A i \in 1 .. p : FirstOf(rows, p)[i] = rows[i]
      BY <2>1, <3>1, FirstOfSeq
    <3>3. /\ FirstOf(D, p) = SubSeq(D, 1, p)
          /\ FirstOf(D, p) \in Seq(S) /\ Len(FirstOf(D, p)) = p
          /\ \A i \in 1 .. p : FirstOf(D, p)[i] = D[i]
      BY <1>1, <3>1, FirstOfSeq
    <3>4. \A i \in 1 .. p : FirstOf(rows, p)[i] = FirstOf(D, p)[i]
      BY <2>1, <3>1, <3>2, <3>3
    <3>5. FirstOf(rows, p) = FirstOf(D, p)
      BY <3>2, <3>3, <3>4, SeqEqual
    <3> QED BY <3>3, <3>5
  <2>4. p \in 1 .. n
    BY <1>1, <1>3
  <2>5. D[p] \in S
    BY <1>1, <2>4, ElementOfSeq
  <2>6. D = SubSeq(D, 1, p) \o Descending(Under(S, D[p]))
    BY <1>1, <2>4, PageAndRest DEF D, n
  <2>7. next \in S /\ next # 0
    BY <2>2, <2>5
  <2>8. D = FirstOf(rows, p) \o Descending(Under(S, next))
    BY <2>2, <2>3, <2>6
  <2> QED BY <2>7, <2>8 DEF D, p
<1>4. n <= p \/ n > p
  BY <1>1
<1> QED BY <1>2, <1>3, <1>4

\* What the list holds from a cursor on.
Rest(f, c) == {id \in Matching(f) : c # 0 => id < c}

PageFrom(f, from, c) ==
    LET rows == Fetched(f, c)
    IN  FirstOf(rows, PageSize) \o
        (IF NextCursor(rows) = 0 THEN <<>> ELSE from[NextCursor(rows)])

PagesFrom(f, from) == [c \in 0 .. Len(rentals) |-> PageFrom(f, from, c)]

Pages(f) == CHOOSE from : from = PagesFrom(f, from)

LEMMA ListingIsPages ==
    ASSUME NEW f
    PROVE  Listing(f) = Pages(f)[0]
BY DEF Listing, Pages, PagesFrom, PageFrom

\* One page and the rest behind its cursor, which has come closer to the end.
LEMMA NextPage ==
    ASSUME rentals \in Seq(Rows \cup {Deleted}), NEW f,
           NEW c \in 0 .. Len(rentals),
           NEW next, next = NextCursor(Fetched(f, c))
    PROVE  /\ next \in 0 .. Len(rentals)
           /\ next # 0 /\ c # 0 => next < c
           /\ Descending(Rest(f, c)) =
                  FirstOf(Fetched(f, c), PageSize) \o
                      (IF next = 0 THEN <<>> ELSE Descending(Rest(f, next)))
<1>1. Len(rentals) \in Nat
  BY LenProperties
<1>2. Rest(f, c) \subseteq 1 .. Len(rentals)
  BY DEF Rest, Matching, Live, Ids
<1>3. IsFiniteSet(1 .. Len(rentals))
  BY <1>1, FS_Interval
<1>4. Rest(f, c) \in SUBSET (Nat \ {0}) /\ IsFiniteSet(Rest(f, c))
  BY <1>1, <1>2, <1>3, FS_Subset
<1>5. Fetched(f, c) = FirstOf(Descending(Rest(f, c)), PageSize + 1)
  BY DEF Fetched, Rest
<1>6. /\ next \in Rest(f, c) \cup {0}
      /\ Descending(Rest(f, c)) =
             FirstOf(Fetched(f, c), PageSize) \o
                 (IF next = 0 THEN <<>> ELSE Descending(Under(Rest(f, c), next)))
  BY <1>4, <1>5, OnePage
<1>7. ASSUME next # 0
      PROVE  Under(Rest(f, c), next) = Rest(f, next) /\ (c # 0 => next < c)
  <2>1. next \in Nat /\ c \in Nat /\ (c # 0 => next < c)
    BY <1>1, <1>4, <1>6, <1>7 DEF Rest
  <2>2. Matching(f) \subseteq Nat
    BY <1>1 DEF Matching, Live, Ids
  <2>3. \A id \in Matching(f) : id < next => (c # 0 => id < c)
    BY <2>1, <2>2
  <2> QED BY <1>7, <2>1, <2>3 DEF Under, Rest
<1>8. next \in 0 .. Len(rentals)
  BY <1>1, <1>2, <1>6
<1> QED BY <1>6, <1>7, <1>8

\* The pages are determined by what they step through: were they not, then
\* not at a cursor that is closest to the end.
LEMMA PagesAreRest ==
    ASSUME rentals \in Seq(Rows \cup {Deleted}), NEW f
    PROVE  Listing(f) = Descending(Matching(f))
<1> DEFINE N == Len(rentals)
           F == [c \in 0 .. N |-> Descending(Rest(f, c))]
           Left(c) == IF c = 0 THEN N + 1 ELSE c
<1>1. N \in Nat
  BY LenProperties
<1>2. F = PagesFrom(f, F)
  <2>1. ASSUME NEW c \in 0 .. N
        PROVE  Descending(Rest(f, c)) = PageFrom(f, F, c)
    <3> DEFINE next == NextCursor(Fetched(f, c))
    <3>1. /\ next \in 0 .. N
          /\ Descending(Rest(f, c)) =
                 FirstOf(Fetched(f, c), PageSize) \o
                     (IF next = 0 THEN <<>> ELSE Descending(Rest(f, next)))
      BY <2>1, NextPage
    <3>2. F[next] = Descending(Rest(f, next))
      BY <3>1
    <3> QED BY <3>1, <3>2 DEF PageFrom
  <2> QED BY <2>1 DEF PagesFrom
<1>3. Pages(f) = PagesFrom(f, Pages(f))
  <2> HIDE DEF F
  <2> QED BY <1>2 DEF Pages
<1>4. ASSUME NEW g, g = PagesFrom(f, g), NEW bad \in 0 .. N, g[bad] # F[bad]
      PROVE  FALSE
  <2> DEFINE B == {c \in 0 .. N : g[c] # F[c]}
             L == {Left(c) : c \in B}
  <2>1. L \in SUBSET Nat /\ L # {}
    <3>1. \A c \in 0 .. N : Left(c) \in Nat
      BY <1>1
    <3>2. bad \in B
      BY <1>4
    <3> HIDE DEF F, Left, N
    <3> QED BY <3>1, <3>2
  <2>2. PICK least \in L : \A m \in L : least <= m
    <3> HIDE DEF L
    <3> QED BY <2>1, LeastNumber
  <2>3. PICK c \in B : least = Left(c)
    OBVIOUS
  <2>4. c \in 0 .. N /\ g[c] # F[c]
    OBVIOUS
  <2> DEFINE next == NextCursor(Fetched(f, c))
  <2>5. /\ next \in 0 .. N
        /\ next # 0 /\ c # 0 => next < c
    BY <2>4, NextPage
  <2>6. ASSUME next # 0
        PROVE  g[next] = F[next]
    <3>1. next \in B => Left(c) <= Left(next)
      BY <2>2, <2>3
    <3>2. Left(next) < Left(c)
      BY <1>1, <2>4, <2>5, <2>6
    <3>3. Left(next) \in Int /\ Left(c) \in Int
      BY <1>1, <2>4, <2>5
    <3> HIDE DEF Left, next
    <3> QED BY <2>5, <3>1, <3>2, <3>3
  <2>7. g[c] = PageFrom(f, g, c) /\ F[c] = PageFrom(f, F, c)
    <3> HIDE DEF F
    <3> QED BY <1>2, <1>4, <2>4 DEF PagesFrom
  <2>8. PageFrom(f, g, c) = PageFrom(f, F, c)
    <3> HIDE DEF F
    <3> QED BY <2>6 DEF PageFrom
  <2> QED BY <2>4, <2>7, <2>8
<1>5. Pages(f)[0] = F[0]
  <2> HIDE DEF F
  <2> QED BY <1>1, <1>3, <1>4
<1>6. F[0] = Descending(Matching(f))
  <2>1. Rest(f, 0) = Matching(f)
    BY DEF Rest
  <2> QED BY <1>1, <2>1
<1> QED BY <1>5, <1>6, ListingIsPages

\* Whatever the staff have made of the table and whatever the filter and the
\* length of a page, following the cursors of GET /rentals shows every matching
\* rental once, the latest first, and comes to an end.
THEOREM PagesAreComplete == Spec => []PagesCoverList
<1>1. TypeOK => PagesCoverList
  BY PagesAreRest DEF TypeOK, PagesCoverList
<1> QED BY <1>1, StaffTypeCorrect, PTL
=============================================================================
