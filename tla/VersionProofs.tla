---------------------------- MODULE VersionProofs ----------------------------
(***************************************************************************)
(* The versions of the payroll configuration form chains, the past is       *)
(* changed by insertions only, and every amount keeps its type, for every   *)
(* number of rules, dates, values and concurrent requests.  Closed periods  *)
(* pay what the configuration says while requests for different scopes do   *)
(* not overlap and no period changes under a request.                       *)
(***************************************************************************)
EXTENDS PayrollConfiguration, SetProofs

-----------------------------------------------------------------------------
(* Rows of one scope *)

Rows == [Date -> VersionRow]

\* Each live version ends where the next begins.
Chain(rows) == \A d \in Live(rows) : rows[d].to = NextOf(rows, d)

\* The next version is live and later, with no live one in between; the end of
\* time if there is none.
LEMMA NextIsNext ==
  ASSUME NEW rows, NEW d \in Date
  PROVE  /\ NextOf(rows, d) \in After(rows, d) \cup {Open}
         /\ NextOf(rows, d) \in d + 1 .. LastDate + 1
         /\ \A f \in After(rows, d) : NextOf(rows, d) <= f
<1> DEFINE S == After(rows, d) \cup {Open}
<1>1. S \in SUBSET Nat /\ S # {}
  BY VersionsAssumption DEF After, Live, Date, Open
<1>2. Min(S) \in S /\ \A f \in S : Min(S) <= f
  BY <1>1, MinIsLeast
<1> QED BY <1>2, VersionsAssumption DEF NextOf, After, Live, Date, Open

\* The previous version is live and earlier, with no live one in between; None
\* if there is none.
LEMMA PreviousIsPrevious ==
  ASSUME NEW rows, NEW d \in Date
  PROVE  /\ PreviousOf(rows, d) \in Before(rows, d) \cup {None}
         /\ PreviousOf(rows, d) \in 0 .. d - 1
         /\ \A f \in Before(rows, d) : f <= PreviousOf(rows, d)
<1> DEFINE S == Before(rows, d) \cup {None}
<1>1. S \in SUBSET (0 .. d) /\ S # {} /\ d \in Nat
  BY VersionsAssumption DEF Before, Live, Date, None
<1>2. Max(S) \in S /\ \A f \in S : f <= Max(S)
  BY <1>1, MaxIsGreatest
<1> QED BY <1>2, VersionsAssumption DEF PreviousOf, Before, Live, Date, None

\* Whatever is live or the end of time, later, and has no live one before it
\* is the next.
LEMMA NextIsUnique ==
  ASSUME NEW rows, NEW d \in Date, NEW n \in After(rows, d) \cup {Open},
         \A f \in After(rows, d) : n <= f
  PROVE  NextOf(rows, d) = n
BY NextIsNext, VersionsAssumption DEF After, Live, Date, Open

\* Rows with a version inserted at d, and what comes before it cut off there.
WithVersion(rows, d, to, v, e) ==
  [CutOff(rows, PreviousOf(rows, d), d) EXCEPT ![d] =
     [state |-> "live", to |-> to, value |-> v, enabled |-> e]]

\* An insertion adds one live version and moves the end of the one before.
LEMMA WithVersionRows ==
  ASSUME NEW rows \in Rows, NEW d \in Date, NEW to \in End, NEW v \in AnyValue,
         NEW e \in BOOLEAN
  PROVE  /\ WithVersion(rows, d, to, v, e) \in Rows
         /\ Live(WithVersion(rows, d, to, v, e)) = Live(rows) \cup {d}
         /\ WithVersion(rows, d, to, v, e)[d].to = to
         /\ \A f \in Date \ {d} :
              WithVersion(rows, d, to, v, e)[f].to =
                IF f = PreviousOf(rows, d) THEN d ELSE rows[f].to
<1> DEFINE p == PreviousOf(rows, d)
           cut == CutOff(rows, p, d)
<1>1. p \in Date \cup {None} /\ p # d
  BY PreviousIsPrevious, VersionsAssumption DEF Date, None
<1>2. /\ cut \in Rows
      /\ \A f \in Date : cut[f].state = rows[f].state
      /\ \A f \in Date : cut[f].to = IF f = p THEN d ELSE rows[f].to
  <2>1. CASE p = None
    <3>1. \A f \in Date : f # p
      BY <2>1 DEF Date, None
    <3> QED BY <2>1, <3>1 DEF CutOff
  <2>2. CASE p \in Date
    <3>1. cut = [rows EXCEPT ![p].to = d]
      BY <2>2 DEF CutOff, Date, None
    <3> QED BY <2>2, <3>1 DEF Rows, VersionRow, End
  <2> QED BY <1>1, <2>1, <2>2
<1> HIDE DEF cut
<1>3. WithVersion(rows, d, to, v, e) =
        [cut EXCEPT ![d] = [state |-> "live", to |-> to, value |-> v, enabled |-> e]]
  BY DEF WithVersion, cut
<1> QED BY <1>1, <1>2, <1>3 DEF Rows, VersionRow, Live

\* An insertion keeps the chain.
LEMMA InsertionChains ==
  ASSUME NEW rows \in Rows, Chain(rows), NEW d \in Date \ Live(rows),
         NEW v \in AnyValue, NEW e \in BOOLEAN
  PROVE  Chain(WithVersion(rows, d, NextOf(rows, d), v, e))
<1> DEFINE n == NextOf(rows, d)
           p == PreviousOf(rows, d)
           new == WithVersion(rows, d, n, v, e)
<1>1. n \in End
  BY NextIsNext DEF After, Live, End, Open
<1>2. /\ Live(new) = Live(rows) \cup {d}
      /\ new[d].to = n
      /\ \A f \in Date \ {d} : new[f].to = IF f = p THEN d ELSE rows[f].to
  BY <1>1, WithVersionRows
<1> HIDE DEF new
<1> SUFFICES ASSUME NEW f \in Live(new) PROVE new[f].to = NextOf(new, f)
  BY DEF Chain, new
<1>3. CASE f = d
  <2>1. After(new, d) = After(rows, d)
    BY <1>2, VersionsAssumption DEF After, Live, Date
  <2> QED BY <1>2, <1>3, <2>1 DEF NextOf
<1>4. CASE f # d /\ f = p
  <2>1. f \in Date /\ f < d
    BY <1>4, PreviousIsPrevious, VersionsAssumption DEF Live, Date
  <2>2. d \in After(new, f)
    BY <1>2, <2>1 DEF After
  <2>3. ASSUME NEW g \in After(new, f) PROVE d <= g
    <3>1. g \in Live(rows) \cup {d} /\ f < g /\ g \in Nat /\ d \in Nat
      BY <1>2, VersionsAssumption DEF After, Live, Date
    <3>2. CASE g \in Live(rows) /\ g < d
      <4>1. g <= p
        BY <3>2, PreviousIsPrevious DEF Before
      <4> QED BY <3>1, <4>1, <1>4, <2>1, VersionsAssumption DEF Date
    <3> QED BY <3>1, <3>2
  <2>4. NextOf(new, f) = d
    BY <2>1, <2>2, <2>3, NextIsUnique
  <2> QED BY <1>2, <1>4, <2>1, <2>4
<1>5. CASE f # d /\ f # p
  <2>1. f \in Live(rows) /\ f \in Date /\ new[f].to = NextOf(rows, f)
    BY <1>2, <1>5 DEF Live, Chain
  <2> DEFINE m == NextOf(rows, f)
  <2>2. m \in After(new, f) \cup {Open}
    BY <1>2, <2>1, NextIsNext DEF After
  <2>3. ASSUME NEW g \in After(new, f) PROVE m <= g
    <3>1. CASE g \in Live(rows)
      BY <2>1, <2>3, <3>1, NextIsNext DEF After
    <3>2. CASE g = d
      <4>1. f < d
        BY <2>3, <3>2 DEF After
      <4>2. f <= p /\ p \in Before(rows, d) \cup {None} /\ p \in 0 .. d - 1
        BY <2>1, <4>1, PreviousIsPrevious DEF Before
      <4>3. p \in After(rows, f)
        BY <2>1, <4>2, <1>5, VersionsAssumption DEF Before, After, Date, None
      <4>4. m <= p
        BY <2>1, <4>3, NextIsNext
      <4> QED BY <2>1, <3>2, <4>2, <4>4, NextIsNext, VersionsAssumption DEF Date
    <3> QED BY <1>2, <3>1, <3>2 DEF After
  <2>4. NextOf(new, f) = m
    BY <2>1, <2>2, <2>3, NextIsUnique
  <2> QED BY <2>1, <2>4
<1> QED BY <1>3, <1>4, <1>5

\* Rows with the version at d cancelled, and what comes before it joined to
\* what comes after.
Without(rows, d) ==
  CutOff([rows EXCEPT ![d].state = "CANCELLED"], PreviousOf(rows, d), NextOf(rows, d))

\* A cancellation takes one version out and moves the end of the one before.
LEMMA WithoutRows ==
  ASSUME NEW rows \in Rows, NEW d \in Date
  PROVE  /\ Without(rows, d) \in Rows
         /\ Live(Without(rows, d)) = Live(rows) \ {d}
         /\ \A f \in Date :
              Without(rows, d)[f].to =
                IF f = PreviousOf(rows, d) THEN NextOf(rows, d) ELSE rows[f].to
<1> DEFINE p == PreviousOf(rows, d)
           n == NextOf(rows, d)
           cut == [rows EXCEPT ![d].state = "CANCELLED"]
<1>1. p \in Date \cup {None} /\ p # d
  BY PreviousIsPrevious, VersionsAssumption DEF Date, None
<1>2. n \in End
  BY NextIsNext DEF After, Live, End, Open
<1>3. /\ cut \in Rows
      /\ \A f \in Date : cut[f].state = IF f = d THEN "CANCELLED" ELSE rows[f].state
      /\ \A f \in Date : cut[f].to = rows[f].to
  BY DEF Rows, VersionRow
<1>4. Without(rows, d) = IF p = None THEN cut ELSE [cut EXCEPT ![p].to = n]
  BY DEF Without, CutOff
<1> HIDE DEF cut, p, n
<1>5. CASE p = None
  <2>1. \A f \in Date : f # p
    BY <1>5 DEF Date, None
  <2> QED BY <1>3, <1>4, <1>5, <2>1 DEF Live, p, n
<1>6. CASE p \in Date
  <2>1. Without(rows, d) = [cut EXCEPT ![p].to = n]
    BY <1>4, <1>6 DEF Date, None
  <2>2. /\ Without(rows, d) \in Rows
        /\ \A f \in Date : Without(rows, d)[f].state = cut[f].state
        /\ \A f \in Date : Without(rows, d)[f].to = IF f = p THEN n ELSE cut[f].to
    BY <1>2, <1>3, <1>6, <2>1 DEF Rows, VersionRow
  <2> QED BY <1>3, <2>2 DEF Live, p, n
<1> QED BY <1>1, <1>5, <1>6

\* A cancellation keeps the chain.
LEMMA CancellationChains ==
  ASSUME NEW rows \in Rows, Chain(rows), NEW d \in Date
  PROVE  Chain(Without(rows, d))
<1> DEFINE n == NextOf(rows, d)
           p == PreviousOf(rows, d)
           new == Without(rows, d)
<1>1. /\ Live(new) = Live(rows) \ {d}
      /\ \A f \in Date : new[f].to = IF f = p THEN n ELSE rows[f].to
  BY WithoutRows
<1> HIDE DEF new
<1> SUFFICES ASSUME NEW f \in Live(new) PROVE new[f].to = NextOf(new, f)
  BY DEF Chain, new
<1>2. f \in Live(rows) /\ f \in Date /\ f # d
  BY <1>1 DEF Live
<1>3. /\ p \in Before(rows, d) \cup {None}
      /\ p \in 0 .. d - 1
      /\ \A g \in Before(rows, d) : g <= p
  BY PreviousIsPrevious
<1>4. CASE f = p
  <2>1. n \in After(new, f) \cup {Open}
    BY <1>1, <1>3, <1>4, NextIsNext, VersionsAssumption DEF After, Live, Date
  <2>2. ASSUME NEW g \in After(new, f) PROVE n <= g
    <3>1. g \in Live(rows) /\ g # d /\ f < g /\ g \in Date
      BY <1>1 DEF After, Live
    <3>2. ~ (g < d)
      BY <1>3, <1>4, <3>1, VersionsAssumption DEF Before, Date
    <3>3. g \in After(rows, d)
      BY <3>1, <3>2, VersionsAssumption DEF After, Date
    <3> QED BY <3>3, NextIsNext
  <2>3. NextOf(new, f) = n
    BY <1>2, <2>1, <2>2, NextIsUnique
  <2> QED BY <1>1, <1>2, <1>4, <2>3
<1>5. CASE f # p
  <2> DEFINE m == NextOf(rows, f)
  <2>1. new[f].to = m
    BY <1>1, <1>2, <1>5 DEF Chain
  <2>2. /\ m \in After(rows, f) \cup {Open}
        /\ m \in f + 1 .. LastDate + 1
        /\ \A g \in After(rows, f) : m <= g
    BY <1>2, NextIsNext
  <2>3. m # d
    <3>1. CASE f < d
      <4>1. p \in After(rows, f)
        BY <1>2, <1>3, <1>5, <3>1, VersionsAssumption
        DEF Before, After, Date, None
      <4> QED BY <1>3, <2>2, <4>1, VersionsAssumption DEF Date
    <3>2. CASE d < f
      BY <1>2, <2>2, <3>2, VersionsAssumption DEF Date
    <3> QED BY <1>2, <3>1, <3>2, VersionsAssumption DEF Date
  <2>4. m \in After(new, f) \cup {Open}
    BY <1>1, <2>2, <2>3 DEF After
  <2>5. \A g \in After(new, f) : m <= g
    BY <1>1, <2>2 DEF After
  <2>6. NextOf(new, f) = m
    BY <1>2, <2>4, <2>5, NextIsUnique
  <2> QED BY <2>1, <2>6
<1> QED BY <1>4, <1>5

-----------------------------------------------------------------------------
(* The version in force *)

Covering(rows, day) == {f \in Live(rows) : f <= day /\ day < rows[f].to}

\* The version in force is one that covers the day, None if there is none.
LEMMA InForceCovers ==
  ASSUME NEW rows, NEW day \in Date
  PROVE  /\ InForce(rows, day) \in Covering(rows, day) \cup {None}
         /\ InForce(rows, day) = None => Covering(rows, day) = {}
<1>1. Covering(rows, day) \in SUBSET Nat /\ None \notin Covering(rows, day)
  BY VersionsAssumption DEF Covering, Live, Date, None
<1>2. InForce(rows, day) =
        IF Covering(rows, day) = {} THEN None ELSE Min(Covering(rows, day))
  BY DEF InForce, Covering
<1> QED BY <1>1, <1>2, MinIsLeast

\* Where the same versions cover a day, the same one is in force.
LEMMA SameCovering ==
  ASSUME NEW one, NEW other, NEW day \in Date,
         Covering(one, day) = Covering(other, day)
  PROVE  InForce(one, day) = InForce(other, day)
BY DEF InForce, Covering

\* An insertion changes what is in force only to the version inserted.
LEMMA InsertionInForce ==
  ASSUME NEW rows \in Rows, Chain(rows), NEW d \in Date \ Live(rows),
         NEW v \in AnyValue, NEW e \in BOOLEAN, NEW day \in Date,
         InForce(WithVersion(rows, d, NextOf(rows, d), v, e), day) # InForce(rows, day)
  PROVE  InForce(WithVersion(rows, d, NextOf(rows, d), v, e), day) = d
<1> DEFINE n == NextOf(rows, d)
           p == PreviousOf(rows, d)
           new == WithVersion(rows, d, n, v, e)
<1>1. n \in End /\ n \in d + 1 .. LastDate + 1
  BY NextIsNext DEF After, Live, End, Open
<1>2. /\ new \in Rows
      /\ Live(new) = Live(rows) \cup {d}
      /\ new[d].to = n
      /\ \A f \in Date \ {d} : new[f].to = IF f = p THEN d ELSE rows[f].to
  BY <1>1, WithVersionRows
<1>3. /\ p \in Before(rows, d) \cup {None}
      /\ p \in 0 .. d - 1
      /\ \A f \in Before(rows, d) : f <= p
  BY PreviousIsPrevious
<1>4. p \in Live(rows) => rows[p].to = n
  <2> SUFFICES ASSUME p \in Live(rows) PROVE NextOf(rows, p) = n
    BY DEF Chain
  <2>1. n \in After(rows, p) \cup {Open}
    BY <1>3, NextIsNext, VersionsAssumption DEF After, Date
  <2>2. ASSUME NEW f \in After(rows, p) PROVE n <= f
    <3>1. f \in Live(rows) /\ p < f /\ f \in Date /\ f # d
      BY DEF After, Live
    <3>2. ~ (f < d)
      BY <1>3, <3>1, VersionsAssumption DEF Before, Date
    <3>3. f \in After(rows, d)
      BY <3>1, <3>2, VersionsAssumption DEF After, Date
    <3> QED BY <3>3, NextIsNext
  <2> QED BY <2>1, <2>2, NextIsUnique DEF Live
<1> HIDE DEF new, n, p
<1>5. InForce(new, day) # InForce(rows, day)
  BY DEF new, n
<1>6. CASE day < d \/ n <= day
  <2>1. ASSUME NEW f \in Live(rows)
        PROVE  f <= day /\ day < new[f].to <=> f <= day /\ day < rows[f].to
    <3>1. f \in Date \ {d} /\ rows[f].to \in End
      BY DEF Rows, VersionRow, Live
    <3>2. CASE f = p
      BY <1>1, <1>2, <1>4, <1>6, <3>1, <3>2, VersionsAssumption DEF Date, End, Open
    <3> QED BY <1>2, <3>1, <3>2
  <2>2. ~ (d <= day /\ day < new[d].to)
    BY <1>1, <1>2, <1>6, VersionsAssumption DEF Date
  <2>3. Covering(new, day) = Covering(rows, day)
    BY <1>2, <2>1, <2>2 DEF Covering
  <2> QED BY <1>5, <2>3, SameCovering
<1>7. CASE d <= day /\ day < n
  <2>1. d \in Covering(new, day)
    BY <1>2, <1>7 DEF Covering
  <2>2. ASSUME NEW f \in Covering(new, day) PROVE f = d
    <3>1. f \in Date /\ f \in Live(new) /\ f <= day /\ day < new[f].to
      BY DEF Covering, Live
    <3>2. new[f].to = NextOf(new, f)
      BY <3>1, InsertionChains DEF new, n, Chain
    <3>3. CASE f < d
      <4>1. NextOf(new, f) <= d
        BY <1>2, <3>1, <3>3, NextIsNext DEF After
      <4> QED BY <1>7, <3>1, <3>2, <3>3, <4>1, NextIsNext, VersionsAssumption DEF Date
    <3>4. CASE d < f
      <4>1. f \in After(rows, d)
        BY <1>2, <3>1, <3>4, VersionsAssumption DEF After, Date
      <4>2. n <= f
        BY <4>1, NextIsNext DEF n
      <4> QED BY <1>1, <1>7, <3>1, <4>2, VersionsAssumption DEF Date
    <3> QED BY <3>1, <3>3, <3>4, VersionsAssumption DEF Date
  <2>3. InForce(new, day) \in Covering(new, day)
    BY <2>1, InForceCovers
  <2>4. InForce(new, day) = d
    BY <2>2, <2>3
  <2> QED BY <2>4 DEF new, n
<1> QED BY <1>1, <1>6, <1>7, VersionsAssumption DEF Date

\* A cancellation leaves what is in force before the cancelled version alone.
LEMMA CancellationInForce ==
  ASSUME NEW rows \in Rows, Chain(rows), NEW d \in Date, NEW day \in Date, day < d
  PROVE  InForce(Without(rows, d), day) = InForce(rows, day)
<1> DEFINE n == NextOf(rows, d)
           p == PreviousOf(rows, d)
           new == Without(rows, d)
<1>1. /\ Live(new) = Live(rows) \ {d}
      /\ \A f \in Date : new[f].to = IF f = p THEN n ELSE rows[f].to
  BY WithoutRows
<1>2. n \in d + 1 .. LastDate + 1
  BY NextIsNext
<1>3. p \in 0 .. d - 1 /\ \A f \in Before(rows, d) : f <= p
  BY PreviousIsPrevious
<1>4. p \in Live(rows) => d <= rows[p].to
  <2> SUFFICES ASSUME p \in Live(rows) PROVE d <= NextOf(rows, p)
    BY DEF Chain
  <2>1. p \in Date
    BY DEF Live
  <2>2. NextOf(rows, p) \in After(rows, p) \cup {Open}
    BY <2>1, NextIsNext
  <2>3. CASE NextOf(rows, p) = Open
    BY <2>3, VersionsAssumption DEF Open, Date
  <2>4. CASE NextOf(rows, p) \in After(rows, p)
    BY <1>3, <2>4, VersionsAssumption DEF After, Before, Live, Date
  <2> QED BY <2>2, <2>3, <2>4
<1>5. ASSUME NEW f \in Live(rows) \ {d}
      PROVE  f <= day /\ day < new[f].to <=> f <= day /\ day < rows[f].to
  <2>1. f \in Date /\ rows[f].to \in End
    BY DEF Rows, VersionRow, Live
  <2>2. CASE f = p
    BY <1>1, <1>2, <1>4, <2>1, <2>2, VersionsAssumption DEF Date, End, Open
  <2> QED BY <1>1, <2>1, <2>2
<1>6. ~ (d <= day)
  BY VersionsAssumption DEF Date
<1> HIDE DEF new
<1>7. Covering(new, day) = Covering(rows, day)
  BY <1>1, <1>5, <1>6 DEF Covering
<1>8. InForce(new, day) = InForce(rows, day)
  BY <1>7, SameCovering
<1> QED BY <1>8 DEF new

-----------------------------------------------------------------------------
(* The types of amounts: a sum over finitely many versions, adjustments or    *)
(* periods is an integer, where the period can be calculated.                *)

\* What is in force at all is a live version.
LEMMA InForceIsLive ==
  ASSUME NEW rows \in Rows, NEW d \in Date, InForce(rows, d) # None
  PROVE  /\ InForce(rows, d) \in Live(rows) /\ InForce(rows, d) \in Date
         /\ rows[InForce(rows, d)].value \in Nat
<1>1. InForce(rows, d) \in Live(rows)
  BY InForceCovers DEF Covering
<1>2. AnyValue \subseteq Nat
  BY VersionsAssumption DEF AnyValue, Value, Mode, HoursOnly, Simple, Advanced
<1> QED BY <1>1, <1>2 DEF Live, Rows, VersionRow

LEMMA AmountIsInt ==
  ASSUME NEW vs \in [Scope -> Rows], NEW active, NEW d \in Date, Calculable(vs, d)
  PROVE  Amount(vs, active, d) \in Int
<1> DEFINE matching == Matching(vs, active, d)
           supplements == [r \in matching |-> Supplement(vs, r, d)]
<1>1. \A c \in Scope : vs[c] \in Rows
  OBVIOUS
<1>2. PaysMoney(vs, d) => ValueAt(vs, "rate", d) \in Nat
  BY <1>1, InForceIsLive DEF Calculable, ValueAt, Scope
<1>3. \A r \in matching : ValueAt(vs, r, d) \in Nat
  BY <1>1, InForceIsLive DEF Matching, ValueAt, Scope
<1>4. PaysMoney(vs, d) => supplements \in [matching -> Int]
  <2> PICK rate : rate = ValueAt(vs, "rate", d)
    OBVIOUS
  <2> SUFFICES ASSUME PaysMoney(vs, d) PROVE \A r \in matching : Supplement(vs, r, d) \in Int
    OBVIOUS
  <2> TAKE r \in matching
  <2> PICK supplement : supplement = ValueAt(vs, r, d)
    OBVIOUS
  <2>1. rate \in Nat /\ supplement \in Nat
    BY <1>2, <1>3
  <2>2. rate * supplement \in Int
    BY <2>1
  <2> QED BY <2>1, <2>2 DEF Supplement
<1>5. IsFiniteSet(matching)
  BY FS_Subset, VersionsAssumption DEF Matching
<1>6. PaysMoney(vs, d) => SumFunction(supplements) \in Int
  <2> HIDE DEF supplements, matching
  <2> QED BY <1>4, <1>5, TotalIsInt
<1> QED BY <1>2, <1>6 DEF Amount

DueTable == [Date -> [Date -> [MaybeDate -> Int]]]

LEMMA DatesAreFinite == IsFiniteSet(Date) /\ IsFiniteSet(MaybeDate)
<1>1. IsFiniteSet(1 .. LastDate)
  BY FS_Interval, VersionsAssumption
<1> QED BY <1>1, FS_AddElement DEF Date, MaybeDate

LEMMA AdjustedIsInt ==
  ASSUME due \in DueTable, NEW o \in Date, NEW e \in Date
  PROVE  Adjusted(o, e) \in Int
BY DatesAreFinite, TotalIsInt DEF Adjusted, DueTable

LEMMA DeltaIsInt ==
  ASSUME NEW vs \in [Scope -> Rows], NEW active, NEW o \in Date, NEW e \in Date,
         Calculable(vs, o), periods \in [Date -> PeriodRow], due \in DueTable
  PROVE  DeltaFor(vs, active, o, e) \in Int
<1>1. periods[o].lines[e] \in Int
  BY DEF PeriodRow
<1>2. Adjusted(o, e) \in Int /\ Amount(vs, active, o) \in Int
  BY AdjustedIsInt, AmountIsInt
<1> QED BY <1>1, <1>2 DEF DeltaFor

LEMMA DeltasAreInts ==
  ASSUME NEW vs \in [Scope -> Rows], NEW active, NEW closed \in SUBSET Date,
         \A p \in closed : Calculable(vs, p),
         periods \in [Date -> PeriodRow], due \in DueTable
  PROVE  Deltas(vs, active, closed) \in [Date -> [Date -> Int]]
<1>1. \A o \in closed, e \in Date : DeltaFor(vs, active, o, e) \in Int
  BY DeltaIsInt
<1> QED BY <1>1 DEF Deltas

LEMMA IncludedTypes ==
  ASSUME due \in DueTable, NEW p \in Date
  PROVE  Included(p) \in DueTable
<1>1. p \in MaybeDate /\ None \in MaybeDate
  BY DEF MaybeDate
<1>2. \A o \in Date, e \in Date, s \in MaybeDate : due[o][e][s] \in Int
  BY DEF DueTable
<1>3. ASSUME NEW o \in Date, NEW e \in Date, NEW s \in MaybeDate
      PROVE  (IF o < p /\ s = p THEN due[o][e][p] + due[o][e][None]
              ELSE IF o < p /\ s = None THEN 0 ELSE due[o][e][s]) \in Int
  <2>1. due[o][e][p] \in Int /\ due[o][e][None] \in Int /\ due[o][e][s] \in Int
    BY <1>1, <1>2
  <2> QED BY <2>1
<1> QED BY <1>3 DEF Included, DueTable

LEMMA IdIsNat ==
  ASSUME periods \in [Date -> PeriodRow], NEW p \in Date
  PROVE  IdOf(p) \in Nat
<1>i. PICK issued : issued = {q \in Date : periods[q].id # 0}
  OBVIOUS
<1>1. IsFiniteSet(issued)
  BY <1>i, DatesAreFinite, FS_Subset
<1>2. Cardinality(issued) \in Nat
  BY <1>1, FS_CardinalityType
<1>3. periods[p].id \in Nat
  BY DEF PeriodRow
<1> QED BY <1>i, <1>2, <1>3 DEF IdOf

LEMMA RunLinesAreInts ==
  ASSUME due \in DueTable, versions \in [Scope -> Rows], NEW p \in Date,
         Calculable(versions, p)
  PROVE  RunLines(p) \in [Date -> Int]
<1> PICK inc : inc = Included(p)
  OBVIOUS
<1>1. inc \in DueTable /\ p \in MaybeDate
  BY IncludedTypes DEF MaybeDate
<1>2. ASSUME NEW e \in Date PROVE SumFunction([o \in Date |-> inc[o][e][p]]) \in Int
  <2>1. [o \in Date |-> inc[o][e][p]] \in [Date -> Int]
    BY <1>1 DEF DueTable
  <2> QED BY <2>1, DatesAreFinite, TotalIsInt
<1>3. Amount(versions, [r \in Rule |-> rules[r] = "active"], p) \in Int
  BY AmountIsInt
<1> PICK amount : amount = Amount(versions, [r \in Rule |-> rules[r] = "active"], p)
  OBVIOUS
<1>4. RunLines(p) = [e \in Date |-> (IF e = p THEN amount ELSE 0)
                                    + SumFunction([o \in Date |-> inc[o][e][p]])]
  BY DEF RunLines
<1>5. ASSUME NEW e \in Date
      PROVE  (IF e = p THEN amount ELSE 0)
             + SumFunction([o \in Date |-> inc[o][e][p]]) \in Int
  <2> PICK sum : sum = SumFunction([o \in Date |-> inc[o][e][p]])
    OBVIOUS
  <2>1. sum \in Int /\ amount \in Int
    BY <1>2, <1>3
  <2> QED BY <2>1
<1> QED BY <1>4, <1>5

-----------------------------------------------------------------------------
(* VersionsChain is not inductive.  What a request writes was planned from   *)
(* the versions it read before, so the invariant says that a plan is still   *)
(* what one would make now; that rests on the version locks, which exclude   *)
(* each other, and on rules never being new twice, because a rule is created *)
(* and copied without a lock of its own.                                     *)

\* The deltas of a session are sums, whose type is not needed here.
SessionShape(a) ==
  [op : OpName \cup {"none"}, step : {"idle", "lock", "plan", "write"},
   scope : Scope \cup {"none"}, from : MaybeDate, value : AnyValue,
   enabled : BOOLEAN, closed : SUBSET Date, previous : MaybeDate, to : End,
   deltas : {a.deltas}, source : Rule \cup {"none"}, rows : Rows]

Types ==
  /\ versions \in [Scope -> Rows]
  /\ rules \in [Rule -> {"none", "active", "archived"}]
  /\ today \in Date
  /\ held \in [Session -> SUBSET (Scope \cup {"rules"})]
  /\ sess = [s \in Session |-> sess[s]]

\* Two transactions never hold the same version lock.
LocksExclude ==
  \A s \in Session, q \in Session : s # q => held[s] \cap held[q] = {}

\* A rule that does not exist has no versions.
NewRulesBlank == \A r \in Rule : rules[r] = "none" => Live(versions[r]) = {}

Exists(c) == c \in Rule => rules[c] # "none"

\* What was planned is what would be planned now.
PlanFresh(a) ==
  /\ versions[a.scope][a.from].state = "unused"
  /\ a.previous = PreviousOf(versions[a.scope], a.from)
  /\ a.to = NextOf(versions[a.scope], a.from)

SessionOK(a, locks) ==
  /\ a \in SessionShape(a)
  /\ a.step # "idle" => a.op # "none"
  /\ a.op # "none" => a.scope \in Scope
  /\ a.op \in ChangeOp \cup CancelOp => a.from \in Date
  /\ a.op \in {"createRule", "copyRule", "archiveRule"} => a.scope \in Rule
  /\ a.op = "copyRule" => a.source \in Rule /\ Chain(a.rows)
  /\ a.op \in {"createVersion", "deactivate"} \cup CancelOp => Exists(a.scope)
  /\ a.step \in {"plan", "write"} /\ a.op # "archiveRule" => LockOf(a) \in locks
  /\ /\ a.op \in ChangeOp /\ a.step = "write"
     /\ a.op = "createRule" => rules[a.scope] = "none"
     => PlanFresh(a)

Inv ==
  /\ Types
  /\ VersionsChain
  /\ LocksExclude
  /\ NewRulesBlank
  /\ \A s \in Session : SessionOK(sess[s], held[s])

-----------------------------------------------------------------------------
(* What a step of one session leaves to the others *)

\* A step changes the versions of a scope it has locked and that exists, or
\* makes them exist; and what exists goes on existing.
Guarded(self) ==
  /\ \A c \in Scope :
       \/ versions'[c] = versions[c]
       \/ c \in held[self] /\ Exists(c)
       \/ c \in Rule /\ rules[c] = "none" /\ rules'[c] # "none"
  /\ \A r \in Rule : rules'[r] = "none" => rules[r] = "none"

\* What other sessions have planned is not touched by a guarded step.
LEMMA OthersHold ==
  ASSUME Inv, NEW self \in Session, NEW q \in Session \ {self}, Guarded(self),
         sess'[q] = sess[q], held'[q] = held[q]
  PROVE  SessionOK(sess[q], held[q])'
<1> PICK a : a = sess[q]
  OBVIOUS
<1> PICK locks : locks = held[q]
  OBVIOUS
<1>1. SessionOK(a, locks) /\ held[self] \cap locks = {}
  BY DEF Inv, LocksExclude
<1>2. a.op \in {"createVersion", "deactivate"} \cup CancelOp => Exists(a.scope)'
  BY <1>1 DEF SessionOK, Exists, Guarded
<1>3. ASSUME a.op \in ChangeOp, a.step = "write",
             a.op = "createRule" => rules'[a.scope] = "none"
      PROVE  PlanFresh(a)'
  <2>1. a.op = "createRule" => rules[a.scope] = "none" /\ a.scope \in Rule
    BY <1>1, <1>3 DEF SessionOK, Guarded
  <2>2. PlanFresh(a) /\ a.scope \in Scope
    BY <1>1, <1>3, <2>1 DEF SessionOK, ChangeOp
  <2>3. versions'[a.scope] = versions[a.scope]
    <3>1. CASE a.op = "createRule"
      BY <1>3, <2>1, <2>2, <3>1 DEF Guarded, Exists
    <3>2. CASE a.op # "createRule"
      <4>1. a.op \in {"createVersion", "deactivate"}
        BY <1>3, <3>2 DEF ChangeOp
      <4>2. Exists(a.scope) /\ a.scope \in locks
        BY <1>1, <1>3, <4>1 DEF SessionOK, LockOf
      <4> QED BY <1>1, <2>2, <4>2 DEF Guarded, Exists
    <3> QED BY <3>1, <3>2
  <2> QED BY <2>2, <2>3 DEF PlanFresh
<1>4. SessionOK(a, locks)'
  BY <1>1, <1>2, <1>3 DEF SessionOK, SessionShape
<1>5. sess'[q] = a /\ held'[q] = locks
  OBVIOUS
<1> QED BY <1>4, <1>5

-----------------------------------------------------------------------------
(* Steps that write no versions *)

\* A step is done when the tables, the locks and its own session are.
LEMMA StepHolds ==
  ASSUME Inv, NEW self \in Session, Guarded(self),
         Types', VersionsChain', LocksExclude', NewRulesBlank',
         SessionOK(sess[self], held[self])',
         \A q \in Session \ {self} : sess'[q] = sess[q] /\ held'[q] = held[q]
  PROVE  Inv'
<1>1. \A q \in Session \ {self} : SessionOK(sess[q], held[q])'
  BY OthersHold
<1> QED BY <1>1 DEF Inv

\* An idle session holds whatever the tables are.
LEMMA IdleHolds ==
  ASSUME NEW locks PROVE SessionOK(Idle, locks) /\ SessionOK(Idle, locks)'
BY VersionsAssumption
DEF SessionOK, SessionShape, Idle, NoRows, NoLines, UnusedVersion, Rows, VersionRow,
    MaybeDate, End, Open, Date, AnyValue, Value, None, OpName, ChangeOp, CancelOp

\* A session begins.
LEMMA BeginHolds ==
  ASSUME Inv, NEW self \in Session, NEW state, Begin(self, state),
         SessionOK(state, held[self])
  PROVE  Inv'
<1>1. /\ sess' = [sess EXCEPT ![self] = state]
      /\ UNCHANGED <<versions, rules, today, held>>
  BY DEF Begin, tables
<1>2. /\ Types' /\ LocksExclude' /\ VersionsChain' /\ NewRulesBlank'
  BY <1>1 DEF Inv, Types, LocksExclude, VersionsChain, NewRulesBlank
<1>3. Guarded(self)
  BY <1>1 DEF Guarded
<1>4. sess'[self] = state /\ \A q \in Session \ {self} : sess'[q] = sess[q]
  BY <1>1 DEF Inv, Types
<1>5. SessionOK(sess[self], held[self])'
  BY <1>1, <1>4 DEF SessionOK, SessionShape, PlanFresh, Exists
<1> QED BY <1>1, <1>2, <1>3, <1>4, <1>5, StepHolds

\* A session ends, with its changes or without.
LEMMA FinishTypes ==
  ASSUME Inv, NEW self \in Session, Finish(self)
  PROVE  /\ sess' = [s \in Session |-> sess'[s]]
         /\ held' \in [Session -> SUBSET (Scope \cup {"rules"})]
         /\ LocksExclude'
         /\ SessionOK(sess[self], held[self])'
         /\ \A q \in Session \ {self} : sess'[q] = sess[q] /\ held'[q] = held[q]
<1>1. /\ sess' = [sess EXCEPT ![self] = Idle]
      /\ held' = [held EXCEPT ![self] = {}]
  BY DEF Finish
<1>2. /\ sess'[self] = Idle /\ held'[self] = {}
      /\ \A q \in Session \ {self} : sess'[q] = sess[q] /\ held'[q] = held[q]
  BY <1>1 DEF Inv, Types
<1>3. LocksExclude'
  BY <1>2 DEF Inv, LocksExclude
<1>4. SessionOK(Idle, {})'
  BY IdleHolds
<1> QED BY <1>1, <1>2, <1>3, <1>4 DEF Inv, Types

\* A rollback ends the session and changes nothing.
LEMMA RollbackHolds ==
  ASSUME Inv, NEW self \in Session, Rollback(self)
  PROVE  Inv'
<1>1. Finish(self) /\ UNCHANGED <<versions, rules, today>>
  BY DEF Rollback, tables
<1>2. Types' /\ VersionsChain' /\ NewRulesBlank' /\ Guarded(self)
  BY <1>1, FinishTypes DEF Inv, Types, VersionsChain, NewRulesBlank, Guarded
<1> QED BY <1>1, <1>2, FinishTypes, StepHolds

\* A transaction gets its lock when nobody holds it.
LEMMA AcquireHolds ==
  ASSUME Inv, NEW self \in Session, Acquire(self)
  PROVE  Inv'
<1> PICK a : a = sess[self]
  OBVIOUS
<1> DEFINE key == LockOf(a)
<1>1. /\ a.step = "lock"
      /\ \A q \in Session : key \notin held[q]
      /\ held' = [held EXCEPT ![self] = {key}]
      /\ sess' = [sess EXCEPT ![self].step = "plan"]
      /\ UNCHANGED <<versions, rules, today>>
  BY DEF Acquire, tables
<1>2. SessionOK(a, held[self]) /\ a.op # "none" /\ a \in SessionShape(a)
  BY <1>1 DEF Inv, SessionOK
<1>3. key \in Scope \cup {"rules"}
  BY <1>2 DEF SessionOK, LockOf, Scope
<1> HIDE DEF key
<1>4. /\ sess'[self] = [a EXCEPT !.step = "plan"]
      /\ held'[self] = {key}
      /\ \A q \in Session \ {self} : sess'[q] = sess[q] /\ held'[q] = held[q]
  BY <1>1 DEF Inv, Types
<1>5. Types' /\ VersionsChain' /\ NewRulesBlank' /\ Guarded(self)
  BY <1>1, <1>3 DEF Inv, Types, VersionsChain, NewRulesBlank, Guarded
<1>6. LocksExclude'
  BY <1>1, <1>4 DEF Inv, LocksExclude
<1> PICK b : b = [a EXCEPT !.step = "plan"]
  OBVIOUS
<1>7. /\ b \in SessionShape(b) /\ b.step = "plan"
      /\ b.op = a.op /\ b.scope = a.scope /\ b.from = a.from
      /\ b.source = a.source /\ b.rows = a.rows
  BY <1>2 DEF SessionShape
<1>8. LockOf(b) = key
  BY <1>7 DEF LockOf, key
<1>9. SessionOK(b, {key})'
  BY <1>1, <1>2, <1>7, <1>8 DEF SessionOK, SessionShape, Exists
<1>10. SessionOK(sess[self], held[self])'
  BY <1>4, <1>9
<1> QED BY <1>4, <1>5, <1>6, <1>10, StepHolds

\* What requests begin with.
LEMMA RequestHolds ==
  ASSUME Inv, NEW self \in Session, Request(self)
  PROVE  Inv'
<1>1. /\ NoRows \in Rows /\ None \in MaybeDate /\ Open \in End /\ 0 \in AnyValue
      /\ Date \subseteq MaybeDate
      /\ \A c \in Scope : Values(c) \subseteq AnyValue
  BY VersionsAssumption
  DEF NoRows, UnusedVersion, Rows, VersionRow, MaybeDate, End, Open, Date, Values,
      AnyValue, Value, None
<1>2. "rate" \in Scope /\ Rule \subseteq Scope /\ "rate" \notin Rule
  BY VersionsAssumption DEF Scope
<1>3. \A d \in Date : ClosedSince(d) \subseteq Date
  BY DEF ClosedSince
<1>4. Types /\ VersionsChain
  BY DEF Inv
<1>5. ASSUME NEW c \in Scope, NEW d \in Date, NEW v \in AnyValue,
             CreateVersionBegin(self, c, d, v)
      PROVE  Inv'
  <2> PICK state :
        state = [Idle EXCEPT !.op = "createVersion", !.step = "lock", !.scope = c,
                             !.from = d, !.value = v, !.closed = ClosedSince(d)]
    OBVIOUS
  <2>1. Begin(self, state) /\ Exists(c)
    BY <1>5 DEF CreateVersionBegin, Exists
  <2>2. SessionOK(state, held[self])
    BY <1>1, <1>2, <1>3, <2>1
    DEF SessionOK, SessionShape, Idle, NoLines, OpName, ChangeOp, CancelOp, Exists
  <2> QED BY <2>1, <2>2, BeginHolds
<1>6. ASSUME NEW r \in Rule, NEW d \in Date, DeactivateBegin(self, r, d)
      PROVE  Inv'
  <2> PICK state :
        state = [Idle EXCEPT !.op = "deactivate", !.step = "lock", !.scope = r,
                             !.from = d, !.enabled = FALSE, !.closed = ClosedSince(d)]
    OBVIOUS
  <2>1. Begin(self, state) /\ Exists(r)
    BY <1>6 DEF DeactivateBegin, Exists
  <2>2. SessionOK(state, held[self])
    BY <1>1, <1>2, <1>3, <2>1
    DEF SessionOK, SessionShape, Idle, NoLines, OpName, ChangeOp, CancelOp, Exists
  <2> QED BY <2>1, <2>2, BeginHolds
<1>7. ASSUME NEW r \in Rule, NEW d \in Date, NEW v \in Value, CreateRuleBegin(self, r, d, v)
      PROVE  Inv'
  <2> PICK state :
        state = [Idle EXCEPT !.op = "createRule", !.step = "lock", !.scope = r,
                             !.from = d, !.value = v, !.closed = ClosedSince(d)]
    OBVIOUS
  <2>1. Begin(self, state) /\ v \in AnyValue
    BY <1>7 DEF CreateRuleBegin, AnyValue
  <2>2. SessionOK(state, held[self])
    BY <1>1, <1>2, <1>3, <2>1
    DEF SessionOK, SessionShape, Idle, NoLines, OpName, ChangeOp, CancelOp, Exists
  <2> QED BY <2>1, <2>2, BeginHolds
<1>8. ASSUME NEW op \in CancelOp, NEW c \in Scope, NEW d \in Date, CancelBegin(self, op, c, d)
      PROVE  Inv'
  <2> PICK state :
        state = [Idle EXCEPT !.op = op, !.step = "lock", !.scope = c, !.from = d]
    OBVIOUS
  <2>1. Begin(self, state) /\ Exists(c)
    BY <1>2, <1>8 DEF CancelBegin, Exists
  <2>2. SessionOK(state, held[self])
    BY <1>1, <1>2, <2>1
    DEF SessionOK, SessionShape, Idle, NoLines, OpName, ChangeOp, CancelOp, Exists
  <2> QED BY <2>1, <2>2, BeginHolds
<1>9. ASSUME NEW r \in Rule, NEW name \in Rule, CopyRuleBegin(self, r, name)
      PROVE  Inv'
  <2> PICK copied :
        copied = [d \in Date |-> IF d \in Live(versions[r]) THEN versions[r][d]
                                 ELSE UnusedVersion]
    OBVIOUS
  <2> PICK state :
        state = [Idle EXCEPT !.op = "copyRule", !.step = "lock", !.scope = name,
                             !.source = r, !.rows = copied]
    OBVIOUS
  <2>1. Begin(self, state)
    BY <1>9 DEF CopyRuleBegin
  <2>2. /\ copied \in Rows /\ Live(copied) = Live(versions[r])
        /\ \A d \in Live(copied) : copied[d] = versions[r][d]
    <3>1. versions[r] \in Rows
      BY <1>2, <1>4 DEF Types
    <3> QED BY <1>1, <3>1 DEF Rows, Live, NoRows, UnusedVersion
  <2>3. \A d \in Date : NextOf(copied, d) = NextOf(versions[r], d)
    BY <2>2 DEF NextOf, After
  <2>4. Chain(copied)
    BY <1>2, <1>4, <2>2, <2>3 DEF VersionsChain, Chain, Live
  <2>5. SessionOK(state, held[self])
    BY <1>1, <1>2, <2>2, <2>4
    DEF SessionOK, SessionShape, Idle, NoLines, OpName, ChangeOp, CancelOp, Exists
  <2> QED BY <2>1, <2>5, BeginHolds
<1>10. ASSUME NEW r \in Rule, ArchiveRuleBegin(self, r)
       PROVE  Inv'
  <2> PICK state :
        state = [Idle EXCEPT !.op = "archiveRule", !.step = "write", !.scope = r]
    OBVIOUS
  <2>1. Begin(self, state)
    BY <1>10 DEF ArchiveRuleBegin
  <2>2. SessionOK(state, held[self])
    BY <1>1, <1>2
    DEF SessionOK, SessionShape, Idle, NoLines, OpName, ChangeOp, CancelOp, Exists
  <2> QED BY <2>1, <2>2, BeginHolds
<1> QED BY <1>5, <1>6, <1>7, <1>8, <1>9, <1>10 DEF Request

\* A plan is made from the versions as they are.
LEMMA ChangePlanHolds ==
  ASSUME Inv, NEW self \in Session, ChangePlan(self)
  PROVE  Inv'
<1> PICK a : a = sess[self]
  OBVIOUS
<1> PICK rows : rows = versions[a.scope]
  OBVIOUS
<1>1. SessionOK(a, held[self]) /\ a.op \in ChangeOp /\ a.step = "plan" /\ a.from \in Date
  BY DEF Inv, SessionOK, ChangePlan, At
<1>2. a.scope \in Scope /\ rows \in Rows /\ a \in SessionShape(a)
  BY <1>1 DEF Inv, Types, SessionOK, ChangeOp
<1>3. CASE Rollback(self)
  BY <1>3, RollbackHolds
<1>4. CASE ~ Rollback(self)
  <2>1. PICK deltas :
          sess' = [sess EXCEPT ![self] =
            [Planned(a) EXCEPT !.step = "write", !.deltas = deltas]]
    BY <1>4 DEF ChangePlan
  <2>2. Accepted(a) /\ UNCHANGED <<versions, rules, today, held>>
    BY <1>4 DEF ChangePlan, tables
  <2> PICK b : b = [Planned(a) EXCEPT !.step = "write", !.deltas = deltas]
    OBVIOUS
  <2>3. PreviousOf(rows, a.from) \in MaybeDate /\ NextOf(rows, a.from) \in End
    BY <1>1, PreviousIsPrevious, NextIsNext, VersionsAssumption
    DEF MaybeDate, Date, None, After, Live, End, Open
  <2>4. a.op = "deactivate" => rows[InForce(rows, a.from)].value \in AnyValue
    <3> SUFFICES ASSUME a.op = "deactivate" PROVE InForce(rows, a.from) \in Date
      BY <1>2 DEF Rows, VersionRow
    <3>1. InForce(rows, a.from) # None
      BY <2>2 DEF Accepted, Deactivatable
    <3> QED BY <1>1, <3>1, InForceCovers DEF Covering, Live
  <2>5. /\ b \in SessionShape(b)
        /\ b.step = "write" /\ b.op = a.op /\ b.scope = a.scope /\ b.from = a.from
        /\ b.previous = PreviousOf(rows, a.from) /\ b.to = NextOf(rows, a.from)
    <3> PICK v : v = IF a.op = "deactivate" THEN rows[InForce(rows, a.from)].value
                     ELSE a.value
      OBVIOUS
    <3> PICK planned : planned = Planned(a)
      OBVIOUS
    <3>1. v \in AnyValue
      BY <1>2, <2>4 DEF SessionShape
    <3>2. planned = [a EXCEPT !.previous = PreviousOf(rows, a.from),
                              !.to = NextOf(rows, a.from), !.value = v]
      BY DEF Planned, EndOf
    <3>3. /\ planned \in SessionShape(planned)
          /\ planned.op = a.op /\ planned.scope = a.scope /\ planned.from = a.from
          /\ planned.previous = PreviousOf(rows, a.from)
          /\ planned.to = NextOf(rows, a.from)
      BY <1>2, <2>3, <3>1, <3>2 DEF SessionShape
    <3> QED BY <3>3 DEF SessionShape
  <2>6. rows[a.from].state = "unused"
    BY <2>2 DEF Accepted, Insertable
  <2>7. PlanFresh(b)
    BY <2>5, <2>6 DEF PlanFresh
  <2>8. LockOf(b) = LockOf(a)
    BY <1>1, <2>5 DEF LockOf, ChangeOp
  <2>9. SessionOK(b, held[self])
    BY <1>1, <2>5, <2>7, <2>8 DEF SessionOK, ChangeOp
  <2>10. sess'[self] = b /\ \A q \in Session \ {self} : sess'[q] = sess[q]
    BY <2>1 DEF Inv, Types
  <2>11. SessionOK(sess[self], held[self])'
    BY <2>2, <2>9, <2>10 DEF SessionOK, SessionShape, PlanFresh, Exists
  <2>12. Types' /\ LocksExclude' /\ VersionsChain' /\ NewRulesBlank' /\ Guarded(self)
    BY <2>1, <2>2 DEF Inv, Types, LocksExclude, VersionsChain, NewRulesBlank, Guarded
  <2> QED BY <2>2, <2>10, <2>11, <2>12, StepHolds
<1> QED BY <1>3, <1>4

\* archivePayRule writes no versions.
LEMMA ArchiveHolds ==
  ASSUME Inv, NEW self \in Session, ArchiveRuleCommit(self)
  PROVE  Inv'
<1>1. /\ rules' = [rules EXCEPT ![sess[self].scope] = "archived"]
      /\ Finish(self) /\ UNCHANGED <<versions, today>>
  BY DEF ArchiveRuleCommit
<1>2. sess[self].scope \in Rule
  BY DEF Inv, SessionOK, ArchiveRuleCommit, At
<1>3. Types' /\ VersionsChain' /\ NewRulesBlank' /\ Guarded(self)
  BY <1>1, <1>2, FinishTypes DEF Inv, Types, VersionsChain, NewRulesBlank, Guarded
<1> QED BY <1>1, <1>3, FinishTypes, StepHolds

-----------------------------------------------------------------------------
(* Steps that write versions *)

\* A version is inserted where none starts, in a scope that is locked and
\* exists or that starts to.
Inserts(self, c, d, v, e) ==
  /\ d \notin Live(versions[c])
  /\ versions' = [versions EXCEPT ![c] =
                   WithVersion(versions[c], d, NextOf(versions[c], d), v, e)]
  /\ \/ c \in held[self] /\ Exists(c) /\ rules' = rules
     \/ c \in Rule /\ rules[c] = "none" /\ rules' = [rules EXCEPT ![c] = "active"]

Insertion(self) ==
  \E c \in Scope, d \in Date, v \in AnyValue, e \in BOOLEAN : Inserts(self, c, d, v, e)

\* A version that has not come into force is cancelled.
Cancellation(self) ==
  \E c \in Scope, d \in Date :
    /\ today < d
    /\ c \in held[self] /\ Exists(c)
    /\ versions' = [versions EXCEPT ![c] = Without(versions[c], d)]
    /\ \/ rules' = rules
       \/ rules' = [rules EXCEPT ![c] = "archived"]

\* A rule starts to exist with the versions of another.
Copy ==
  \E r \in Rule, rows \in Rows :
    /\ Chain(rows)
    /\ rules[r] = "none"
    /\ versions' = [versions EXCEPT ![r] = rows]
    /\ rules' = [rules EXCEPT ![r] = "active"]

\* Creating, deactivating and creating with a rule insert what was planned.
LEMMA ChangeCommitWrites ==
  ASSUME Inv, NEW self \in Session, ChangeCommit(self)
  PROVE  Rollback(self) \/ (Insertion(self) /\ Finish(self) /\ today' = today)
<1> PICK a : a = sess[self]
  OBVIOUS
<1> PICK rows : rows = versions[a.scope]
  OBVIOUS
<1>1. SessionOK(a, held[self]) /\ a.op \in ChangeOp /\ a.step = "write"
  BY DEF Inv, ChangeCommit, At
<1>2. /\ a.scope \in Scope /\ a.from \in Date /\ a \in SessionShape(a)
      /\ a.op = "createRule" => a.scope \in Rule
  BY <1>1 DEF SessionOK, ChangeOp
<1> SUFFICES ASSUME ~ Rollback(self) PROVE Insertion(self) /\ Finish(self) /\ today' = today
  OBVIOUS
<1>3. /\ a.op = "createRule" => rules[a.scope] = "none"
      /\ versions' = Inserted(a) /\ rules' = RulesWith(a)
      /\ Finish(self) /\ today' = today
  BY DEF ChangeCommit
<1>4. PlanFresh(a)
  BY <1>1, <1>3 DEF SessionOK
<1>5. a.from \in Date \ Live(rows) /\ a.value \in AnyValue /\ a.enabled \in BOOLEAN
  BY <1>2, <1>4 DEF PlanFresh, Live, SessionShape
<1>6. versions' = [versions EXCEPT ![a.scope] =
                    WithVersion(rows, a.from, NextOf(rows, a.from), a.value, a.enabled)]
  BY <1>3, <1>4 DEF PlanFresh, Inserted, WithVersion
<1>7. \/ a.scope \in held[self] /\ Exists(a.scope) /\ rules' = rules
      \/ /\ a.scope \in Rule /\ rules[a.scope] = "none"
         /\ rules' = [rules EXCEPT ![a.scope] = "active"]
  BY <1>1, <1>2, <1>3 DEF SessionOK, ChangeOp, LockOf, RulesWith
<1>8. Inserts(self, a.scope, a.from, a.value, a.enabled)
  BY <1>5, <1>6, <1>7 DEF Inserts
<1> QED BY <1>2, <1>3, <1>5, <1>8 DEF Insertion

\* Both cancellations take out a version of the future.
LEMMA CancelCommitWrites ==
  ASSUME Inv, NEW self \in Session, CancelCommit(self)
  PROVE  Rollback(self) \/ (Cancellation(self) /\ Finish(self) /\ today' = today)
<1> PICK a : a = sess[self]
  OBVIOUS
<1>1. SessionOK(a, held[self]) /\ a.op \in CancelOp /\ a.step = "plan"
  BY DEF Inv, CancelCommit, At
<1>2. /\ a.scope \in Scope /\ a.from \in Date /\ Exists(a.scope)
      /\ a.scope \in held[self]
  BY <1>1 DEF SessionOK, CancelOp, LockOf
<1> SUFFICES ASSUME ~ Rollback(self) PROVE Cancellation(self) /\ Finish(self) /\ today' = today
  OBVIOUS
<1>3. /\ Cancellable(a) /\ Finish(self) /\ today' = today
      /\ versions' = [versions EXCEPT ![a.scope] = Without(versions[a.scope], a.from)]
      /\ rules' = rules \/ rules' = [rules EXCEPT ![a.scope] = "archived"]
  BY DEF CancelCommit, Without
<1> QED BY <1>2, <1>3 DEF Cancellation, Cancellable

\* copyPayRule writes the rows it read, if the name is still free.
LEMMA CopyCommitWrites ==
  ASSUME Inv, NEW self \in Session, CopyRuleCommit(self)
  PROVE  Rollback(self) \/ (Copy /\ Finish(self) /\ today' = today)
<1> PICK a : a = sess[self]
  OBVIOUS
<1>1. SessionOK(a, held[self]) /\ a.op = "copyRule"
  BY DEF Inv, CopyRuleCommit, At
<1>2. a.scope \in Rule /\ a.rows \in Rows /\ Chain(a.rows)
  BY <1>1 DEF SessionOK, SessionShape
<1> QED BY <1>2 DEF CopyRuleCommit, Copy

\* A step that ends a session and writes its versions.
LEMMA WriteHolds ==
  ASSUME Inv, NEW self \in Session, Finish(self), today' = today,
         NEW c \in Scope, NEW rows \in Rows, Chain(rows),
         versions' = [versions EXCEPT ![c] = rows],
         \/ c \in held[self] /\ Exists(c)
         \/ c \in Rule /\ rules[c] = "none" /\ rules' = [rules EXCEPT ![c] = "active"],
         \/ rules' = rules
         \/ c \in Rule /\ \E x \in {"active", "archived"} : rules' = [rules EXCEPT ![c] = x]
  PROVE  Inv'
<1>1. /\ versions' \in [Scope -> Rows] /\ versions'[c] = rows
      /\ \A b \in Scope \ {c} : versions'[b] = versions[b]
  BY DEF Inv, Types
<1>2. /\ rules' \in [Rule -> {"none", "active", "archived"}]
      /\ \A r \in Rule : rules'[r] = "none" => rules[r] = "none"
      /\ c \in Rule => rules'[c] # "none"
  BY DEF Inv, Types, Exists
<1>3. Types'
  BY <1>1, <1>2, FinishTypes DEF Inv, Types
<1>4. VersionsChain'
  BY <1>1 DEF Inv, VersionsChain, Chain
<1>5. NewRulesBlank'
  <2> SUFFICES ASSUME NEW r \in Rule, rules'[r] = "none" PROVE Live(versions'[r]) = {}
    BY DEF NewRulesBlank
  <2>1. r # c /\ r \in Scope
    BY <1>2 DEF Scope
  <2> QED BY <1>1, <1>2, <2>1 DEF Inv, NewRulesBlank
<1>6. Guarded(self)
  BY <1>1, <1>2 DEF Guarded
<1> QED BY <1>3, <1>4, <1>5, <1>6, FinishTypes, StepHolds

\* The rows of a scope form a chain.
LEMMA RowsChain ==
  ASSUME Inv, NEW c \in Scope
  PROVE  versions[c] \in Rows /\ Chain(versions[c])
BY DEF Inv, Types, VersionsChain, Chain

\* The invariant is kept by an insertion.
LEMMA ChangeCommitHolds ==
  ASSUME Inv, NEW self \in Session, ChangeCommit(self)
  PROVE  Inv'
<1>1. CASE Rollback(self)
  BY <1>1, RollbackHolds
<1>2. CASE Insertion(self) /\ Finish(self) /\ today' = today
  <2>1. PICK c \in Scope, d \in Date, v \in AnyValue, e \in BOOLEAN :
          Inserts(self, c, d, v, e)
    BY <1>2 DEF Insertion
  <2> PICK old : old = versions[c]
    OBVIOUS
  <2> PICK new : new = WithVersion(old, d, NextOf(old, d), v, e)
    OBVIOUS
  <2>2. old \in Rows /\ Chain(old) /\ d \in Date \ Live(old)
    BY <2>1, RowsChain DEF Inserts
  <2>3. NextOf(old, d) \in End
    BY NextIsNext DEF After, Live, End, Open
  <2>4. new \in Rows /\ Chain(new)
    BY <2>2, <2>3, WithVersionRows, InsertionChains
  <2>5. versions' = [versions EXCEPT ![c] = new]
    BY <2>1 DEF Inserts
  <2>6. /\ \/ c \in held[self] /\ Exists(c)
           \/ c \in Rule /\ rules[c] = "none" /\ rules' = [rules EXCEPT ![c] = "active"]
        /\ \/ rules' = rules
           \/ c \in Rule /\ rules' = [rules EXCEPT ![c] = "active"]
    BY <2>1 DEF Inserts
  <2> QED BY <1>2, <2>4, <2>5, <2>6, WriteHolds
<1> QED BY <1>1, <1>2, ChangeCommitWrites

\* The invariant is kept by a cancellation.
LEMMA CancelCommitHolds ==
  ASSUME Inv, NEW self \in Session, CancelCommit(self)
  PROVE  Inv'
<1>1. CASE Rollback(self)
  BY <1>1, RollbackHolds
<1>2. CASE Cancellation(self) /\ Finish(self) /\ today' = today
  <2>1. PICK c \in Scope, d \in Date :
          /\ c \in held[self] /\ Exists(c)
          /\ versions' = [versions EXCEPT ![c] = Without(versions[c], d)]
          /\ rules' = rules \/ rules' = [rules EXCEPT ![c] = "archived"]
    BY <1>2 DEF Cancellation
  <2> PICK new : new = Without(versions[c], d)
    OBVIOUS
  <2>2. new \in Rows /\ Chain(new)
    BY RowsChain, WithoutRows, CancellationChains
  <2>3. c \in Rule \/ rules' = rules
    BY <2>1 DEF Inv, Types
  <2> QED BY <1>2, <2>1, <2>2, <2>3, WriteHolds
<1> QED BY <1>1, <1>2, CancelCommitWrites

\* The invariant is kept by a copy.
LEMMA CopyCommitHolds ==
  ASSUME Inv, NEW self \in Session, CopyRuleCommit(self)
  PROVE  Inv'
<1>1. CASE Rollback(self)
  BY <1>1, RollbackHolds
<1>2. CASE Copy /\ Finish(self) /\ today' = today
  <2>1. PICK r \in Rule, rows \in Rows :
          /\ Chain(rows)
          /\ rules[r] = "none"
          /\ versions' = [versions EXCEPT ![r] = rows]
          /\ rules' = [rules EXCEPT ![r] = "active"]
    BY <1>2 DEF Copy
  <2>2. r \in Scope
    BY DEF Scope
  <2> QED BY <1>2, <2>1, <2>2, WriteHolds
<1> QED BY <1>1, <1>2, CopyCommitWrites

-----------------------------------------------------------------------------
(* The theorems *)

\* A cinema starts with a mode, perhaps a rate, and no rules.
LEMMA InitHolds == Init => Inv
<1> SUFFICES ASSUME Init PROVE Inv
  OBVIOUS
<1>1. /\ NoRows \in Rows /\ Live(NoRows) = {}
      /\ \A d \in Date : NoRows[d] = UnusedVersion
  BY VersionsAssumption
  DEF NoRows, UnusedVersion, Rows, VersionRow, Live, End, Open, Date, AnyValue, Value
<1>2. ASSUME NEW row \in VersionRow, row.to = Open
      PROVE  [NoRows EXCEPT ![1] = row] \in Rows /\ Chain([NoRows EXCEPT ![1] = row])
  <2> PICK rows : rows = [NoRows EXCEPT ![1] = row]
    OBVIOUS
  <2>1. rows \in Rows
    BY <1>1, <1>2 DEF Rows
  <2>2. Live(rows) \subseteq {1}
    BY <1>1, <1>2 DEF Live, Rows, UnusedVersion
  <2>3. ASSUME NEW d \in Live(rows) PROVE rows[d].to = NextOf(rows, d)
    <3>1. d = 1 /\ d \in Date /\ rows[1] = row
      BY <1>1, <2>2 DEF Live, Rows
    <3>2. \A f \in Live(rows) : ~ (f > d)
      <4> TAKE f \in Live(rows)
      <4>1. f = 1
        BY <2>2
      <4> QED BY <3>1, <4>1
    <3>3. After(rows, d) = {}
      BY <3>2 DEF After
    <3> QED BY <1>2, <3>1, <3>3, NextIsNext
  <2> QED BY <2>1, <2>3 DEF Chain
<1>3. /\ UnusedVersion \in VersionRow /\ UnusedVersion.to = Open
      /\ \A v \in AnyValue : FirstVersion(v) \in VersionRow /\ FirstVersion(v).to = Open
      /\ Advanced \in AnyValue /\ Value \subseteq AnyValue
  BY VersionsAssumption
  DEF UnusedVersion, FirstVersion, VersionRow, End, Open, Date, AnyValue, Value, Mode, Advanced
<1>4. PICK row \in {UnusedVersion} \cup {FirstVersion(v) : v \in Value} :
        versions = [c \in Scope |->
          CASE c = "mode" -> [NoRows EXCEPT ![1] = FirstVersion(Advanced)]
            [] c = "rate" -> [NoRows EXCEPT ![1] = row]
            [] OTHER -> NoRows]
  BY DEF Init
<1>5. row \in VersionRow /\ row.to = Open
  BY <1>3, <1>4
<1>6. Chain(NoRows)
  BY <1>1 DEF Chain
<1>7. \A c \in Scope : versions[c] \in Rows /\ Chain(versions[c])
  BY <1>1, <1>2, <1>3, <1>4, <1>5, <1>6
<1>8. \A r \in Rule : r \in Scope /\ r # "mode" /\ r # "rate" /\ versions[r] = NoRows
  BY <1>4, VersionsAssumption DEF Scope
<1>9. Types
  <2>1. versions = [c \in Scope |-> versions[c]]
    BY <1>4
  <2>2. versions \in [Scope -> Rows]
    BY <1>7, <2>1
  <2>3. today \in Date
    BY VersionsAssumption DEF Init, Date
  <2>4. /\ rules \in [Rule -> {"none", "active", "archived"}]
        /\ held \in [Session -> SUBSET (Scope \cup {"rules"})]
    BY DEF Init
  <2>5. sess = [s \in Session |-> sess[s]]
    BY DEF Init
  <2> QED BY <2>2, <2>3, <2>4, <2>5 DEF Types
<1>10. VersionsChain /\ LocksExclude /\ NewRulesBlank
  BY <1>1, <1>7, <1>8 DEF VersionsChain, Chain, LocksExclude, NewRulesBlank, Init
<1>11. \A s \in Session : SessionOK(sess[s], held[s])
  BY IdleHolds DEF Init
<1> QED BY <1>9, <1>10, <1>11 DEF Inv

\* Every step keeps the invariant.
LEMMA NextHolds == Inv /\ [Next]_vars => Inv'
<1> SUFFICES ASSUME Inv, [Next]_vars PROVE Inv'
  OBVIOUS
<1>1. ASSUME UNCHANGED <<versions, rules, held, sess>>, today' \in Date PROVE Inv'
  <2>1. Types'
    <3>1. sess' = [s \in Session |-> sess'[s]]
      BY <1>1 DEF Inv, Types
    <3> QED BY <1>1, <3>1 DEF Inv, Types
  <2>2. VersionsChain' /\ LocksExclude' /\ NewRulesBlank'
    BY <1>1 DEF Inv, VersionsChain, LocksExclude, NewRulesBlank
  <2>3. ASSUME NEW s \in Session PROVE SessionOK(sess[s], held[s])'
    <3>1. SessionOK(sess[s], held[s])
      BY DEF Inv
    <3> QED BY <1>1, <3>1 DEF SessionOK, SessionShape, PlanFresh, Exists
  <2> QED BY <2>1, <2>2, <2>3 DEF Inv
<1>2. today \in Date
  BY DEF Inv, Types
<1>3. CASE UNCHANGED vars
  BY <1>1, <1>2, <1>3 DEF vars, tables
<1>4. ASSUME NEW self \in Session, Advance(self) PROVE Inv'
  BY <1>4, AcquireHolds, ChangePlanHolds, ChangeCommitHolds, CancelCommitHolds,
     CopyCommitHolds, ArchiveHolds
  DEF Advance
<1>5. ASSUME NEW self \in Session, Crash(self) PROVE Inv'
  BY <1>5, RollbackHolds DEF Crash
<1>6. CASE PeriodStep
  BY <1>1, <1>2, <1>6 DEF PeriodStep, LockPeriod, UnlockPeriod, ExportPeriod
<1>7. CASE NextDay
  <2>1. today' \in Date
    BY <1>2, <1>7, VersionsAssumption DEF NextDay, Date
  <2> QED BY <1>1, <1>7, <2>1 DEF NextDay, tables
<1> QED BY <1>3, <1>4, <1>5, <1>6, <1>7, RequestHolds DEF Next

\* The invariant always holds.
LEMMA InvHolds == Spec => []Inv
BY InitHolds, NextHolds, PTL DEF Spec

\* However many requests insert, cancel, deactivate and copy at once, crash
\* and time out, the live versions of the mode, the rate and every rule form a
\* chain: each ends where the next begins, and the last never does.
THEOREM AlwaysChained == Spec => []VersionsChain
<1>1. Inv => VersionsChain
  BY DEF Inv
<1> QED BY <1>1, InvHolds, PTL

\* Only an insertion changes what is in force on a day that has come.
LEMMA PastKept ==
  ASSUME Inv, [Next]_vars,
         NEW c \in Scope, NEW d \in Date, d <= today,
         InForce(versions'[c], d) # InForce(versions[c], d)
  PROVE  InForce(versions'[c], d) \in Live(versions'[c]) \ Live(versions[c])
<1> PICK old : old = versions[c]
  OBVIOUS
<1> PICK new : new = versions'[c]
  OBVIOUS
<1>1. old \in Rows /\ Chain(old) /\ today \in Date
  BY RowsChain DEF Inv, Types
<1>2. ASSUME NEW self \in Session, Insertion(self)
      PROVE  InForce(new, d) \in Live(new) \ Live(old)
  <2>1. PICK b \in Scope, f \in Date, v \in AnyValue, e \in BOOLEAN :
          Inserts(self, b, f, v, e)
    BY <1>2 DEF Insertion
  <2>2. b = c /\ new = WithVersion(old, f, NextOf(old, f), v, e) /\ f \in Date \ Live(old)
    BY <2>1 DEF Inserts, Inv, Types
  <2>3. InForce(new, d) = f
    BY <1>1, <2>2, InsertionInForce
  <2>4. NextOf(old, f) \in End
    BY NextIsNext DEF After, Live, End, Open
  <2>5. f \in Live(new)
    BY <1>1, <2>2, <2>4, WithVersionRows
  <2> QED BY <2>2, <2>3, <2>5
<1>3. ASSUME NEW self \in Session, Cancellation(self) PROVE FALSE
  <2>1. PICK b \in Scope, f \in Date :
          today < f /\ versions' = [versions EXCEPT ![b] = Without(versions[b], f)]
    BY <1>3 DEF Cancellation
  <2>2. b = c /\ new = Without(old, f)
    BY <2>1 DEF Inv, Types
  <2>3. d < f
    BY <1>1, <2>1, VersionsAssumption DEF Date
  <2> QED BY <1>1, <2>2, <2>3, CancellationInForce
<1>4. ASSUME Copy PROVE InForce(new, d) \in Live(new) \ Live(old)
  <2>1. PICK r \in Rule, rows \in Rows :
          rules[r] = "none" /\ versions' = [versions EXCEPT ![r] = rows]
    BY <1>4 DEF Copy
  <2>2. c = r
    BY <2>1 DEF Inv, Types
  <2>3. Live(old) = {}
    BY <2>1, <2>2 DEF Inv, NewRulesBlank
  <2>4. InForce(old, d) = None
    BY <2>3, InForceCovers DEF Covering
  <2>5. InForce(new, d) \in Covering(new, d)
    BY <2>4, InForceCovers
  <2> QED BY <2>3, <2>5 DEF Covering
<1>5. versions' # versions
  OBVIOUS
<1>6. PICK self \in Session : ChangeCommit(self) \/ CancelCommit(self) \/ CopyRuleCommit(self)
  BY <1>5, ZenonT(40)
  DEF Next, vars, tables, Request, Advance, Crash, Rollback, PeriodStep, NextDay, Begin,
      CreateVersionBegin, DeactivateBegin, CreateRuleBegin, CancelBegin, CopyRuleBegin,
      ArchiveRuleBegin, Acquire, ChangePlan, ArchiveRuleCommit, LockPeriod, UnlockPeriod,
      ExportPeriod
<1>7. ~ Rollback(self)
  BY <1>5 DEF Rollback, tables
<1>8. Insertion(self) \/ Cancellation(self) \/ Copy
  BY <1>6, <1>7, ChangeCommitWrites, CancelCommitWrites, CopyCommitWrites
<1> QED BY <1>2, <1>3, <1>4, <1>8

\* What applied on a day that has come is replaced by a version inserted, and
\* by nothing else: no cancellation, deactivation or copy reaches back.
THEOREM PastIsKept == Spec => PastChangesByInsertionOnly
<1>1. Inv /\ [Next]_vars =>
        [\A c \in Scope, d \in Date :
           d <= today /\ InForce(versions'[c], d) # InForce(versions[c], d)
             => InForce(versions'[c], d) \in Live(versions'[c]) \ Live(versions[c])]_vars
  BY PastKept
<1> QED BY <1>1, InvHolds, PTL DEF Spec, PastChangesByInsertionOnly

-----------------------------------------------------------------------------
(* TypeOK: the invariant has all of it but the sums.                         *)

AmountTypes ==
  /\ periods \in [Date -> PeriodRow]
  /\ due \in DueTable
  /\ \A s \in Session : sess[s].deltas \in [Date -> [Date -> Int]]

\* Nothing is planned yet, and a rule to archive has no versions.
Fresh(state) ==
  /\ state.deltas = [o \in Date |-> NoLines]
  /\ state.op = "archiveRule" => Live(versions[state.scope]) = {}
  /\ state.op \in ChangeOp => state.step = "lock" /\ state.closed = ClosedSince(state.from)

\* What a request starts with.
LEMMA RequestStarts ==
  ASSUME NEW self \in Session, Request(self)
  PROVE  \E state : Begin(self, state) /\ Fresh(state)
<1>1. ASSUME NEW c \in Scope, NEW d \in Date, NEW v \in AnyValue,
             CreateVersionBegin(self, c, d, v)
      PROVE  \E state : Begin(self, state) /\ Fresh(state)
  <2> PICK state :
        state = [Idle EXCEPT !.op = "createVersion", !.step = "lock", !.scope = c,
                             !.from = d, !.value = v, !.closed = ClosedSince(d)]
    OBVIOUS
  <2>1. Begin(self, state)
    BY <1>1 DEF CreateVersionBegin
  <2>2. Fresh(state)
    BY DEF Fresh, Idle, ChangeOp, CancelOp
  <2> QED BY <2>1, <2>2
<1>2. ASSUME NEW r \in Rule, NEW d \in Date, DeactivateBegin(self, r, d)
      PROVE  \E state : Begin(self, state) /\ Fresh(state)
  <2> PICK state :
        state = [Idle EXCEPT !.op = "deactivate", !.step = "lock", !.scope = r,
                             !.from = d, !.enabled = FALSE, !.closed = ClosedSince(d)]
    OBVIOUS
  <2>1. Begin(self, state)
    BY <1>2 DEF DeactivateBegin
  <2>2. Fresh(state)
    BY DEF Fresh, Idle, ChangeOp, CancelOp
  <2> QED BY <2>1, <2>2
<1>3. ASSUME NEW r \in Rule, NEW d \in Date, NEW v \in Value, CreateRuleBegin(self, r, d, v)
      PROVE  \E state : Begin(self, state) /\ Fresh(state)
  <2> PICK state :
        state = [Idle EXCEPT !.op = "createRule", !.step = "lock", !.scope = r,
                             !.from = d, !.value = v, !.closed = ClosedSince(d)]
    OBVIOUS
  <2>1. Begin(self, state)
    BY <1>3 DEF CreateRuleBegin
  <2>2. Fresh(state)
    BY DEF Fresh, Idle, ChangeOp, CancelOp
  <2> QED BY <2>1, <2>2
<1>4. ASSUME NEW op \in CancelOp, NEW c \in Scope, NEW d \in Date, CancelBegin(self, op, c, d)
      PROVE  \E state : Begin(self, state) /\ Fresh(state)
  <2> PICK state :
        state = [Idle EXCEPT !.op = op, !.step = "lock", !.scope = c, !.from = d]
    OBVIOUS
  <2>1. Begin(self, state)
    BY <1>4 DEF CancelBegin
  <2>2. Fresh(state)
    BY DEF Fresh, Idle, ChangeOp, CancelOp
  <2> QED BY <2>1, <2>2
<1>5. ASSUME NEW r \in Rule, NEW name \in Rule, CopyRuleBegin(self, r, name)
      PROVE  \E state : Begin(self, state) /\ Fresh(state)
  <2> PICK copied :
        copied = [d \in Date |-> IF d \in Live(versions[r]) THEN versions[r][d]
                                 ELSE UnusedVersion]
    OBVIOUS
  <2> PICK state :
        state = [Idle EXCEPT !.op = "copyRule", !.step = "lock", !.scope = name,
                             !.source = r, !.rows = copied]
    OBVIOUS
  <2>1. Begin(self, state)
    BY <1>5 DEF CopyRuleBegin
  <2>2. Fresh(state)
    BY DEF Fresh, Idle, ChangeOp, CancelOp
  <2> QED BY <2>1, <2>2
<1>6. ASSUME NEW r \in Rule, ArchiveRuleBegin(self, r)
      PROVE  \E state : Begin(self, state) /\ Fresh(state)
  <2> PICK state :
        state = [Idle EXCEPT !.op = "archiveRule", !.step = "write", !.scope = r]
    OBVIOUS
  <2>1. Begin(self, state) /\ Live(versions[r]) = {}
    BY <1>6 DEF ArchiveRuleBegin
  <2>2. Fresh(state)
    BY <2>1 DEF Fresh, Idle, ChangeOp
  <2> QED BY <2>1, <2>2
<1> QED BY <1>1, <1>2, <1>3, <1>4, <1>5, <1>6 DEF Request

\* What is inserted is a table of versions.
LEMMA InsertedRows ==
  ASSUME Inv, NEW a, a.scope \in Scope, a.from \in Date, a.value \in AnyValue,
         a.enabled \in BOOLEAN, PlanFresh(a)
  PROVE  /\ Inserted(a) = [versions EXCEPT ![a.scope] =
              WithVersion(versions[a.scope], a.from, NextOf(versions[a.scope], a.from),
                          a.value, a.enabled)]
         /\ Inserted(a) \in [Scope -> Rows]
<1>1. Inserted(a) = [versions EXCEPT ![a.scope] =
        WithVersion(versions[a.scope], a.from, NextOf(versions[a.scope], a.from),
                    a.value, a.enabled)]
  BY DEF PlanFresh, Inserted, WithVersion
<1>2. versions[a.scope] \in Rows /\ versions \in [Scope -> Rows]
  BY DEF Inv, Types
<1>3. NextOf(versions[a.scope], a.from) \in End
  BY NextIsNext DEF After, Live, End, Open
<1>4. WithVersion(versions[a.scope], a.from, NextOf(versions[a.scope], a.from),
                  a.value, a.enabled) \in Rows
  BY <1>2, <1>3, WithVersionRows
<1> QED BY <1>1, <1>2, <1>4

\* The deltas of a plan are those of the periods it has found closed.
LEMMA PlanWrites ==
  ASSUME Inv, NEW self \in Session, ChangePlan(self), ~ Rollback(self)
  PROVE  \E a :
           /\ a.op = sess[self].op /\ a.scope = sess[self].scope
           /\ a.from = sess[self].from /\ a.closed = sess[self].closed
           /\ a.scope \in Scope /\ a.from \in Date /\ a.closed \in SUBSET Date
           /\ a.value \in AnyValue /\ a.enabled \in BOOLEAN
           /\ a.op \in ChangeOp /\ PlanFresh(a)
           /\ a.op = "createRule" => rules[a.scope] = "none"
           /\ \A p \in a.closed : Closed(p) => Calculable(Inserted(a), p)
           /\ sess' = [sess EXCEPT ![self] =
                [a EXCEPT !.step = "write",
                   !.deltas = Deltas(Inserted(a),
                                     [r \in Rule |-> RulesWith(a)[r] = "active"],
                                     {p \in a.closed : Closed(p)})]]
           /\ UNCHANGED <<tables, today, held>>
<1> PICK old : old = sess[self]
  OBVIOUS
<1> PICK a : a = Planned(old)
  OBVIOUS
<1>1. /\ At(self, ChangeOp, "plan") /\ Accepted(old)
      /\ \A p \in {p \in a.closed : Closed(p)} : Calculable(Inserted(a), p)
      /\ sess' = [sess EXCEPT ![self] =
           [a EXCEPT !.step = "write",
              !.deltas = Deltas(Inserted(a), [r \in Rule |-> RulesWith(a)[r] = "active"],
                                {p \in a.closed : Closed(p)})]]
      /\ UNCHANGED <<tables, today, held>>
  BY DEF ChangePlan
<1>2. SessionOK(old, held[self]) /\ old.op \in ChangeOp
  BY <1>1 DEF Inv, At
<1>3. old.from \in Date /\ old.scope \in Scope /\ old \in SessionShape(old)
  BY <1>2 DEF SessionOK, ChangeOp
<1> PICK rows : rows = versions[old.scope]
  OBVIOUS
<1>4. rows \in Rows
  BY <1>3 DEF Inv, Types
<1> PICK v : v = IF old.op = "deactivate" THEN rows[InForce(rows, old.from)].value
                 ELSE old.value
  OBVIOUS
<1>5. v \in AnyValue
  <2>1. CASE old.op = "deactivate"
    <3>1. InForce(rows, old.from) # None
      BY <1>1, <2>1 DEF Accepted, Deactivatable
    <3>2. InForce(rows, old.from) \in Date
      BY <1>3, <1>4, <3>1, InForceIsLive
    <3> QED BY <1>4, <2>1, <3>2 DEF Rows, VersionRow
  <2>2. CASE old.op # "deactivate"
    BY <1>3, <2>2 DEF SessionShape
  <2> QED BY <2>1, <2>2
<1>6. a = [old EXCEPT !.previous = PreviousOf(rows, old.from),
                      !.to = NextOf(rows, old.from), !.value = v]
  BY DEF Planned, EndOf
<1>7. /\ a.op = old.op /\ a.scope = old.scope /\ a.from = old.from
      /\ a.closed = old.closed /\ a.enabled = old.enabled /\ a.value = v
      /\ a.previous = PreviousOf(rows, old.from) /\ a.to = NextOf(rows, old.from)
  BY <1>3, <1>6 DEF SessionShape
<1>8. old.closed \in SUBSET Date /\ old.enabled \in BOOLEAN
  BY <1>3 DEF SessionShape
<1>9. rows[old.from].state = "unused" /\ (old.op = "createRule" => rules[old.scope] = "none")
  BY <1>1 DEF Accepted, Insertable
<1>10. PlanFresh(a)
  BY <1>7, <1>9 DEF PlanFresh
<1> QED BY <1>1, <1>2, <1>3, <1>5, <1>7, <1>8, <1>9, <1>10

\* The types of the sums, where neither they nor the periods change.
LEMMA AmountsStay ==
  ASSUME Inv, AmountTypes, UNCHANGED <<periods, due>>, NEW self \in Session,
         \A q \in Session \ {self} : sess'[q] = sess[q],
         sess'[self].deltas \in [Date -> [Date -> Int]]
  PROVE  AmountTypes'
BY DEF AmountTypes

LEMMA FinishAmounts ==
  ASSUME Inv, AmountTypes, NEW self \in Session, Finish(self),
         UNCHANGED periods, due' \in DueTable
  PROVE  AmountTypes'
<1>1. sess' = [sess EXCEPT ![self] = Idle]
  BY DEF Finish
<1>2. sess'[self] = Idle /\ \A q \in Session \ {self} : sess'[q] = sess[q]
  BY <1>1 DEF Inv, Types
<1>3. Idle.deltas \in [Date -> [Date -> Int]]
  BY DEF Idle, NoLines
<1> QED BY <1>2, <1>3 DEF AmountTypes

LEMMA AmountsHold ==
  ASSUME Inv, AmountTypes, [Next]_vars
  PROVE  AmountTypes'
<1>1. ASSUME NEW self \in Session, Rollback(self) PROVE AmountTypes'
  <2>1. Finish(self) /\ UNCHANGED <<periods, due>>
    BY <1>1 DEF Rollback, tables
  <2> QED BY <2>1, FinishAmounts DEF AmountTypes
<1>2. ASSUME NEW self \in Session, Request(self) PROVE AmountTypes'
  <2>1. PICK state : Begin(self, state) /\ Fresh(state)
    BY <1>2, RequestStarts
  <2>2. sess' = [sess EXCEPT ![self] = state] /\ UNCHANGED <<periods, due>>
    BY <2>1 DEF Begin, tables
  <2>3. sess'[self] = state /\ \A q \in Session \ {self} : sess'[q] = sess[q]
    BY <2>2 DEF Inv, Types
  <2>4. state.deltas \in [Date -> [Date -> Int]]
    BY <2>1 DEF Fresh, NoLines
  <2> QED BY <2>2, <2>3, <2>4, AmountsStay
<1>3. ASSUME NEW self \in Session, Acquire(self) PROVE AmountTypes'
  <2> PICK a : a = sess[self]
    OBVIOUS
  <2>1. sess' = [sess EXCEPT ![self].step = "plan"] /\ UNCHANGED <<periods, due>>
    BY <1>3 DEF Acquire, tables
  <2>2. a \in SessionShape(a)
    BY DEF Inv, SessionOK
  <2>3. /\ sess'[self] = [a EXCEPT !.step = "plan"]
        /\ \A q \in Session \ {self} : sess'[q] = sess[q]
    BY <2>1 DEF Inv, Types
  <2>4. sess'[self].deltas = a.deltas
    BY <2>2, <2>3 DEF SessionShape
  <2> QED BY <2>1, <2>3, <2>4, AmountsStay DEF AmountTypes
<1>4. ASSUME NEW self \in Session, ChangePlan(self), ~ Rollback(self) PROVE AmountTypes'
  <2>1. PICK a :
          /\ a.scope \in Scope /\ a.from \in Date /\ a.closed \in SUBSET Date
          /\ a.value \in AnyValue /\ a.enabled \in BOOLEAN
          /\ PlanFresh(a)
          /\ \A p \in a.closed : Closed(p) => Calculable(Inserted(a), p)
          /\ sess' = [sess EXCEPT ![self] =
               [a EXCEPT !.step = "write",
                  !.deltas = Deltas(Inserted(a),
                                    [r \in Rule |-> RulesWith(a)[r] = "active"],
                                    {p \in a.closed : Closed(p)})]]
          /\ UNCHANGED <<tables, today, held>>
    BY <1>4, PlanWrites
  <2> PICK deltas : deltas = Deltas(Inserted(a),
                                    [r \in Rule |-> RulesWith(a)[r] = "active"],
                                    {p \in a.closed : Closed(p)})
    OBVIOUS
  <2>2. deltas \in [Date -> [Date -> Int]]
    <3>1. Inserted(a) \in [Scope -> Rows]
      BY <2>1, InsertedRows
    <3> PICK vs : vs = Inserted(a)
      OBVIOUS
    <3> PICK closed : closed = {p \in a.closed : Closed(p)}
      OBVIOUS
    <3>2. closed \in SUBSET Date /\ \A p \in closed : Calculable(vs, p)
      BY <2>1
    <3> QED BY <3>1, <3>2, DeltasAreInts DEF AmountTypes
  <2> PICK b : b = [a EXCEPT !.step = "write", !.deltas = deltas]
    OBVIOUS
  <2>3. sess'[self] = b /\ \A q \in Session \ {self} : sess'[q] = sess[q]
    BY <2>1 DEF Inv, Types
  <2>4. sess'[self] \in SessionShape(sess'[self])
    <3>1. SessionOK(sess[self], held[self])'
      BY <1>4, ChangePlanHolds DEF Inv
    <3> QED BY <3>1 DEF SessionOK, SessionShape
  <2>5. b.deltas = deltas
    BY <2>3, <2>4 DEF SessionShape
  <2> QED BY <2>1, <2>2, <2>3, <2>5, AmountsStay DEF tables
<1>5. ASSUME NEW self \in Session, ChangeCommit(self), ~ Rollback(self) PROVE AmountTypes'
  <2>1. /\ due' = [o \in Date |-> [e \in Date |->
                     [due[o][e] EXCEPT ![None] = @ + sess[self].deltas[o][e]]]]
        /\ Finish(self) /\ UNCHANGED periods
    BY <1>5 DEF ChangeCommit
  <2>2. \A o \in Date, e \in Date :
          due[o][e] \in [MaybeDate -> Int] /\ sess[self].deltas[o][e] \in Int
    BY DEF AmountTypes, DueTable
  <2>3. \A o \in Date, e \in Date :
          [due[o][e] EXCEPT ![None] = @ + sess[self].deltas[o][e]] \in [MaybeDate -> Int]
    <3> TAKE o \in Date, e \in Date
    <3> PICK row : row = due[o][e]
      OBVIOUS
    <3> PICK more : more = sess[self].deltas[o][e]
      OBVIOUS
    <3>1. row \in [MaybeDate -> Int] /\ more \in Int /\ None \in MaybeDate
      BY <2>2 DEF MaybeDate
    <3>2. row[None] + more \in Int
      BY <3>1
    <3> QED BY <3>1, <3>2
  <2>4. due' \in DueTable
    BY <2>1, <2>3 DEF DueTable
  <2> QED BY <2>1, <2>4, FinishAmounts
<1>6. ASSUME NEW self \in Session,
             CancelCommit(self) \/ CopyRuleCommit(self) \/ ArchiveRuleCommit(self)
      PROVE  AmountTypes'
  <2>1. Rollback(self) \/ (Finish(self) /\ UNCHANGED <<periods, due>>)
    BY <1>6 DEF CancelCommit, CopyRuleCommit, ArchiveRuleCommit
  <2> QED BY <1>1, <2>1, FinishAmounts DEF AmountTypes
<1>7. ASSUME NEW p \in Date, LockPeriod(p) PROVE AmountTypes'
  <2>1. /\ periods' = [periods EXCEPT ![p] =
             [id |-> IdOf(p), status |-> "LOCKED", lines |-> RunLines(p)]]
        /\ due' = Included(p) /\ sess' = sess /\ Calculable(versions, p)
    BY <1>7 DEF LockPeriod
  <2>2. RunLines(p) \in [Date -> Int] /\ Included(p) \in DueTable
    BY <2>1, RunLinesAreInts, IncludedTypes DEF AmountTypes, Inv, Types
  <2>3. IdOf(p) \in Nat
    BY IdIsNat DEF AmountTypes
  <2> QED BY <2>1, <2>2, <2>3 DEF AmountTypes, PeriodRow
<1>8. ASSUME NEW p \in Date, UnlockPeriod(p) \/ ExportPeriod(p) PROVE AmountTypes'
  <2>1. /\ \E x \in {"OPEN", "EXPORTED"} : periods' = [periods EXCEPT ![p].status = x]
        /\ due' = due /\ sess' = sess
    BY <1>8 DEF UnlockPeriod, ExportPeriod
  <2>2. periods' \in [Date -> PeriodRow]
    BY <2>1 DEF AmountTypes, PeriodRow
  <2> QED BY <2>1, <2>2 DEF AmountTypes
<1>9. ASSUME UNCHANGED <<periods, due, sess>> PROVE AmountTypes'
  BY <1>9 DEF AmountTypes
<1>10. ASSUME NEW self \in Session, Advance(self) PROVE AmountTypes'
  BY <1>1, <1>3, <1>4, <1>5, <1>6, <1>10 DEF Advance
<1> QED BY <1>1, <1>2, <1>7, <1>8, <1>9, <1>10
DEF Next, Crash, PeriodStep, NextDay, vars, tables

LEMMA AmountsAlways == Spec => [](Inv /\ AmountTypes)
<1>1. ASSUME Init PROVE AmountTypes
  <2>1. NoLines \in [Date -> Int] /\ NothingDue \in DueTable
    BY DEF NoLines, NothingDue, DueTable
  <2>2. Idle.deltas \in [Date -> [Date -> Int]]
    BY DEF Idle, NoLines
  <2> QED BY <1>1, <2>1, <2>2 DEF Init, AmountTypes, PeriodRow
<1>2. Inv /\ AmountTypes /\ [Next]_vars => AmountTypes'
  BY AmountsHold
<1> QED BY <1>1, <1>2, InvHolds, PTL DEF Spec

\* Every version, period, adjustment, lock and session keeps its type: above
\* all, a correction and what a period pays are integers, because whatever
\* can be closed or adjusted can be calculated.
THEOREM TypeCorrect == Spec => []TypeOK
<1>1. Inv /\ AmountTypes => TypeOK
  <2> SUFFICES ASSUME Inv, AmountTypes PROVE TypeOK
    OBVIOUS
  <2>1. ASSUME NEW s \in Session PROVE sess[s] \in SessionState
    <3>1. sess[s] \in SessionShape(sess[s])
      BY DEF Inv, SessionOK
    <3>2. sess[s].deltas \in [Date -> [Date -> Int]]
      BY DEF AmountTypes
    <3> QED BY <3>1, <3>2 DEF SessionShape, SessionState, Rows
  <2>2. sess \in [Session -> SessionState]
    BY <2>1 DEF Inv, Types
  <2> QED BY <2>2 DEF TypeOK, Inv, Types, AmountTypes, DueTable, Rows
<1> QED BY <1>1, AmountsAlways, PTL

-----------------------------------------------------------------------------
(* ClosedPeriodsFollow holds while requests for different parts of the        *)
(* configuration do not overlap and periods do not change under a request.   *)

\* Requests in flight at once are for one scope, and a rule is archived alone:
\* the count of its versions is in no transaction.
RequestsApart ==
  \A s \in Session, q \in Session :
    s # q /\ sess[s] # Idle /\ sess[q] # Idle =>
      sess[s].scope = sess[q].scope /\ sess[s].op # "archiveRule"

\* No rule is copied that is worth something in a closed period: nothing is
\* adjusted for a copy.
CopiesApart ==
  \A s \in Session : sess[s].op = "copyRule" =>
    \A p \in Date : Closed(p) => InForce(sess[s].rows, p) = None

\* A step that locks, reopens or exports a period finds no request in flight,
\* and a period reopened has no adjustments outstanding.
PeriodsApart ==
  periods' # periods =>
    Quiet /\ \A p \in Date : Closed(p) /\ ~Closed(p)' => Adjusted(p, p) = 0

\* The same is in force, and it is worth the same.
SameAt(rows, new, day) ==
  /\ InForce(new, day) = InForce(rows, day)
  /\ InForce(rows, day) # None =>
       new[InForce(rows, day)].value = rows[InForce(rows, day)].value

\* What a period costs depends on what is in force in it only.
LEMMA AmountSame ==
  ASSUME NEW vs, NEW ws, NEW one, NEW other, NEW d \in Date, Calculable(vs, d),
         \A c \in Scope : SameAt(vs[c], ws[c], d),
         \A r \in Rule : InForce(vs[r], d) # None => one[r] = other[r]
  PROVE  Calculable(ws, d) /\ Amount(ws, other, d) = Amount(vs, one, d)
<1>1. "mode" \in Scope /\ "rate" \in Scope /\ Rule \subseteq Scope
  BY DEF Scope
<1>2. \A c \in Scope : InForce(vs[c], d) # None => ValueAt(ws, c, d) = ValueAt(vs, c, d)
  BY DEF SameAt, ValueAt
<1>3. InForce(vs["mode"], d) # None /\ PaysMoney(ws, d) = PaysMoney(vs, d)
  BY <1>1, <1>2 DEF Calculable, PaysMoney
<1>4. PaysMoney(vs, d) => ValueAt(ws, "rate", d) = ValueAt(vs, "rate", d)
  BY <1>1, <1>2 DEF Calculable
<1>5. Calculable(ws, d)
  BY <1>1, <1>3 DEF Calculable, SameAt
<1>6. Matching(ws, other, d) = Matching(vs, one, d)
  BY <1>1 DEF Matching, SameAt
<1> PICK matching : matching = Matching(vs, one, d)
  OBVIOUS
<1>7. \A r \in matching : ValueAt(ws, r, d) = ValueAt(vs, r, d)
  BY <1>1, <1>2 DEF Matching
<1>8. PaysMoney(vs, d) => \A r \in matching : Supplement(ws, r, d) = Supplement(vs, r, d)
  BY <1>4, <1>7 DEF Supplement
<1>9. PaysMoney(vs, d) =>
        [r \in matching |-> Supplement(ws, r, d)] = [r \in matching |-> Supplement(vs, r, d)]
  BY <1>8
<1>10. ValueAt(ws, "mode", d) = ValueAt(vs, "mode", d)
  BY <1>1, <1>2, <1>3
<1>11. ~PaysMoney(vs, d) => Amount(ws, other, d) = Amount(vs, one, d)
  BY <1>3 DEF Amount
<1>12. PaysMoney(vs, d) => Amount(ws, other, d) = Amount(vs, one, d)
  BY <1>3, <1>4, <1>6, <1>9, <1>10 DEF Amount
<1> QED BY <1>5, <1>11, <1>12

\* An insertion changes nothing before it.
LEMMA InsertionSame ==
  ASSUME NEW rows \in Rows, Chain(rows), NEW d \in Date \ Live(rows),
         NEW v \in AnyValue, NEW e \in BOOLEAN, NEW day \in Date, day < d
  PROVE  SameAt(rows, WithVersion(rows, d, NextOf(rows, d), v, e), day)
<1> PICK new : new = WithVersion(rows, d, NextOf(rows, d), v, e)
  OBVIOUS
<1>1. InForce(new, day) # d
  <2>1. d # None /\ ~ (d <= day)
    BY VersionsAssumption DEF Date, None
  <2> QED BY <2>1, InForceCovers DEF Covering
<1>2. InForce(new, day) = InForce(rows, day)
  BY <1>1, InsertionInForce
<1>3. \A f \in Date \ {d} : new[f].value = rows[f].value
  <2> PICK p : p = PreviousOf(rows, d)
    OBVIOUS
  <2> PICK cut : cut = CutOff(rows, p, d)
    OBVIOUS
  <2>1. new = [cut EXCEPT ![d] = [state |-> "live", to |-> NextOf(rows, d), value |-> v,
                                  enabled |-> e]]
    BY DEF WithVersion
  <2>2. /\ cut = [f \in Date |-> cut[f]]
        /\ \A f \in Date : cut[f].value = rows[f].value
    BY DEF CutOff, Rows, VersionRow
  <2> QED BY <2>1, <2>2
<1>4. InForce(rows, day) # None => InForce(rows, day) \in Date \ {d}
  BY InForceIsLive
<1>5. SameAt(rows, new, day)
  BY <1>2, <1>3, <1>4 DEF SameAt
<1> QED BY <1>5

\* A cancellation changes nothing before what it cancels.
LEMMA CancellationSame ==
  ASSUME NEW rows \in Rows, Chain(rows), NEW d \in Date, NEW day \in Date, day < d
  PROVE  SameAt(rows, Without(rows, d), day)
<1> PICK new : new = Without(rows, d)
  OBVIOUS
<1>1. InForce(new, day) = InForce(rows, day)
  BY CancellationInForce
<1>2. \A f \in Date : new[f].value = rows[f].value
  <2>c. PICK cancelled : cancelled = [rows EXCEPT ![d].state = "CANCELLED"]
    OBVIOUS
  <2>1. new = CutOff(cancelled, PreviousOf(rows, d), NextOf(rows, d))
    BY <2>c DEF Without
  <2>2. /\ cancelled \in Rows
        /\ \A f \in Date : cancelled[f].value = rows[f].value
    BY <2>c DEF Rows, VersionRow
  <2> QED BY <2>1, <2>2 DEF CutOff, Rows, VersionRow
<1>3. InForce(rows, day) # None => InForce(rows, day) \in Date
  BY InForceIsLive
<1>4. SameAt(rows, new, day)
  BY <1>1, <1>2, <1>3 DEF SameAt
<1> QED BY <1>4

\* What is not written stays the same.
LEMMA UnchangedSame ==
  ASSUME NEW rows, NEW day PROVE SameAt(rows, rows, day)
BY DEF SameAt

Active(status) == [r \in Rule |-> status[r] = "active"]

\* The run of a period pays for no later entry.
RunsLookBack ==
  \A p \in Date, e \in Date : e > p => periods[p].lines[e] = 0

\* Nothing is due for a later entry, nor settled in the period itself or before.
DueLooksBack ==
  \A o \in Date, e \in Date, s \in MaybeDate :
    e > o \/ (s # None /\ s <= o) => due[o][e][s] = 0

\* The adjustments for an open period cancel out.
OpenOwesNothing == \A p \in Date : ~Closed(p) => Adjusted(p, p) = 0

Follows(p) ==
  /\ p < today
  /\ Calculable(versions, p)
  /\ periods[p].lines[p] + Adjusted(p, p) = Cost(p)

ClosedFollow == \A p \in Date : Closed(p) => Follows(p)

\* Once written, the deltas of a make period o amount to what it will cost.
SettlesAt(a, o) ==
  /\ \A e \in Date : e > o => a.deltas[o][e] = 0
  /\ o \notin a.closed => a.deltas[o][o] = 0
  /\ o \in a.closed =>
       /\ Calculable(Inserted(a), o)
       /\ periods[o].lines[o] + Adjusted(o, o) + a.deltas[o][o]
            = Amount(Inserted(a), Active(RulesWith(a)), o)

\* A change that can still be written.
Writable(a) ==
  /\ a.op \in ChangeOp /\ a.step = "write"
  /\ a.op = "createRule" => rules[a.scope] = "none"

\* The closed periods of a request are those closed now; an archived rule has
\* no versions; and what can be written settles.
RequestFollows(a) ==
  /\ a.op = "archiveRule" => Live(versions[a.scope]) = {}
  /\ a.op \in ChangeOp => a.closed = {p \in Date : a.from <= p /\ Closed(p)}
  /\ Writable(a) => \A o \in Date : SettlesAt(a, o)

TablesFollow ==
  /\ RunsLookBack
  /\ DueLooksBack
  /\ OpenOwesNothing
  /\ ClosedFollow

FollowInv == TablesFollow /\ \A s \in Session : RequestFollows(sess[s])

\* The adjustments of a change amount to what the new versions change.
LEMMA DeltasSettle ==
  ASSUME Inv, AmountTypes, TablesFollow, ClosedInOrder, NEW vs \in [Scope -> Rows], NEW active,
         NEW closed \in SUBSET Date, \A p \in closed : Closed(p) /\ Calculable(vs, p),
         NEW o \in Date
  PROVE  /\ \A e \in Date : e > o => Deltas(vs, active, closed)[o][e] = 0
         /\ o \notin closed => Deltas(vs, active, closed)[o][o] = 0
         /\ o \in closed =>
              periods[o].lines[o] + Adjusted(o, o) + Deltas(vs, active, closed)[o][o]
                = Amount(vs, active, o)
<1>1. ASSUME NEW q \in Date, NEW e \in Date, e > q PROVE DeltaFor(vs, active, q, e) = 0
  <2>f. PICK f : f = due[q][e]
    OBVIOUS
  <2>1. f \in [MaybeDate -> Int] /\ \A s \in MaybeDate : f[s] = 0
    BY <1>1, <2>f DEF AmountTypes, DueTable, TablesFollow, DueLooksBack
  <2>2. Adjusted(q, e) = 0
    BY <2>f, <2>1, DatesAreFinite, TotalOfZeros DEF Adjusted
  <2>3. periods[q].lines[e] = 0 /\ e # q
    BY <1>1 DEF TablesFollow, RunsLookBack, Date
  <2> QED BY <2>2, <2>3 DEF DeltaFor
<1>2. ASSUME NEW q \in Date, Closed(q), Closed(o), periods[q].id < periods[o].id
      PROVE  o > q
  <2>1. q # o /\ ~ (o < q)
    BY <1>2, ClosedInOrder DEF ClosedInOrder, AmountTypes, PeriodRow
  <2> QED BY <2>1 DEF Date
<1>3. \A e \in Date : Deltas(vs, active, closed)[o][e] =
        IF /\ o \in closed /\ Closed(o)
           /\ \A earlier \in {q \in closed : periods[q].id < periods[o].id /\ Closed(q)} :
                DeltaFor(vs, active, earlier, e) = 0
        THEN DeltaFor(vs, active, o, e) ELSE 0
  BY DEF Deltas
<1>4. \A e \in Date : e > o => Deltas(vs, active, closed)[o][e] = 0
  BY <1>1, <1>3
<1>5. o \notin closed => Deltas(vs, active, closed)[o][o] = 0
  BY <1>3
<1>6. ASSUME o \in closed
      PROVE  periods[o].lines[o] + Adjusted(o, o) + Deltas(vs, active, closed)[o][o]
               = Amount(vs, active, o)
  <2>1. \A earlier \in {q \in closed : periods[q].id < periods[o].id /\ Closed(q)} :
          DeltaFor(vs, active, earlier, o) = 0
    BY <1>1, <1>2, <1>6
  <2>2. Deltas(vs, active, closed)[o][o] = DeltaFor(vs, active, o, o)
    BY <1>3, <1>6, <2>1
  <2>3. DeltaFor(vs, active, o, o) =
          Amount(vs, active, o) - periods[o].lines[o] - Adjusted(o, o)
    BY DEF DeltaFor
  <2>4. /\ Amount(vs, active, o) \in Int
        /\ periods[o].lines[o] \in Int /\ Adjusted(o, o) \in Int
    BY <1>6, AmountIsInt, AdjustedIsInt DEF AmountTypes, PeriodRow
  <2> QED BY <2>2, <2>3, <2>4
<1> QED BY <1>4, <1>5, <1>6

\* Where the tables stay, so does what was shown of a session.
LEMMA RequestStays ==
  ASSUME NEW a, RequestFollows(a), UNCHANGED tables
  PROVE  RequestFollows(a)'
<1>1. /\ versions' = versions /\ rules' = rules /\ periods' = periods /\ due' = due
  BY DEF tables
<1> QED BY <1>1
DEF RequestFollows, Writable, SettlesAt, Inserted, RulesWith, Closed, Adjusted

LEMMA TablesStay ==
  ASSUME TablesFollow, UNCHANGED tables, today \in Int, today' \in Int, today <= today'
  PROVE  TablesFollow'
<1>1. /\ versions' = versions /\ rules' = rules /\ periods' = periods /\ due' = due
  BY DEF tables
<1>2. ClosedFollow'
  <2> SUFFICES ASSUME NEW p \in Date, Closed(p)' PROVE Follows(p)'
    BY DEF ClosedFollow
  <2>1. Follows(p)
    BY <1>1 DEF Closed, TablesFollow, ClosedFollow
  <2>2. p < today'
    BY <2>1 DEF Follows, Date
  <2> QED BY <1>1, <2>1, <2>2 DEF Follows, Cost, Adjusted
<1> QED BY <1>1, <1>2
DEF TablesFollow, RunsLookBack, DueLooksBack, OpenOwesNothing, Closed, Adjusted

\* A session that does nothing follows.
LEMMA IdleFollows == RequestFollows(Idle) /\ RequestFollows(Idle)'
BY DEF RequestFollows, Writable, Idle, ChangeOp

\* A step of one session that leaves the tables alone.
LEMMA OwnStepFollows ==
  ASSUME Inv, FollowInv, NEW self \in Session, UNCHANGED <<tables, today>>,
         NEW b, sess' = [sess EXCEPT ![self] = b], RequestFollows(b)
  PROVE  FollowInv'
<1>1. UNCHANGED tables /\ today' = today /\ today \in Int
  BY DEF Inv, Types, Date
<1>2. sess'[self] = b /\ \A q \in Session \ {self} : sess'[q] = sess[q]
  BY DEF Inv, Types
<1>3. TablesFollow'
  BY <1>1, TablesStay DEF FollowInv
<1>4. RequestFollows(b)'
  BY <1>1, RequestStays
<1>5. ASSUME NEW q \in Session \ {self} PROVE RequestFollows(sess[q])'
  <2> PICK a : a = sess[q]
    OBVIOUS
  <2>1. RequestFollows(a)'
    BY <1>1, RequestStays DEF FollowInv
  <2> QED BY <1>2, <2>1
<1>6. RequestFollows(sess[self])'
  BY <1>2, <1>4
<1> QED BY <1>3, <1>5, <1>6 DEF FollowInv

LEMMA RollbackFollows ==
  ASSUME Inv, FollowInv, NEW self \in Session, Rollback(self)
  PROVE  FollowInv'
<1>1. sess' = [sess EXCEPT ![self] = Idle] /\ UNCHANGED <<tables, today>>
  BY DEF Rollback, Finish
<1> QED BY <1>1, IdleFollows, OwnStepFollows

LEMMA BeginFollows ==
  ASSUME Inv, FollowInv, NEW self \in Session, Request(self)
  PROVE  FollowInv'
<1>1. PICK state : Begin(self, state) /\ Fresh(state)
  BY RequestStarts
<1>2. sess' = [sess EXCEPT ![self] = state] /\ UNCHANGED <<tables, today>>
  BY <1>1 DEF Begin
<1>3. ClosedSince(state.from) = {p \in Date : state.from <= p /\ Closed(p)}
  BY DEF ClosedSince, FollowInv, TablesFollow, ClosedFollow, Follows
<1>4. RequestFollows(state)
  BY <1>1, <1>3 DEF Fresh, RequestFollows, Writable
<1> QED BY <1>2, <1>4, OwnStepFollows

LEMMA AcquireFollows ==
  ASSUME Inv, FollowInv, NEW self \in Session, Acquire(self)
  PROVE  FollowInv'
<1> PICK a : a = sess[self]
  OBVIOUS
<1> PICK b : b = [a EXCEPT !.step = "plan"]
  OBVIOUS
<1>1. sess' = [sess EXCEPT ![self] = b] /\ UNCHANGED <<tables, today>>
  BY DEF Acquire
<1>2. a \in SessionShape(a) /\ RequestFollows(a)
  BY DEF Inv, SessionOK, FollowInv
<1>3. /\ b.op = a.op /\ b.scope = a.scope /\ b.from = a.from /\ b.closed = a.closed
      /\ b.step = "plan"
  BY <1>2 DEF SessionShape
<1>4. RequestFollows(b)
  BY <1>2, <1>3 DEF RequestFollows, Writable
<1> QED BY <1>1, <1>4, OwnStepFollows

LEMMA PlanFollows ==
  ASSUME Inv, AmountTypes, FollowInv, ClosedInOrder, NEW self \in Session, ChangePlan(self)
  PROVE  FollowInv'
<1>1. CASE Rollback(self)
  BY <1>1, RollbackFollows
<1>2. CASE ~ Rollback(self)
  <2>1. PICK a :
          /\ a.op = sess[self].op /\ a.scope = sess[self].scope
          /\ a.from = sess[self].from /\ a.closed = sess[self].closed
          /\ a.scope \in Scope /\ a.from \in Date /\ a.closed \in SUBSET Date
          /\ a.value \in AnyValue /\ a.enabled \in BOOLEAN
          /\ a.op \in ChangeOp /\ PlanFresh(a)
          /\ a.op = "createRule" => rules[a.scope] = "none"
          /\ \A p \in a.closed : Closed(p) => Calculable(Inserted(a), p)
          /\ sess' = [sess EXCEPT ![self] =
               [a EXCEPT !.step = "write",
                  !.deltas = Deltas(Inserted(a),
                                    [r \in Rule |-> RulesWith(a)[r] = "active"],
                                    {p \in a.closed : Closed(p)})]]
          /\ UNCHANGED <<tables, today, held>>
    BY <1>2, PlanWrites
  <2> PICK vs : vs = Inserted(a)
    OBVIOUS
  <2> PICK active : active = Active(RulesWith(a))
    OBVIOUS
  <2>c. PICK closed : closed = {p \in a.closed : Closed(p)}
    OBVIOUS
  <2> PICK deltas : deltas = Deltas(vs, active, closed)
    OBVIOUS
  <2> PICK b : b = [a EXCEPT !.step = "write", !.deltas = deltas]
    OBVIOUS
  <2>2. sess' = [sess EXCEPT ![self] = b] /\ UNCHANGED <<tables, today>>
    BY <2>1, <2>c DEF Active
  <2>3. sess'[self] = b
    BY <2>2 DEF Inv, Types
  <2>4. b \in SessionShape(b)
    <3>1. SessionOK(sess[self], held[self])'
      BY <1>2, ChangePlanHolds DEF Inv
    <3> QED BY <2>3, <3>1 DEF SessionOK, SessionShape
  <2>5. a.closed = {p \in Date : a.from <= p /\ Closed(p)}
    BY <2>1 DEF FollowInv, RequestFollows
  <2>6. /\ closed = a.closed /\ closed \in SUBSET Date
        /\ vs \in [Scope -> Rows]
        /\ \A p \in closed : Closed(p) /\ Calculable(vs, p)
    BY <2>1, <2>5, <2>c, InsertedRows
  <2>7. b.deltas = deltas /\ b.step = "write"
    BY <2>4 DEF SessionShape
  <2>8. /\ b.op = a.op /\ b.scope = a.scope /\ b.from = a.from /\ b.closed = a.closed
        /\ b.to = a.to /\ b.value = a.value /\ b.enabled = a.enabled
        /\ b.previous = a.previous
    BY <2>4 DEF SessionShape
  <2>9. Inserted(b) = vs /\ RulesWith(b) = RulesWith(a)
    BY <2>8 DEF Inserted, RulesWith
  <2>10. ASSUME NEW o \in Date PROVE SettlesAt(b, o)
    <3>1. /\ \A e \in Date : e > o => deltas[o][e] = 0
          /\ o \notin closed => deltas[o][o] = 0
          /\ o \in closed =>
               periods[o].lines[o] + Adjusted(o, o) + deltas[o][o] = Amount(vs, active, o)
      <4>1. TablesFollow
        BY DEF FollowInv
      <4> QED BY <2>6, <4>1, DeltasSettle
    <3> QED BY <2>6, <2>7, <2>8, <2>9, <3>1 DEF SettlesAt
  <2>11. RequestFollows(b)
    BY <2>1, <2>5, <2>8, <2>10 DEF RequestFollows, ChangeOp
  <2> QED BY <2>2, <2>11, OwnStepFollows
<1> QED BY <1>1, <1>2

\* Of two requests for one scope in flight at once, one that commits leaves
\* nothing to write to the other: it holds the lock, or the rule exists then.
LEMMA OthersFollow ==
  ASSUME Inv, FollowInv, RequestsApart, NEW self \in Session, sess[self] # Idle,
         NEW c, c = sess[self].scope, UNCHANGED periods,
         \A r \in Rule : rules'[r] = "none" => rules[r] = "none",
         \/ c \in held[self] /\ Exists(c)
         \/ c \in Rule /\ rules[c] = "none" /\ rules'[c] # "none"
         \/ sess[self].op = "archiveRule",
         NEW q \in Session \ {self}, sess'[q] = sess[q]
  PROVE  RequestFollows(sess[q])'
<1> PICK b : b = sess[q]
  OBVIOUS
<1>1. CASE b = Idle
  BY <1>1, IdleFollows
<1>2. CASE b # Idle
  <2>1. b.scope = c /\ b.op # "archiveRule" /\ sess[self].op # "archiveRule"
    BY <1>2 DEF RequestsApart
  <2>2. SessionOK(b, held[q]) /\ RequestFollows(b)
    BY DEF Inv, FollowInv
  <2>3. ASSUME Writable(b)' PROVE FALSE
    <3>1. b.op \in ChangeOp /\ b.step = "write"
      BY <2>3 DEF Writable
    <3>2. CASE b.op = "createRule"
      <4>1. c \in Rule /\ rules'[c] = "none"
        BY <2>1, <2>2, <2>3, <3>2 DEF SessionOK, Writable
      <4> QED BY <2>1, <4>1 DEF Exists
    <3>3. CASE b.op # "createRule"
      <4>1. b.op \in {"createVersion", "deactivate"}
        BY <3>1, <3>3 DEF ChangeOp
      <4>2. Exists(c) /\ c \in held[q]
        BY <2>1, <2>2, <3>1, <4>1 DEF SessionOK, LockOf
      <4>3. c \notin held[self]
        BY <4>2 DEF Inv, LocksExclude
      <4> QED BY <2>1, <4>2, <4>3 DEF Exists
    <3> QED BY <3>2, <3>3
  <2>4. RequestFollows(b)'
    BY <2>1, <2>2, <2>3 DEF RequestFollows, Closed
  <2> QED BY <2>4
<1> QED BY <1>1, <1>2

\* What costs the same before and after.
CostSame(p) == Calculable(versions, p)' /\ Cost(p)' = Cost(p)

LEMMA CostStays ==
  ASSUME Inv, NEW c \in Scope, NEW new, versions' = [versions EXCEPT ![c] = new],
         NEW p \in Date, Calculable(versions, p), SameAt(versions[c], new, p),
         \A r \in Rule : InForce(versions[r], p) # None =>
           (rules'[r] = "active" <=> rules[r] = "active")
  PROVE  CostSame(p)
<1>1. \A b \in Scope : versions'[b] = IF b = c THEN new ELSE versions[b]
  BY DEF Inv, Types
<1>2. \A b \in Scope : SameAt(versions[b], versions'[b], p)
  BY <1>1, UnchangedSame
<1>a. PICK one : one = [r \in Rule |-> rules[r] = "active"]
  OBVIOUS
<1>b. PICK other : other = [r \in Rule |-> rules'[r] = "active"]
  OBVIOUS
<1>c. PICK vs : vs = versions
  OBVIOUS
<1>d. PICK ws : ws = versions'
  OBVIOUS
<1>3. /\ Calculable(vs, p)
      /\ \A b \in Scope : SameAt(vs[b], ws[b], p)
      /\ \A r \in Rule : InForce(vs[r], p) # None => one[r] = other[r]
  BY <1>2, <1>a, <1>b, <1>c, <1>d
<1>4. Calculable(ws, p) /\ Amount(ws, other, p) = Amount(vs, one, p)
  BY <1>3, AmountSame
<1>5. Cost(p) = Amount(vs, one, p) /\ Cost(p)' = Amount(ws, other, p)
  BY <1>a, <1>b, <1>c, <1>d DEF Cost
<1>6. Calculable(versions, p)' <=> Calculable(ws, p)
  BY <1>d DEF Calculable, PaysMoney, ValueAt
<1> QED BY <1>4, <1>5, <1>6 DEF CostSame

\* A commit that makes no adjustments changes no closed period's cost.
LEMMA PlainCommitFollows ==
  ASSUME Inv, FollowInv, RequestsApart, NEW self \in Session, sess[self] # Idle,
         Finish(self), UNCHANGED <<periods, due, today>>,
         NEW c, c = sess[self].scope,
         \A r \in Rule : rules'[r] = "none" => rules[r] = "none",
         \/ c \in held[self] /\ Exists(c)
         \/ c \in Rule /\ rules[c] = "none" /\ rules'[c] # "none"
         \/ sess[self].op = "archiveRule",
         \A p \in Date : Closed(p) => CostSame(p)
  PROVE  FollowInv'
<1>1. sess'[self] = Idle /\ \A q \in Session \ {self} : sess'[q] = sess[q]
  BY DEF Finish, Inv, Types
<1>2. \A q \in Session \ {self} : RequestFollows(sess[q])'
  BY <1>1, OthersFollow
<1>3. RequestFollows(sess[self])'
  BY <1>1, IdleFollows
<1>4. ClosedFollow'
  <2> SUFFICES ASSUME NEW p \in Date, Closed(p)' PROVE Follows(p)'
    BY DEF ClosedFollow
  <2>1. Follows(p) /\ CostSame(p)
    BY DEF Closed, FollowInv, TablesFollow, ClosedFollow
  <2> QED BY <2>1 DEF Follows, CostSame, Adjusted
<1>5. TablesFollow'
  BY <1>4
  DEF FollowInv, TablesFollow, RunsLookBack, DueLooksBack, OpenOwesNothing, Closed, Adjusted
<1> QED BY <1>2, <1>3, <1>5 DEF FollowInv

\* What is cancelled lies in the future.
LEMMA CancelFollows ==
  ASSUME Inv, FollowInv, RequestsApart, NEW self \in Session, CancelCommit(self)
  PROVE  FollowInv'
<1> PICK a : a = sess[self]
  OBVIOUS
<1>1. CASE Rollback(self)
  BY <1>1, RollbackFollows
<1>2. CASE ~ Rollback(self)
  <2>1. /\ a.op \in CancelOp /\ a.step = "plan" /\ SessionOK(a, held[self])
        /\ Cancellable(a) /\ Finish(self) /\ UNCHANGED <<periods, due, today>>
        /\ versions' = [versions EXCEPT ![a.scope] = Without(versions[a.scope], a.from)]
        /\ rules' = IF /\ a.op = "deleteRuleVersion"
                       /\ Live([versions[a.scope] EXCEPT ![a.from].state = "CANCELLED"]) = {}
                    THEN [rules EXCEPT ![a.scope] = "archived"] ELSE rules
    BY <1>2 DEF CancelCommit, At, Without, Inv
  <2>2. /\ a.scope \in Scope /\ a.from \in Date /\ Exists(a.scope)
        /\ a.scope \in held[self] /\ a # Idle /\ today < a.from
    BY <2>1 DEF SessionOK, CancelOp, LockOf, Cancellable, Idle
  <2>3. \A r \in Rule : rules'[r] = "none" => rules[r] = "none"
    BY <2>1 DEF Inv, Types
  <2> PICK rows : rows = versions[a.scope]
    OBVIOUS
  <2>4. rows \in Rows /\ Chain(rows)
    BY <2>2, RowsChain
  <2>5. ASSUME NEW p \in Date, Closed(p) PROVE CostSame(p)
    <3>1. p < a.from /\ Calculable(versions, p)
      <4>1. p < today /\ Calculable(versions, p)
        BY <2>5 DEF FollowInv, TablesFollow, ClosedFollow, Follows
      <4> QED BY <2>2, <4>1 DEF Inv, Types, Date
    <3>2. SameAt(rows, Without(rows, a.from), p)
      BY <2>2, <2>4, <3>1, CancellationSame
    <3>3. ASSUME NEW r \in Rule, InForce(versions[r], p) # None,
                 rules'[r] # rules[r]
          PROVE  FALSE
      <4>1. /\ r = a.scope
            /\ Live([rows EXCEPT ![a.from].state = "CANCELLED"]) = {}
        BY <2>1, <3>3 DEF Inv, Types
      <4>2. InForce(rows, p) \in Live(rows) /\ InForce(rows, p) <= p
        BY <3>3, <4>1, InForceCovers DEF Covering
      <4>3. InForce(rows, p) \in Date \ {a.from}
        BY <3>1, <4>2, <2>2 DEF Live, Date
      <4>4. InForce(rows, p) \in Live([rows EXCEPT ![a.from].state = "CANCELLED"])
        BY <2>4, <4>2, <4>3 DEF Live, Rows, VersionRow
      <4> QED BY <4>1, <4>4
    <3> QED BY <2>1, <2>2, <3>1, <3>2, <3>3, CostStays
  <2> QED BY <2>1, <2>2, <2>3, <2>5, PlainCommitFollows
<1> QED BY <1>1, <1>2

\* The versions of a copy are worth nothing in a closed period.
LEMMA CopyFollows ==
  ASSUME Inv, FollowInv, RequestsApart, CopiesApart, NEW self \in Session,
         CopyRuleCommit(self)
  PROVE  FollowInv'
<1> PICK a : a = sess[self]
  OBVIOUS
<1>1. CASE Rollback(self)
  BY <1>1, RollbackFollows
<1>2. CASE ~ Rollback(self)
  <2>1. /\ a.op = "copyRule" /\ SessionOK(a, held[self]) /\ a # Idle
        /\ rules[a.scope] = "none"
        /\ versions' = [versions EXCEPT ![a.scope] = a.rows]
        /\ rules' = [rules EXCEPT ![a.scope] = "active"]
        /\ Finish(self) /\ UNCHANGED <<periods, due, today>>
    BY <1>2 DEF CopyRuleCommit, At, Inv, Idle
  <2>2. a.scope \in Rule /\ a.scope \in Scope
    BY <2>1 DEF SessionOK, Scope
  <2>3. /\ rules'[a.scope] # "none"
        /\ \A r \in Rule \ {a.scope} : rules'[r] = rules[r]
    BY <2>1, <2>2 DEF Inv, Types
  <2>4. ASSUME NEW p \in Date, Closed(p) PROVE CostSame(p)
    <3>1. InForce(versions[a.scope], p) = None
      <4>1. Live(versions[a.scope]) = {}
        BY <2>1, <2>2 DEF Inv, NewRulesBlank
      <4> QED BY <4>1, InForceCovers DEF Covering
    <3>2. SameAt(versions[a.scope], a.rows, p)
      BY <2>1, <2>4, <3>1 DEF CopiesApart, SameAt
    <3>3. Calculable(versions, p)
      BY <2>4 DEF FollowInv, TablesFollow, ClosedFollow, Follows
    <3> QED BY <2>1, <2>2, <2>3, <3>1, <3>2, <3>3, CostStays
  <2> QED BY <2>1, <2>2, <2>3, <2>4, PlainCommitFollows
<1> QED BY <1>1, <1>2

\* A rule that is archived is in force nowhere.
LEMMA ArchiveFollows ==
  ASSUME Inv, FollowInv, RequestsApart, NEW self \in Session, ArchiveRuleCommit(self)
  PROVE  FollowInv'
<1> PICK a : a = sess[self]
  OBVIOUS
<1>1. /\ a.op = "archiveRule" /\ SessionOK(a, held[self]) /\ a # Idle
      /\ rules' = [rules EXCEPT ![a.scope] = "archived"]
      /\ Finish(self) /\ UNCHANGED <<versions, periods, due, today>>
  BY DEF ArchiveRuleCommit, At, Inv, Idle
<1>2. a.scope \in Rule /\ a.scope \in Scope /\ Live(versions[a.scope]) = {}
  BY <1>1 DEF SessionOK, Scope, FollowInv, RequestFollows
<1>3. /\ \A r \in Rule : rules'[r] = "none" => rules[r] = "none"
      /\ \A r \in Rule \ {a.scope} : rules'[r] = rules[r]
  BY <1>1, <1>2 DEF Inv, Types
<1>4. ASSUME NEW p \in Date, Closed(p) PROVE CostSame(p)
  <2>1. InForce(versions[a.scope], p) = None
    BY <1>2, InForceCovers DEF Covering
  <2>2. Calculable(versions, p)
    BY <1>4 DEF FollowInv, TablesFollow, ClosedFollow, Follows
  <2>3. versions' = [versions EXCEPT ![a.scope] = versions[a.scope]]
    BY <1>1, <1>2 DEF Inv, Types
  <2> QED BY <1>2, <1>3, <2>1, <2>2, <2>3, CostStays, UnchangedSame
<1> QED BY <1>1, <1>2, <1>3, <1>4, PlainCommitFollows

\* A change adjusts the closed periods it reaches, and leaves those before.
LEMMA ChangeFollows ==
  ASSUME Inv, AmountTypes, FollowInv, RequestsApart, NEW self \in Session,
         ChangeCommit(self)
  PROVE  FollowInv'
<1> PICK a : a = sess[self]
  OBVIOUS
<1>1. CASE Rollback(self)
  BY <1>1, RollbackFollows
<1>2. CASE ~ Rollback(self)
  <2>1. /\ a.op \in ChangeOp /\ a.step = "write" /\ a # Idle
        /\ SessionOK(a, held[self]) /\ RequestFollows(a)
        /\ a.op = "createRule" => rules[a.scope] = "none"
        /\ versions' = Inserted(a) /\ rules' = RulesWith(a)
        /\ due' = [o \in Date |-> [e \in Date |->
                     [due[o][e] EXCEPT ![None] = @ + a.deltas[o][e]]]]
        /\ Finish(self) /\ UNCHANGED <<periods, today>>
    BY <1>2 DEF ChangeCommit, At, Inv, FollowInv, Idle
  <2>2. /\ a.scope \in Scope /\ a.from \in Date /\ a.value \in AnyValue
        /\ a.enabled \in BOOLEAN /\ PlanFresh(a)
        /\ a.op = "createRule" => a.scope \in Rule
    BY <2>1 DEF SessionOK, SessionShape, ChangeOp
  <2>3. \/ a.scope \in held[self] /\ Exists(a.scope) /\ rules' = rules
        \/ /\ a.scope \in Rule /\ rules[a.scope] = "none"
           /\ rules' = [rules EXCEPT ![a.scope] = "active"]
    BY <2>1, <2>2 DEF SessionOK, ChangeOp, LockOf, RulesWith
  <2>4. /\ \A r \in Rule : rules'[r] = "none" => rules[r] = "none"
        /\ \A r \in Rule \ {a.scope} : rules'[r] = rules[r]
        /\ \/ a.scope \in held[self] /\ Exists(a.scope)
           \/ a.scope \in Rule /\ rules[a.scope] = "none" /\ rules'[a.scope] # "none"
    BY <2>3 DEF Inv, Types
  <2>5. \A o \in Date : SettlesAt(a, o)
    BY <2>1 DEF RequestFollows, Writable
  <2>6. a.closed = {p \in Date : a.from <= p /\ Closed(p)}
    BY <2>1 DEF RequestFollows
  <2>7. \A o \in Date, e \in Date :
          /\ due[o][e] \in [MaybeDate -> Int] /\ a.deltas[o][e] \in Int
          /\ due'[o][e] = [due[o][e] EXCEPT ![None] = @ + a.deltas[o][e]]
    BY <2>1 DEF AmountTypes, DueTable
  <2>8. ASSUME NEW o \in Date
        PROVE  /\ Adjusted(o, o)' = Adjusted(o, o) + a.deltas[o][o]
               /\ Adjusted(o, o) \in Int /\ a.deltas[o][o] \in Int
    <3>a. PICK f : f = due[o][o]
      OBVIOUS
    <3>b. PICK more : more = a.deltas[o][o]
      OBVIOUS
    <3>c. PICK g : g = [f EXCEPT ![None] = @ + more]
      OBVIOUS
    <3>1. f \in [MaybeDate -> Int] /\ more \in Int /\ None \in MaybeDate /\ due'[o][o] = g
      BY <2>7, <3>a, <3>b, <3>c DEF MaybeDate
    <3>2. f[None] + more \in Int /\ f[None] \in Int
      BY <3>1
    <3>3. /\ g \in [MaybeDate -> Int] /\ g[None] = f[None] + more
          /\ \A s \in MaybeDate \ {None} : f[s] = g[s]
      BY <3>1, <3>2, <3>c
    <3>4. SumFunction(g) = SumFunction(f) - f[None] + g[None]
      BY <3>1, <3>3, DatesAreFinite, TotalWithChange
    <3>5. SumFunction(f) \in Int
      BY <3>1, DatesAreFinite, TotalIsInt
    <3>6. SumFunction(g) = SumFunction(f) + more
      BY <3>1, <3>2, <3>3, <3>4, <3>5
    <3> QED BY <3>1, <3>5, <3>6, <3>a, <3>b DEF Adjusted
  <2>9. DueLooksBack'
    <3> SUFFICES ASSUME NEW o \in Date, NEW e \in Date, NEW s \in MaybeDate,
                        e > o \/ (s # None /\ s <= o)
                 PROVE  due'[o][e][s] = 0
      BY DEF DueLooksBack
    <3>1. due[o][e][s] = 0
      BY DEF FollowInv, TablesFollow, DueLooksBack
    <3>2. e > o => a.deltas[o][e] = 0
      BY <2>5 DEF SettlesAt
    <3>3. due'[o][e][s] = IF s = None THEN due[o][e][s] + a.deltas[o][e] ELSE due[o][e][s]
      <4> PICK f : f = due[o][e]
        OBVIOUS
      <4> PICK g : g = due'[o][e]
        OBVIOUS
      <4> PICK more : more = a.deltas[o][e]
        OBVIOUS
      <4>1. f \in [MaybeDate -> Int] /\ g = [f EXCEPT ![None] = f[None] + more]
        BY <2>7
      <4> QED BY <4>1
    <3> QED BY <3>1, <3>2, <3>3
  <2>10. OpenOwesNothing'
    <3> SUFFICES ASSUME NEW p \in Date, ~Closed(p)' PROVE Adjusted(p, p)' = 0
      BY DEF OpenOwesNothing
    <3>1. ~Closed(p)
      BY <2>1 DEF Closed
    <3>2. Adjusted(p, p) = 0 /\ a.deltas[p][p] = 0
      BY <2>5, <2>6, <3>1 DEF SettlesAt, FollowInv, TablesFollow, OpenOwesNothing
    <3> QED BY <2>8, <3>2
  <2>11. ClosedFollow'
    <3> SUFFICES ASSUME NEW p \in Date, Closed(p)' PROVE Follows(p)'
      BY DEF ClosedFollow
    <3>1. Closed(p) /\ periods'[p].lines = periods[p].lines
      BY <2>1 DEF Closed
    <3>2. p < today /\ Calculable(versions, p)
          /\ periods[p].lines[p] + Adjusted(p, p) = Cost(p)
      BY <3>1 DEF FollowInv, TablesFollow, ClosedFollow, Follows
    <3>3. periods[p].lines[p] \in Int
      BY DEF AmountTypes, PeriodRow
    <3>4. CASE p \in a.closed
      <4>1. /\ Calculable(Inserted(a), p)
            /\ periods[p].lines[p] + Adjusted(p, p) + a.deltas[p][p]
                 = Amount(Inserted(a), Active(RulesWith(a)), p)
        BY <2>5, <3>4 DEF SettlesAt
      <4>2. Cost(p)' = Amount(Inserted(a), Active(RulesWith(a)), p)
        BY <2>1 DEF Cost, Active
      <4>3. Calculable(versions, p)'
        BY <2>1, <4>1 DEF Calculable, PaysMoney, ValueAt
      <4>4. periods[p].lines[p] + Adjusted(p, p)' = Cost(p)'
        BY <2>8, <3>3, <4>1, <4>2
      <4> QED BY <2>1, <3>1, <3>2, <4>3, <4>4 DEF Follows
    <3>5. CASE p \notin a.closed
      <4>1. p < a.from /\ a.deltas[p][p] = 0
        BY <2>2, <2>5, <2>6, <3>1, <3>5 DEF SettlesAt, Date
      <4> PICK rows : rows = versions[a.scope]
        OBVIOUS
      <4> PICK new : new = WithVersion(rows, a.from, NextOf(rows, a.from), a.value, a.enabled)
        OBVIOUS
      <4>2. rows \in Rows /\ Chain(rows) /\ a.from \in Date \ Live(rows)
        BY <2>2, RowsChain DEF PlanFresh, Live
      <4>3. SameAt(rows, new, p)
        BY <2>2, <4>1, <4>2, InsertionSame
      <4>4. versions' = [versions EXCEPT ![a.scope] = new]
        BY <2>1, <2>2, InsertedRows
      <4>5. ASSUME NEW r \in Rule, InForce(versions[r], p) # None PROVE rules'[r] = rules[r]
        <5>1. CASE r = a.scope /\ rules[r] = "none"
          <6>1. Live(versions[r]) = {}
            BY <5>1 DEF Inv, NewRulesBlank
          <6> QED BY <4>5, <6>1, InForceCovers DEF Covering
        <5> QED BY <2>3, <2>4, <5>1
      <4>6. CostSame(p)
        BY <2>2, <3>2, <4>3, <4>4, <4>5, CostStays
      <4>7. Adjusted(p, p)' = Adjusted(p, p)
        BY <2>8, <4>1
      <4> QED BY <2>1, <3>1, <3>2, <4>6, <4>7 DEF Follows, CostSame
    <3> QED BY <3>4, <3>5
  <2>12. RunsLookBack'
    BY <2>1 DEF FollowInv, TablesFollow, RunsLookBack
  <2>13. sess'[self] = Idle /\ \A q \in Session \ {self} : sess'[q] = sess[q]
    BY <2>1 DEF Finish, Inv, Types
  <2>14. \A q \in Session \ {self} : RequestFollows(sess[q])'
    BY <2>1, <2>4, <2>13, OthersFollow
  <2>15. RequestFollows(sess[self])'
    BY <2>13, IdleFollows
  <2> QED BY <2>9, <2>10, <2>11, <2>12, <2>14, <2>15 DEF FollowInv, TablesFollow
<1> QED BY <1>1, <1>2

-----------------------------------------------------------------------------
(* Steps of periods *)

\* Including what is due moves it, and changes no total.
LEMMA InclusionMoves ==
  ASSUME due \in DueTable, NEW p \in Date, NEW o \in Date, NEW e \in Date
  PROVE  SumFunction(Included(p)[o][e]) = SumFunction(due[o][e])
<1>a. PICK f : f = due[o][e]
  OBVIOUS
<1>b. PICK g : g = Included(p)[o][e]
  OBVIOUS
<1>1. f \in [MaybeDate -> Int] /\ g \in [MaybeDate -> Int]
  BY <1>a, <1>b, IncludedTypes DEF DueTable
<1>2. \A s \in MaybeDate :
        g[s] = IF o < p /\ s = p THEN f[p] + f[None]
               ELSE IF o < p /\ s = None THEN 0 ELSE f[s]
  BY <1>a, <1>b DEF Included
<1>3. p \in MaybeDate /\ None \in MaybeDate /\ p # None
  BY DEF MaybeDate, Date, None
<1>4. CASE ~(o < p)
  <2>1. \A s \in MaybeDate : g[s] = f[s]
    BY <1>2, <1>4
  <2>2. g = f
    BY <1>1, <2>1
  <2> QED BY <2>2, <1>a, <1>b
<1>5. CASE o < p
  <2>1. /\ g[p] = f[p] + f[None] /\ g[None] = 0
        /\ \A s \in MaybeDate \ {p, None} : f[s] = g[s]
    BY <1>2, <1>3, <1>5
  <2>2. SumFunction(g) = SumFunction(f)
    BY <1>1, <1>3, <2>1, DatesAreFinite, TotalWithMove
  <2> QED BY <2>2, <1>a, <1>b
<1> QED BY <1>4, <1>5

LEMMA LockFollows ==
  ASSUME Inv, AmountTypes, FollowInv, NEW p \in Date, LockPeriod(p), PeriodsApart
  PROVE  FollowInv'
<1>1. /\ p < today /\ ~Closed(p) /\ Calculable(versions, p)
      /\ periods' = [periods EXCEPT ![p] =
           [id |-> IdOf(p), status |-> "LOCKED", lines |-> RunLines(p)]]
      /\ due' = Included(p)
      /\ UNCHANGED <<versions, rules, today, sess>>
  BY DEF LockPeriod
<1>2. /\ periods'[p] = [id |-> IdOf(p), status |-> "LOCKED", lines |-> RunLines(p)]
      /\ \A q \in Date \ {p} : periods'[q] = periods[q]
  BY <1>1 DEF AmountTypes
<1>3. periods' # periods
  BY <1>1, <1>2 DEF Closed
<1>4. \A s \in Session : RequestFollows(sess[s])'
  BY <1>1, <1>3, IdleFollows DEF PeriodsApart, Quiet
<1>5. Closed(p)' /\ \A q \in Date \ {p} : Closed(q)' <=> Closed(q)
  BY <1>2 DEF Closed
<1>6. due \in DueTable /\ due' \in DueTable /\ p \in MaybeDate /\ None \in MaybeDate
  BY <1>1, IncludedTypes DEF AmountTypes, MaybeDate
<1>7. \A o \in Date, e \in Date, s \in MaybeDate :
        due'[o][e][s] = IF o < p /\ s = p THEN due[o][e][p] + due[o][e][None]
                        ELSE IF o < p /\ s = None THEN 0 ELSE due[o][e][s]
  BY <1>1 DEF Included
<1>8. \A o \in Date, e \in Date, s \in MaybeDate :
        e > o \/ (s # None /\ s <= o) => due[o][e][s] = 0
  BY DEF FollowInv, TablesFollow, DueLooksBack
<1>9. DueLooksBack'
  <2> SUFFICES ASSUME NEW o \in Date, NEW e \in Date, NEW s \in MaybeDate,
                      e > o \/ (s # None /\ s <= o)
               PROVE  due'[o][e][s] = 0
    BY DEF DueLooksBack
  <2>1. e > o => due[o][e][p] = 0 /\ due[o][e][None] = 0 /\ due[o][e][s] = 0
    BY <1>6, <1>8
  <2>2. CASE e > o
    BY <1>7, <2>1, <2>2
  <2>3. CASE s # None /\ s <= o
    <3>1. ~(o < p /\ s = p) /\ due[o][e][s] = 0
      BY <1>8, <2>3 DEF Date
    <3> QED BY <1>7, <2>3, <3>1
  <2> QED BY <2>2, <2>3
<1> DEFINE total(e) == SumFunction([o \in Date |-> Included(p)[o][e][p]])
<1>10. ASSUME NEW e \in Date, e >= p PROVE total(e) = 0
  <2>f. PICK f : f = [o \in Date |-> Included(p)[o][e][p]]
    OBVIOUS
  <2>1. \A o \in Date : f[o] = 0
    <3> TAKE o \in Date
    <3>1. f[o] = due'[o][e][p]
      BY <1>1, <2>f
    <3>2. e > o \/ (p # None /\ p <= o)
      BY <1>10 DEF Date, None
    <3> QED BY <1>6, <1>9, <3>1, <3>2 DEF DueLooksBack
  <2>2. f \in [Date -> Int]
    BY <2>1, <2>f
  <2>3. SumFunction(f) = 0
    BY <2>1, <2>2, DatesAreFinite, TotalOfZeros
  <2> QED BY <2>3, <2>f
<1>11. \A e \in Date : RunLines(p)[e] = (IF e = p THEN Cost(p) ELSE 0) + total(e)
  BY DEF RunLines, Cost
<1> HIDE DEF total
<1>12. Cost(p) \in Int
  BY <1>1, AmountIsInt DEF Cost, Inv, Types
<1>13. RunLines(p)[p] = Cost(p) /\ \A e \in Date : e > p => RunLines(p)[e] = 0
  <2>1. \A e \in Date : e > p => e >= p /\ e # p
    BY DEF Date
  <2>2. p >= p
    BY DEF Date
  <2>3. RunLines(p)[p] = Cost(p)
    BY <1>10, <1>11, <1>12, <2>2
  <2>4. ASSUME NEW e \in Date, e > p PROVE RunLines(p)[e] = 0
    BY <1>10, <1>11, <2>1, <2>4
  <2> QED BY <2>3, <2>4
<1>14. RunsLookBack'
  BY <1>2, <1>13 DEF FollowInv, TablesFollow, RunsLookBack
<1>15. \A q \in Date : Adjusted(q, q)' = Adjusted(q, q)
  BY <1>1, <1>6, InclusionMoves DEF Adjusted
<1>16. OpenOwesNothing'
  BY <1>5, <1>15 DEF FollowInv, TablesFollow, OpenOwesNothing
<1>17. ClosedFollow'
  <2> SUFFICES ASSUME NEW q \in Date, Closed(q)' PROVE Follows(q)'
    BY DEF ClosedFollow
  <2>1. Cost(q)' = Cost(q) /\ (Calculable(versions, q)' <=> Calculable(versions, q))
    BY <1>1 DEF Cost, Calculable, PaysMoney, ValueAt
  <2>2. CASE q = p
    <3>1. Adjusted(p, p) = 0
      BY <1>1 DEF FollowInv, TablesFollow, OpenOwesNothing
    <3>2. periods'[p].lines[p] + Adjusted(p, p)' = Cost(p)
      BY <1>2, <1>12, <1>13, <1>15, <3>1
    <3> QED BY <1>1, <2>1, <2>2, <3>2 DEF Follows
  <2>3. CASE q # p
    <3>1. Follows(q)
      BY <1>5, <2>3 DEF FollowInv, TablesFollow, ClosedFollow
    <3> QED BY <1>1, <1>2, <1>15, <2>1, <2>3, <3>1 DEF Follows
  <2> QED BY <2>2, <2>3
<1> QED BY <1>4, <1>9, <1>14, <1>16, <1>17 DEF FollowInv, TablesFollow

\* Reopening and exporting a period keep its run.
LEMMA StatusFollows ==
  ASSUME Inv, AmountTypes, FollowInv, NEW p \in Date, UnlockPeriod(p) \/ ExportPeriod(p),
         PeriodsApart
  PROVE  FollowInv'
<1>1. /\ periods[p].status = "LOCKED"
      /\ \E x \in {"OPEN", "EXPORTED"} : periods' = [periods EXCEPT ![p].status = x]
      /\ UNCHANGED <<versions, rules, due, today, sess>>
  BY DEF UnlockPeriod, ExportPeriod
<1>2. /\ periods'[p].status # "LOCKED"
      /\ \A q \in Date : periods'[q].lines = periods[q].lines
      /\ \A q \in Date \ {p} : Closed(q)' <=> Closed(q)
      /\ Closed(p)
  BY <1>1 DEF AmountTypes, PeriodRow, Closed
<1>3. periods' # periods
  BY <1>1, <1>2
<1>4. \A s \in Session : RequestFollows(sess[s])'
  BY <1>1, <1>3, IdleFollows DEF PeriodsApart, Quiet
<1>5. ~Closed(p)' => Adjusted(p, p) = 0
  BY <1>2, <1>3 DEF PeriodsApart
<1>6. OpenOwesNothing'
  BY <1>1, <1>2, <1>5 DEF FollowInv, TablesFollow, OpenOwesNothing, Adjusted
<1>7. ClosedFollow'
  <2> SUFFICES ASSUME NEW q \in Date, Closed(q)' PROVE Follows(q)'
    BY DEF ClosedFollow
  <2>1. Follows(q)
    BY <1>2 DEF FollowInv, TablesFollow, ClosedFollow
  <2>2. Cost(q)' = Cost(q) /\ (Calculable(versions, q)' <=> Calculable(versions, q))
    BY <1>1 DEF Cost, Calculable, PaysMoney, ValueAt
  <2> QED BY <1>1, <1>2, <2>1, <2>2 DEF Follows, Adjusted
<1>8. RunsLookBack' /\ DueLooksBack'
  BY <1>1, <1>2 DEF FollowInv, TablesFollow, RunsLookBack, DueLooksBack
<1> QED BY <1>4, <1>6, <1>7, <1>8 DEF FollowInv, TablesFollow

-----------------------------------------------------------------------------
(* The theorem *)

LEMMA FollowHolds ==
  ASSUME Inv, AmountTypes, FollowInv, RequestsApart, CopiesApart, ClosedInOrder,
         [Next]_vars, [PeriodsApart]_vars
  PROVE  FollowInv'
<1>1. ASSUME NEW self \in Session, Advance(self) PROVE FollowInv'
  BY <1>1, AcquireFollows, PlanFollows, ChangeFollows, CancelFollows, CopyFollows,
     ArchiveFollows
  DEF Advance
<1>2. ASSUME NEW self \in Session, Request(self) \/ Crash(self) PROVE FollowInv'
  BY <1>2, BeginFollows, RollbackFollows DEF Crash
<1>3. CASE UNCHANGED vars
  <2>1. UNCHANGED tables /\ today' = today /\ sess' = sess
    BY <1>3 DEF vars, tables
  <2>2. today \in Int
    BY DEF Inv, Types, Date
  <2>3. TablesFollow'
    BY <2>1, <2>2, TablesStay DEF FollowInv
  <2>4. ASSUME NEW s \in Session PROVE RequestFollows(sess[s])'
    <3> PICK a : a = sess[s]
      OBVIOUS
    <3>1. RequestFollows(a)'
      BY <2>1, RequestStays DEF FollowInv
    <3> QED BY <2>1, <3>1
  <2> QED BY <2>3, <2>4 DEF FollowInv
<1>4. CASE PeriodStep
  <2>1. PICK p \in Date : LockPeriod(p) \/ UnlockPeriod(p) \/ ExportPeriod(p)
    BY <1>4 DEF PeriodStep
  <2>2. PeriodsApart
    <3>1. UNCHANGED vars => periods' = periods
      BY DEF vars, tables
    <3> QED BY <3>1 DEF PeriodsApart
  <2> QED BY <2>1, <2>2, LockFollows, StatusFollows
<1>5. CASE NextDay
  <2>1. UNCHANGED tables /\ today' = today + 1 /\ sess' = sess
    BY <1>5 DEF NextDay
  <2>2. today \in Int /\ today' \in Int /\ today <= today'
    BY <2>1 DEF Inv, Types, Date
  <2>3. TablesFollow'
    BY <2>1, <2>2, TablesStay DEF FollowInv
  <2>4. ASSUME NEW s \in Session PROVE RequestFollows(sess[s])'
    <3> PICK a : a = sess[s]
      OBVIOUS
    <3>1. RequestFollows(a)'
      BY <2>1, RequestStays DEF FollowInv
    <3> QED BY <2>1, <3>1
  <2> QED BY <2>3, <2>4 DEF FollowInv
<1> QED BY <1>1, <1>2, <1>3, <1>4, <1>5 DEF Next

LEMMA FollowStarts == Init => FollowInv
<1> SUFFICES ASSUME Init PROVE FollowInv
  OBVIOUS
<1>1. \A p \in Date : ~Closed(p) /\ periods[p].lines = NoLines
  BY DEF Init, Closed
<1>2. /\ \A o \in Date, e \in Date : due[o][e] \in [MaybeDate -> Int]
      /\ \A o \in Date, e \in Date, s \in MaybeDate : due[o][e][s] = 0
  BY DEF Init, NothingDue
<1>3. \A o \in Date : Adjusted(o, o) = 0
  BY <1>2, DatesAreFinite, TotalOfZeros DEF Adjusted
<1>4. TablesFollow
  BY <1>1, <1>2, <1>3
  DEF TablesFollow, RunsLookBack, DueLooksBack, OpenOwesNothing, ClosedFollow, NoLines
<1>5. \A s \in Session : RequestFollows(sess[s])
  BY IdleFollows DEF Init
<1> QED BY <1>4, <1>5 DEF FollowInv

\* As long as requests in flight at once are for one scope, rules in force in a
\* closed period are not copied, periods are locked, reopened and exported
\* between requests, and closed periods were first locked in the order of their
\* dates, the run of every closed period and the adjustments made for it amount
\* to what the configuration says: however many versions are inserted, cancelled
\* and disabled, in whatever order, and however requests of one scope
\* interleave, wait, fail and crash.
THEOREM ClosedPeriodsAreFollowed ==
  Spec /\ [](RequestsApart /\ CopiesApart /\ ClosedInOrder) /\ [][PeriodsApart]_vars
    => []ClosedPeriodsFollow
<1>1. Inv /\ AmountTypes /\ FollowInv /\ (RequestsApart /\ CopiesApart /\ ClosedInOrder)
        /\ [Next]_vars /\ [PeriodsApart]_vars => FollowInv'
  BY FollowHolds
<1>2. FollowInv => ClosedPeriodsFollow
  BY DEF FollowInv, TablesFollow, ClosedFollow, Follows, ClosedPeriodsFollow
<1> QED BY <1>1, <1>2, FollowStarts, AmountsAlways, PTL DEF Spec
=============================================================================
