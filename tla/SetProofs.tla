------------------------------ MODULE SetProofs ------------------------------
(***************************************************************************)
(* Least and greatest numbers, and sums over finite sets: what Min, Max,    *)
(* SumFunctionOnSet and SumFunction of the library return.                  *)
(***************************************************************************)
EXTENDS Integers, FiniteSetsExt, FiniteSetTheorems, WellFoundedInduction, TLAPS

-----------------------------------------------------------------------------
(* Least and greatest numbers *)

\* A set of natural numbers that is not empty has a least one.
LEMMA NatHasMin ==
  ASSUME NEW S \in SUBSET Nat, S # {}
  PROVE  \E x \in S : \A y \in S : x <= y
<1>1. \E x \in S : \A y \in S : ~ (<<y, x>> \in OpToRel(<, Nat))
  BY NatLessThanWellFounded, WFMin
<1>2. PICK x \in S : \A y \in S : ~ (<<y, x>> \in OpToRel(<, Nat))
  BY <1>1
<1>3. ASSUME NEW y \in S PROVE x <= y
  <2>1. ~ (y < x)
    BY <1>2 DEF OpToRel
  <2> QED BY <2>1
<1> QED BY <1>3

\* Min is the least number of a set.
LEMMA MinIsLeast ==
  ASSUME NEW S \in SUBSET Nat, S # {}
  PROVE  Min(S) \in S /\ \A y \in S : Min(S) <= y
BY NatHasMin DEF Min

\* Max is the greatest number of a bounded set.
LEMMA MaxIsGreatest ==
  ASSUME NEW n \in Nat, NEW S \in SUBSET (0 .. n), S # {}
  PROVE  Max(S) \in S /\ \A y \in S : y <= Max(S)
<1> DEFINE T == {n - y : y \in S}
<1>1. T \in SUBSET Nat /\ T # {}
  <2>1. \A y \in S : y \in Nat /\ n - y \in Nat
    OBVIOUS
  <2>2. PICK y \in S : TRUE
    OBVIOUS
  <2>3. n - y \in T
    OBVIOUS
  <2> QED BY <2>1, <2>3
<1>2. PICK x \in T : \A z \in T : x <= z
  BY <1>1, NatHasMin
<1>3. PICK m \in S : x = n - m
  BY <1>2
<1>4. \A y \in S : y <= m
  <2> TAKE y \in S
  <2>1. x <= n - y
    BY <1>2
  <2> QED BY <2>1, <1>3
<1> QED BY <1>4 DEF Max

-----------------------------------------------------------------------------
(* Induction over finite sets, by a counterexample with no smaller one *)

\* Of subsets of a finite set, one has no proper part among them.
LEMMA SmallestSubset ==
  ASSUME NEW S, IsFiniteSet(S), NEW Bad \in SUBSET SUBSET S, Bad # {}
  PROVE  \E T \in Bad : \A U \in Bad : U \subseteq T => U = T
<1> DEFINE sizes == {Cardinality(T) : T \in Bad}
<1>1. \A T \in SUBSET S : IsFiniteSet(T) /\ Cardinality(T) \in Nat
  BY FS_Subset, FS_CardinalityType
<1>2. sizes \in SUBSET Nat /\ sizes # {}
  BY <1>1
<1>3. PICK n \in sizes : \A m \in sizes : n <= m
  BY <1>2, NatHasMin
<1>4. PICK T \in Bad : Cardinality(T) = n
  OBVIOUS
<1>5. ASSUME NEW U \in Bad, U \subseteq T PROVE U = T
  <2>1. /\ Cardinality(U) <= Cardinality(T)
        /\ Cardinality(T) = Cardinality(U) => T = U
    BY <1>1, <1>5, FS_Subset
  <2>2. n <= Cardinality(U)
    BY <1>3
  <2> QED BY <1>1, <1>2, <1>4, <2>1, <2>2
<1> QED BY <1>5

-----------------------------------------------------------------------------
(* The recursion of the fold *)

AnyOf(s) == CHOOSE x \in s : TRUE

IsSum(f, S, g) ==
  g = [s \in SUBSET S |-> IF s = {} THEN 0 ELSE f[AnyOf(s)] + g[s \ {AnyOf(s)}]]

\* The library's sum chooses as IsSum does, one element after another.
LEMMA SumIsChosen ==
  ASSUME NEW f, NEW S
  PROVE  SumFunctionOnSet(f, S) = (CHOOSE g : IsSum(f, S, g))[S]
BY DEF SumFunctionOnSet, FoldFunctionOnSet, MapThenFoldSet, IsSum, AnyOf

\* A sum of the whole gives the sums of the parts.
LEMMA SumOfParts ==
  ASSUME NEW f, NEW S, NEW g, IsSum(f, S, g), NEW T \in SUBSET S,
         NEW h, h = [s \in SUBSET T |-> g[s]]
  PROVE  IsSum(f, T, h)
<1>1. ASSUME NEW s \in SUBSET T
      PROVE  h[s] = IF s = {} THEN 0 ELSE f[AnyOf(s)] + h[s \ {AnyOf(s)}]
  <2>1. s \in SUBSET S /\ s \ {AnyOf(s)} \in SUBSET T
    OBVIOUS
  <2>2. g[s] = IF s = {} THEN 0 ELSE f[AnyOf(s)] + g[s \ {AnyOf(s)}]
    BY <2>1 DEF IsSum
  <2>3. h[s] = g[s] /\ h[s \ {AnyOf(s)}] = g[s \ {AnyOf(s)}]
    BY <2>1
  <2> QED BY <2>2, <2>3
<1> QED BY <1>1 DEF IsSum

\* There is one sum at most.
LEMMA SumIsUnique ==
  ASSUME NEW f, NEW S, IsFiniteSet(S), NEW g, IsSum(f, S, g),
         NEW h, IsSum(f, S, h)
  PROVE  g = h
<1> DEFINE Bad == {s \in SUBSET S : g[s] # h[s]}
<1>1. \A s \in SUBSET S :
        /\ g[s] = IF s = {} THEN 0 ELSE f[AnyOf(s)] + g[s \ {AnyOf(s)}]
        /\ h[s] = IF s = {} THEN 0 ELSE f[AnyOf(s)] + h[s \ {AnyOf(s)}]
  BY DEF IsSum
<1>2. ASSUME Bad # {} PROVE FALSE
  <2>1. PICK s \in Bad : \A t \in Bad : t \subseteq s => t = s
    <3> HIDE DEF Bad
    <3>1. Bad \in SUBSET SUBSET S
      BY DEF Bad
    <3> QED BY <1>2, <3>1, SmallestSubset
  <2>2. s \in SUBSET S /\ s # {}
    BY <1>1
  <2>3. AnyOf(s) \in s
    BY <2>2 DEF AnyOf
  <2>4. g[s \ {AnyOf(s)}] = h[s \ {AnyOf(s)}]
    BY <2>1, <2>2, <2>3
  <2> QED BY <1>1, <2>1, <2>2, <2>4
<1>3. \A s \in SUBSET S : g[s] = h[s]
  BY <1>2
<1>4. /\ g = [s \in SUBSET S |-> g[s]]
      /\ h = [s \in SUBSET S |-> h[s]]
  BY DEF IsSum
<1> QED BY <1>3, <1>4

\* The sum of a set, one element at a time.
Summed(f, S) ==
  SumFunctionOnSet(f, S) =
    IF S = {} THEN 0
    ELSE f[AnyOf(S)] + SumFunctionOnSet(f, S \ {AnyOf(S)})

\* A sum is what the recursion says when it is for every smaller set.
LEMMA SumExists ==
  ASSUME NEW f, NEW S, IsFiniteSet(S),
         \A T \in SUBSET S : T # S => Summed(f, T)
  PROVE  \E g : IsSum(f, S, g)
<1> DEFINE below(s) == SumFunctionOnSet(f, s)
           all == IF S = {} THEN 0 ELSE f[AnyOf(S)] + below(S \ {AnyOf(S)})
           g == [s \in SUBSET S |-> IF s = S THEN all ELSE below(s)]
<1>1. ASSUME NEW s \in SUBSET S
      PROVE  g[s] = IF s = {} THEN 0 ELSE f[AnyOf(s)] + g[s \ {AnyOf(s)}]
  <2>1. s # {} => AnyOf(s) \in s
    BY DEF AnyOf
  <2>2. s # {} => s \ {AnyOf(s)} \in SUBSET S /\ s \ {AnyOf(s)} # S
    BY <2>1
  <2>3. s # {} => g[s \ {AnyOf(s)}] = below(s \ {AnyOf(s)})
    BY <2>2
  <2>4. CASE s = S
    BY <2>3, <2>4
  <2>5. CASE s # S
    <3>1. below(s) = IF s = {} THEN 0 ELSE f[AnyOf(s)] + below(s \ {AnyOf(s)})
      BY <2>5 DEF Summed
    <3> QED BY <2>3, <2>5, <3>1
  <2> QED BY <2>4, <2>5
<1>2. IsSum(f, S, g)
  <2> DEFINE h == [s \in SUBSET S |->
                     IF s = {} THEN 0 ELSE f[AnyOf(s)] + g[s \ {AnyOf(s)}]]
  <2>1. \A s \in SUBSET S : g[s] = h[s]
    BY <1>1
  <2>2. g = h
    <3> SUFFICES [s \in SUBSET S |-> IF s = S THEN all ELSE below(s)] = h
      OBVIOUS
    <3> QED BY <2>1
  <2> QED BY <2>2 DEF IsSum
<1> QED BY <1>2

\* The recursion defines a sum of every finite set.
LEMMA SumRecurs ==
  ASSUME NEW f, NEW S, IsFiniteSet(S)
  PROVE  Summed(f, S)
<1> DEFINE Bad == {T \in SUBSET S : ~Summed(f, T)}
<1>1. ASSUME NEW T \in SUBSET S, \A U \in SUBSET T : U # T => Summed(f, U)
      PROVE  Summed(f, T)
  <2>1. IsFiniteSet(T)
    BY FS_Subset
  <2>2. \E g : IsSum(f, T, g)
    BY <1>1, <2>1, SumExists
  <2> PICK g : g = CHOOSE h : IsSum(f, T, h)
    OBVIOUS
  <2>3. IsSum(f, T, g)
    BY <2>2
  <2>4. SumFunctionOnSet(f, T) = g[T]
    BY SumIsChosen
  <2>5. g[T] = IF T = {} THEN 0 ELSE f[AnyOf(T)] + g[T \ {AnyOf(T)}]
    BY <2>3 DEF IsSum
  <2>6. ASSUME T # {} PROVE SumFunctionOnSet(f, T \ {AnyOf(T)}) = g[T \ {AnyOf(T)}]
    <3> PICK U : U = T \ {AnyOf(T)}
      OBVIOUS
    <3>1. U \in SUBSET T /\ IsFiniteSet(U)
      BY <2>1, FS_Subset
    <3> PICK part : part = [s \in SUBSET U |-> g[s]]
      OBVIOUS
    <3>2. IsSum(f, U, part)
      BY <2>3, <3>1, SumOfParts
    <3> PICK h : h = CHOOSE k : IsSum(f, U, k)
      OBVIOUS
    <3>3. IsSum(f, U, h)
      BY <3>2
    <3>4. h = part
      BY <3>1, <3>2, <3>3, SumIsUnique
    <3>5. SumFunctionOnSet(f, U) = h[U]
      BY SumIsChosen
    <3> QED BY <3>4, <3>5
  <2> QED BY <2>4, <2>5, <2>6 DEF Summed
<1>2. ASSUME Bad # {} PROVE FALSE
  <2>1. PICK T \in Bad : \A U \in Bad : U \subseteq T => U = T
    <3> HIDE DEF Bad
    <3>1. Bad \in SUBSET SUBSET S
      BY DEF Bad
    <3> QED BY <1>2, <3>1, SmallestSubset
  <2>2. \A U \in SUBSET T : U # T => Summed(f, U)
    BY <2>1
  <2> QED BY <1>1, <2>1, <2>2
<1>3. S \in SUBSET S
  OBVIOUS
<1> QED BY <1>2, <1>3

-----------------------------------------------------------------------------
(* Sums of integers *)

\* There is nothing in the sum of nothing.
LEMMA SumOfNone ==
  ASSUME NEW f PROVE SumFunctionOnSet(f, {}) = 0
BY SumRecurs, FS_EmptySet DEF Summed

\* A sum of integers is one.
LEMMA SumIsInt ==
  ASSUME NEW f, NEW S, IsFiniteSet(S), \A x \in S : f[x] \in Int
  PROVE  SumFunctionOnSet(f, S) \in Int
<1> DEFINE Bad == {T \in SUBSET S : SumFunctionOnSet(f, T) \notin Int}
<1>1. ASSUME Bad # {} PROVE FALSE
  <2>1. PICK T \in Bad : \A U \in Bad : U \subseteq T => U = T
    <3> HIDE DEF Bad
    <3>1. Bad \in SUBSET SUBSET S
      BY DEF Bad
    <3> QED BY <1>1, <3>1, SmallestSubset
  <2>2. Summed(f, T)
    BY FS_Subset, SumRecurs
  <2>3. T # {}
    BY <2>2 DEF Summed
  <2>4. AnyOf(T) \in T
    BY <2>3 DEF AnyOf
  <2>5. SumFunctionOnSet(f, T \ {AnyOf(T)}) \in Int
    BY <2>1, <2>4
  <2>6. SumFunctionOnSet(f, T) = f[AnyOf(T)] + SumFunctionOnSet(f, T \ {AnyOf(T)})
    BY <2>2, <2>3 DEF Summed
  <2> QED BY <2>4, <2>5, <2>6
<1>2. S \in SUBSET S
  OBVIOUS
<1> QED BY <1>1, <1>2

\* Any element can be the one taken off.
LEMMA SumWithout ==
  ASSUME NEW f, NEW S, IsFiniteSet(S), \A x \in S : f[x] \in Int, NEW e \in S
  PROVE  SumFunctionOnSet(f, S) = f[e] + SumFunctionOnSet(f, S \ {e})
<1> DEFINE sum(T) == SumFunctionOnSet(f, T)
           Bad == {T \in SUBSET S : \E x \in T : sum(T) # f[x] + sum(T \ {x})}
<1>1. ASSUME Bad # {} PROVE FALSE
  <2>1. PICK T \in Bad : \A U \in Bad : U \subseteq T => U = T
    <3> HIDE DEF Bad
    <3>1. Bad \in SUBSET SUBSET S
      BY DEF Bad
    <3> QED BY <1>1, <3>1, SmallestSubset
  <2>2. PICK x \in T : sum(T) # f[x] + sum(T \ {x})
    OBVIOUS
  <2> PICK p : p = AnyOf(T)
    OBVIOUS
  <2> HIDE DEF sum
  <2>3. p \in T
    BY <2>2 DEF AnyOf
  <2>4. \A U \in SUBSET S : Summed(f, U) /\ sum(U) \in Int
    BY FS_Subset, SumRecurs, SumIsInt DEF sum
  <2>5. sum(T) = f[p] + sum(T \ {p})
    BY <2>3, <2>4 DEF Summed, sum
  <2>6. x # p /\ x \in T \ {p} /\ p \in T \ {x}
    BY <2>2, <2>3, <2>5
  <2>7. \A U \in SUBSET S : U \subseteq T /\ U # T =>
          \A y \in U : sum(U) = f[y] + sum(U \ {y})
    BY <2>1
  <2>8. sum(T \ {p}) = f[x] + sum((T \ {p}) \ {x})
    <3>1. T \ {p} \in SUBSET S /\ T \ {p} \subseteq T /\ T \ {p} # T
      BY <2>3
    <3> QED BY <2>6, <2>7, <3>1
  <2>9. sum(T \ {x}) = f[p] + sum((T \ {x}) \ {p})
    <3>1. T \ {x} \in SUBSET S /\ T \ {x} \subseteq T /\ T \ {x} # T
      OBVIOUS
    <3> QED BY <2>6, <2>7, <3>1
  <2> PICK rest : rest = sum((T \ {p}) \ {x})
    OBVIOUS
  <2>10. (T \ {x}) \ {p} = (T \ {p}) \ {x} /\ (T \ {p}) \ {x} \in SUBSET S
    OBVIOUS
  <2>11. rest \in Int /\ f[x] \in Int /\ f[p] \in Int
    BY <2>3, <2>4, <2>10
  <2>12. sum(T \ {x}) = f[p] + rest /\ sum(T) = f[p] + (f[x] + rest)
    BY <2>5, <2>8, <2>9, <2>10
  <2> QED BY <2>2, <2>11, <2>12
<1>2. S \in SUBSET S
  OBVIOUS
<1> QED BY <1>1, <1>2

\* Equal terms have equal sums.
LEMMA SumOfEqual ==
  ASSUME NEW f, NEW g, NEW S, IsFiniteSet(S), \A x \in S : f[x] = g[x]
  PROVE  SumFunctionOnSet(f, S) = SumFunctionOnSet(g, S)
<1> DEFINE Bad == {T \in SUBSET S : SumFunctionOnSet(f, T) # SumFunctionOnSet(g, T)}
<1>1. ASSUME Bad # {} PROVE FALSE
  <2>1. PICK T \in Bad : \A U \in Bad : U \subseteq T => U = T
    <3> HIDE DEF Bad
    <3>1. Bad \in SUBSET SUBSET S
      BY DEF Bad
    <3> QED BY <1>1, <3>1, SmallestSubset
  <2>2. Summed(f, T) /\ Summed(g, T)
    BY FS_Subset, SumRecurs
  <2>3. T # {}
    BY <2>2 DEF Summed
  <2>4. AnyOf(T) \in T
    BY <2>3 DEF AnyOf
  <2>5. SumFunctionOnSet(f, T \ {AnyOf(T)}) = SumFunctionOnSet(g, T \ {AnyOf(T)})
    BY <2>1, <2>4
  <2> QED BY <2>2, <2>3, <2>4, <2>5 DEF Summed
<1>2. S \in SUBSET S
  OBVIOUS
<1> QED BY <1>1, <1>2

\* The sum changes by what its one changed term does.
LEMMA SumWithChange ==
  ASSUME NEW f, NEW g, NEW S, IsFiniteSet(S),
         \A x \in S : f[x] \in Int /\ g[x] \in Int,
         NEW e \in S, \A x \in S \ {e} : f[x] = g[x]
  PROVE  SumFunctionOnSet(g, S) = SumFunctionOnSet(f, S) - f[e] + g[e]
<1>1. IsFiniteSet(S \ {e})
  BY FS_RemoveElement
<1> PICK rest : rest = SumFunctionOnSet(f, S \ {e})
  OBVIOUS
<1>2. rest = SumFunctionOnSet(g, S \ {e}) /\ rest \in Int
  BY <1>1, SumOfEqual, SumIsInt
<1>3. (\A x \in S : f[x] \in Int) /\ (\A x \in S : g[x] \in Int)
  OBVIOUS
<1>4. SumFunctionOnSet(f, S) = f[e] + rest
  BY <1>3, SumWithout
<1>5. SumFunctionOnSet(g, S) = g[e] + rest
  BY <1>2, <1>3, SumWithout
<1>6. f[e] \in Int /\ g[e] \in Int
  OBVIOUS
<1> QED BY <1>2, <1>4, <1>5, <1>6

\* Terms that are zero have a sum that is.
LEMMA SumOfZeros ==
  ASSUME NEW f, NEW S, IsFiniteSet(S), \A x \in S : f[x] = 0
  PROVE  SumFunctionOnSet(f, S) = 0
<1> DEFINE Bad == {T \in SUBSET S : SumFunctionOnSet(f, T) # 0}
<1>1. ASSUME Bad # {} PROVE FALSE
  <2>1. PICK T \in Bad : \A U \in Bad : U \subseteq T => U = T
    <3> HIDE DEF Bad
    <3>1. Bad \in SUBSET SUBSET S
      BY DEF Bad
    <3> QED BY <1>1, <3>1, SmallestSubset
  <2>2. Summed(f, T)
    BY FS_Subset, SumRecurs
  <2>3. T # {}
    BY <2>2 DEF Summed
  <2>4. AnyOf(T) \in T
    BY <2>3 DEF AnyOf
  <2>5. SumFunctionOnSet(f, T \ {AnyOf(T)}) = 0
    BY <2>1, <2>4
  <2> QED BY <2>2, <2>3, <2>4, <2>5 DEF Summed
<1>2. S \in SUBSET S
  OBVIOUS
<1> QED BY <1>1, <1>2

\* One term may be the whole sum.
LEMMA SumOfOne ==
  ASSUME NEW f, NEW S, IsFiniteSet(S), NEW e \in S, f[e] \in Int,
         \A x \in S \ {e} : f[x] = 0
  PROVE  SumFunctionOnSet(f, S) = f[e]
<1>1. \A x \in S : f[x] \in Int
  OBVIOUS
<1>2. SumFunctionOnSet(f, S \ {e}) = 0
  BY FS_RemoveElement, SumOfZeros
<1> QED BY <1>1, <1>2, SumWithout

-----------------------------------------------------------------------------
(* The same for the sum of a whole function *)

\* The sum of integers is an integer.
LEMMA TotalIsInt ==
  ASSUME NEW S, IsFiniteSet(S), NEW f \in [S -> Int]
  PROVE  SumFunction(f) \in Int
BY SumIsInt DEF SumFunction

\* The total changes by what its one changed term does.
LEMMA TotalWithChange ==
  ASSUME NEW S, IsFiniteSet(S), NEW f \in [S -> Int], NEW g \in [S -> Int],
         NEW e \in S, \A x \in S \ {e} : f[x] = g[x]
  PROVE  SumFunction(g) = SumFunction(f) - f[e] + g[e]
<1>1. \A x \in S : f[x] \in Int /\ g[x] \in Int
  OBVIOUS
<1> QED BY <1>1, SumWithChange DEF SumFunction

\* What moves from one term to another leaves the total as it is.
LEMMA TotalWithMove ==
  ASSUME NEW S, IsFiniteSet(S), NEW f \in [S -> Int], NEW g \in [S -> Int],
         NEW e \in S, NEW d \in S, d # e,
         g[e] = f[e] + f[d], g[d] = 0,
         \A x \in S \ {e, d} : f[x] = g[x]
  PROVE  SumFunction(g) = SumFunction(f)
<1>h. PICK h : h = [f EXCEPT ![d] = 0]
  OBVIOUS
<1>1. h \in [S -> Int] /\ h[d] = 0 /\ \A x \in S \ {d} : f[x] = h[x]
  BY <1>h
<1>2. h[e] = f[e] /\ \A x \in S \ {e} : h[x] = g[x]
  BY <1>1
<1>3. SumFunction(h) = SumFunction(f) - f[d] + h[d]
  BY <1>1, TotalWithChange
<1>4. SumFunction(g) = SumFunction(h) - h[e] + g[e]
  BY <1>1, <1>2, TotalWithChange
<1>5. SumFunction(f) \in Int /\ SumFunction(h) \in Int /\ f[e] \in Int /\ f[d] \in Int
  BY <1>1, TotalIsInt
<1> QED BY <1>1, <1>2, <1>3, <1>4, <1>5

\* The sum of zeros is zero.
LEMMA TotalOfZeros ==
  ASSUME NEW S, IsFiniteSet(S), NEW f \in [S -> Int], \A x \in S : f[x] = 0
  PROVE  SumFunction(f) = 0
BY SumOfZeros DEF SumFunction

\* The sum of a function that is zero at all but one place is its value there.
LEMMA TotalOfOne ==
  ASSUME NEW S, IsFiniteSet(S), NEW f \in [S -> Int], NEW e \in S, \A x \in S \ {e} : f[x] = 0
  PROVE  SumFunction(f) = f[e]
<1>1. f[e] \in Int
  OBVIOUS
<1> QED BY <1>1, SumOfOne DEF SumFunction
=============================================================================
