---------------------------- MODULE CommonLemmas ----------------------------
(***************************************************************************)
(* What the proofs of more than one component need: arithmetic, rounding,  *)
(* and sums over a finite set, of orders or of coins.                      *)
(***************************************************************************)
EXTENDS Rounding, FiniteSetTheorems, WellFoundedInduction, TLAPS

(* Arithmetic. *)

\* Multiplied by a natural number, the larger stays the larger.
LEMMA ProductGrows ==
  ASSUME NEW a \in Int, NEW b \in Int, NEW c \in Nat, a <= b
  PROVE  a * c <= b * c
<1>1. (b - a) * c >= 0
  OBVIOUS
<1> QED
  BY <1>1

\* Rounding moves a number by half a unit at most, and none below 0.
LEMMA RoundedNear ==
  ASSUME NEW n \in Int, NEW d \in Nat \ {0}
  PROVE  /\ RoundHalfEven(n, d) \in Int
         /\ n \in Nat => RoundHalfEven(n, d) \in Nat
         /\ 2 * (d * RoundHalfEven(n, d)) <= 2 * n + d
         /\ 2 * n <= 2 * (d * RoundHalfEven(n, d)) + d
<1> DEFINE q == n \div d
           r == n % d
<1>1. r \in 0..(d - 1)
  BY Z3
<1>2. n = d * q + r
  BY Z3
<1>3. q \in Int
  BY Z3
<1>4. ASSUME n \in Nat PROVE q >= 0
  <2> SUFFICES ASSUME q <= -1 PROVE FALSE
    BY <1>3
  <2> HIDE DEF q, r
  <2>1. q * d <= (-1) * d
    BY <1>3, ProductGrows
  <2>2. q * d = d * q
    BY <1>3
  <2> QED
    BY <1>1, <1>2, <1>3, <1>4, <2>1, <2>2
<1>5. RoundHalfEven(n, d) = IF 2 * r > d \/ (2 * r = d /\ q % 2 = 1) THEN q + 1 ELSE q
  BY DEF RoundHalfEven
<1> HIDE DEF q, r
<1>6. d * (q + 1) = d * q + d
  BY <1>3
<1>7. d * q \in Int
  BY <1>3
<1>8. CASE RoundHalfEven(n, d) = q + 1 /\ 2 * r >= d
  BY <1>1, <1>2, <1>3, <1>4, <1>6, <1>7, <1>8
<1>9. CASE RoundHalfEven(n, d) = q /\ 2 * r <= d
  BY <1>1, <1>2, <1>3, <1>4, <1>7, <1>9
<1> QED
  BY <1>1, <1>5, <1>8, <1>9

\* What sizing needs of it.
LEMMA RoundedByHalf ==
  ASSUME NEW n \in Nat, NEW d \in Nat \ {0}
  PROVE  /\ RoundHalfEven(n, d) \in Nat
         /\ 2 * (d * RoundHalfEven(n, d)) <= 2 * n + d
         /\ 2 * n <= 2 * (d * RoundHalfEven(n, d)) + d
<1>1. n \in Int
  OBVIOUS
<1> QED
  BY <1>1, RoundedNear

-----------------------------------------------------------------------------
(* The sum of a function over a finite set. *)

One(s) == CHOOSE x \in s : TRUE

\* The sums over all the subsets of S, by recursion.
SumStep(f, S, g) == [s \in SUBSET S |-> IF s = {} THEN 0 ELSE f[One(s)] + g[s \ {One(s)}]]
Sums(f, S) == CHOOSE g : g = SumStep(f, S, g)
SumOf(f, s) == Sums(f, s)[s]

\* Among subsets of a finite set, one has none of the others strictly inside.
LEMMA MinimalSubset ==
  ASSUME NEW S, IsFiniteSet(S), NEW Bad \in SUBSET (SUBSET S), Bad # {}
  PROVE  \E T \in Bad : \A U \in Bad : ~(U \subseteq T /\ U # T)
<1>1. IsWellFoundedOn(StrictSubsetOrdering(S), FiniteSubsetsOf(S))
  BY FS_StrictSubsetOrderingWellFounded
<1>2. FiniteSubsetsOf(S) = SUBSET S
  BY FS_FiniteSubsetsOfFinite
<1>3. PICK T \in Bad : \A U \in Bad : <<U, T>> \notin StrictSubsetOrdering(S)
  BY <1>1, <1>2, WFMin
<1>4. ASSUME NEW U \in Bad, U \subseteq T, U # T PROVE FALSE
  <2>1. U \in SUBSET S /\ T \in SUBSET S
    OBVIOUS
  <2>2. <<U, T>> \in StrictSubsetOrdering(S)
    BY <1>4, <2>1 DEF StrictSubsetOrdering
  <2> QED
    BY <1>3, <2>2
<1> QED
  BY <1>4

\* The sum over a subset does not depend on the set the recursion started from.
LEMMA SumDefined ==
  ASSUME NEW f, NEW S, IsFiniteSet(S)
  PROVE  /\ Sums(f, S) = SumStep(f, S, Sums(f, S))
         /\ \A s \in SUBSET S : Sums(f, S)[s] = SumOf(f, s)
<1> DEFINE Good(T) == /\ Sums(f, T) = SumStep(f, T, Sums(f, T))
                      /\ \A s \in SUBSET T : Sums(f, T)[s] = SumOf(f, s)
           Bad == {T \in SUBSET S : ~Good(T)}
<1>1. SUFFICES ASSUME Bad # {} PROVE FALSE
  OBVIOUS
<1>2. PICK T \in Bad : \A U \in Bad : ~(U \subseteq T /\ U # T)
  <2>1. Bad \in SUBSET (SUBSET S)
    OBVIOUS
  <2> HIDE DEF Bad
  <2> QED
    BY <1>1, <2>1, MinimalSubset
<1>3. \A U \in SUBSET T : U # T => Good(U)
  BY <1>2
<1>4. ASSUME NEW U \in SUBSET T, U # T
      PROVE  SumOf(f, U) = IF U = {} THEN 0 ELSE f[One(U)] + SumOf(f, U \ {One(U)})
  <2>1. Sums(f, U) = SumStep(f, U, Sums(f, U)) /\ U \in SUBSET U /\ U \ {One(U)} \in SUBSET U
    BY <1>3, <1>4
  <2>2. Sums(f, U)[U] = IF U = {} THEN 0 ELSE f[One(U)] + Sums(f, U)[U \ {One(U)}]
    BY <2>1 DEF SumStep
  <2>3. Sums(f, U)[U \ {One(U)}] = SumOf(f, U \ {One(U)})
    BY <1>3, <1>4, <2>1
  <2> QED
    BY <2>2, <2>3 DEF SumOf
<1> DEFINE g == [s \in SUBSET T |-> IF s = {} THEN 0 ELSE f[One(s)] + SumOf(f, s \ {One(s)})]
<1>5. \A s \in SUBSET T : s # T => g[s] = SumOf(f, s)
  BY <1>4
<1>6. \A s \in SUBSET T : s # {} => s \ {One(s)} \in SUBSET T /\ s \ {One(s)} # T
  <2>1. \A s : s # {} => One(s) \in s
    BY DEF One
  <2> QED
    BY <2>1
<1>7. g = SumStep(f, T, g)
  BY <1>5, <1>6 DEF SumStep
<1> HIDE DEF g
<1>8. Sums(f, T) = SumStep(f, T, Sums(f, T))
  BY <1>7 DEF Sums
<1> DEFINE h == Sums(f, T)
           Off == {s \in SUBSET T : h[s] # g[s]}
<1>9. Off = {}
  <2>1. SUFFICES ASSUME Off # {} PROVE FALSE
    OBVIOUS
  <2>2. T \in SUBSET S /\ IsFiniteSet(T)
    BY <1>2, FS_Subset
  <2>3. PICK s \in Off : \A u \in Off : ~(u \subseteq s /\ u # s)
    <3>1. Off \in SUBSET (SUBSET T)
      OBVIOUS
    <3> HIDE DEF Off
    <3> QED
      BY <2>1, <2>2, <3>1, MinimalSubset
  <2>4. /\ h[s] = IF s = {} THEN 0 ELSE f[One(s)] + h[s \ {One(s)}]
        /\ g[s] = IF s = {} THEN 0 ELSE f[One(s)] + g[s \ {One(s)}]
    BY <1>7, <1>8 DEF SumStep
  <2>5. ASSUME s # {} PROVE h[s \ {One(s)}] = g[s \ {One(s)}]
    <3>1. One(s) \in s
      BY <2>5 DEF One
    <3>2. s \ {One(s)} \in SUBSET T /\ s \ {One(s)} \subseteq s /\ s \ {One(s)} # s
      BY <3>1
    <3> QED
      BY <2>3, <3>2
  <2> QED
    BY <2>3, <2>4, <2>5
<1>10. \A s \in SUBSET T : Sums(f, T)[s] = SumOf(f, s)
  <2>1. \A s \in SUBSET T : s # T => Sums(f, T)[s] = SumOf(f, s)
    BY <1>5, <1>9
  <2> QED
    BY <2>1 DEF SumOf
<1> QED
  BY <1>2, <1>8, <1>10

\* The sum over a set: one of its elements, and the sum of the rest.
LEMMA SumUnfolds ==
  ASSUME NEW f, NEW S, IsFiniteSet(S)
  PROVE  SumOf(f, S) = IF S = {} THEN 0 ELSE f[One(S)] + SumOf(f, S \ {One(S)})
<1>1. Sums(f, S) = SumStep(f, S, Sums(f, S)) /\ S \in SUBSET S /\ S \ {One(S)} \in SUBSET S
  BY SumDefined
<1>2. Sums(f, S)[S] = IF S = {} THEN 0 ELSE f[One(S)] + Sums(f, S)[S \ {One(S)}]
  BY <1>1 DEF SumStep
<1>3. Sums(f, S)[S \ {One(S)}] = SumOf(f, S \ {One(S)})
  BY <1>1, SumDefined
<1> QED
  BY <1>2, <1>3 DEF SumOf

\* The sum is a number, and any element may be taken out of it first.
LEMMA SumTakesOut ==
  ASSUME NEW f, NEW S, IsFiniteSet(S), \A x \in S : f[x] \in Int
  PROVE  /\ SumOf(f, S) \in Int
         /\ \A y \in S : SumOf(f, S) = f[y] + SumOf(f, S \ {y})
<1> DEFINE Good(T) == SumOf(f, T) \in Int /\ \A y \in T : SumOf(f, T) = f[y] + SumOf(f, T \ {y})
           Bad == {T \in SUBSET S : ~Good(T)}
<1>1. SUFFICES ASSUME Bad # {} PROVE FALSE
  OBVIOUS
<1>2. PICK T \in Bad : \A U \in Bad : ~(U \subseteq T /\ U # T)
  <2>1. Bad \in SUBSET (SUBSET S)
    OBVIOUS
  <2> HIDE DEF Bad
  <2> QED
    BY <1>1, <2>1, MinimalSubset
<1>3. IsFiniteSet(T) /\ \A x \in T : f[x] \in Int
  BY <1>2, FS_Subset
<1>4. \A U \in SUBSET T : U # T => Good(U)
  BY <1>2
<1>5. SumOf(f, T) = IF T = {} THEN 0 ELSE f[One(T)] + SumOf(f, T \ {One(T)})
  BY <1>3, SumUnfolds
<1>6. T # {}
  BY <1>2, <1>5
<1> DEFINE x == One(T)
<1>7. x \in T
  BY <1>6 DEF One
<1> HIDE DEF x
<1>8. SumOf(f, T) = f[x] + SumOf(f, T \ {x}) /\ Good(T \ {x})
  <2>1. T \ {x} \in SUBSET T /\ T \ {x} # T
    BY <1>7
  <2> QED
    BY <1>4, <1>5, <1>6, <2>1 DEF x
<1>9. SumOf(f, T) \in Int
  BY <1>3, <1>7, <1>8
<1>10. ASSUME NEW y \in T, y # x PROVE SumOf(f, T) = f[y] + SumOf(f, T \ {y})
  <2>1. T \ {y} \in SUBSET T /\ T \ {y} # T /\ x \in T \ {y} /\ y \in T \ {x}
    BY <1>7, <1>10
  <2>2. SumOf(f, T \ {y}) = f[x] + SumOf(f, (T \ {y}) \ {x})
    BY <1>4, <2>1
  <2>3. SumOf(f, T \ {x}) = f[y] + SumOf(f, (T \ {x}) \ {y})
    BY <1>8, <2>1
  <2> DEFINE rest == SumOf(f, (T \ {x}) \ {y})
  <2>4. rest \in Int
    <3>1. (T \ {x}) \ {y} \in SUBSET T /\ (T \ {x}) \ {y} # T
      BY <1>7
    <3> QED
      BY <1>4, <3>1
  <2>5. (T \ {y}) \ {x} = (T \ {x}) \ {y}
    OBVIOUS
  <2>6. SumOf(f, T \ {y}) = f[x] + rest /\ SumOf(f, T \ {x}) = f[y] + rest
    BY <2>2, <2>3, <2>5
  <2>7. f[x] \in Int /\ f[y] \in Int
    BY <1>3, <1>7
  <2> HIDE DEF rest
  <2> QED
    BY <1>8, <2>4, <2>6, <2>7
<1> QED
  BY <1>2, <1>8, <1>9, <1>10

\* Functions that agree on a set have the same sum over it.
LEMMA SumAgrees ==
  ASSUME NEW f, NEW h, NEW S, \A x \in S : f[x] = h[x]
  PROVE  SumOf(f, S) = SumOf(h, S)
<1>1. ASSUME NEW g PROVE SumStep(f, S, g) = SumStep(h, S, g)
  <2>1. \A s \in SUBSET S : s # {} => f[One(s)] = h[One(s)]
    BY DEF One
  <2> QED
    BY <2>1 DEF SumStep
<1>2. Sums(f, S) = Sums(h, S)
  BY <1>1 DEF Sums
<1> QED
  BY <1>2 DEF SumOf

\* Of naturals, it is a natural.
LEMMA SumNatural ==
  ASSUME NEW f, NEW S, IsFiniteSet(S), \A x \in S : f[x] \in Nat
  PROVE  SumOf(f, S) \in Nat
<1> DEFINE Bad == {T \in SUBSET S : SumOf(f, T) \notin Nat}
<1>1. SUFFICES ASSUME Bad # {} PROVE FALSE
  OBVIOUS
<1>2. PICK T \in Bad : \A U \in Bad : ~(U \subseteq T /\ U # T)
  <2>1. Bad \in SUBSET (SUBSET S)
    OBVIOUS
  <2> HIDE DEF Bad
  <2> QED
    BY <1>1, <2>1, MinimalSubset
<1>3. IsFiniteSet(T)
  BY <1>2, FS_Subset
<1>4. SumOf(f, T) = IF T = {} THEN 0 ELSE f[One(T)] + SumOf(f, T \ {One(T)})
  BY <1>3, SumUnfolds
<1>5. T # {}
  BY <1>2, <1>4
<1>6. One(T) \in T
  BY <1>5 DEF One
<1>7. SumOf(f, T \ {One(T)}) \in Nat /\ f[One(T)] \in Nat
  BY <1>2, <1>6
<1> QED
  BY <1>2, <1>4, <1>5, <1>7
=============================================================================
