----------------------------- MODULE DataLemmas ------------------------------
(***************************************************************************)
(* Facts about numbers, sums, sequences and the operators of Fractions,    *)
(* whatever the specification.  Induction is by minimal counterexample,    *)
(* over the naturals, along a measure, or over the subsets of a finite     *)
(* set.                                                                    *)
(***************************************************************************)
EXTENDS Fractions, Integers, Sequences, FiniteSets, Functions, FiniteSetTheorems,
        WellFoundedInduction, TLAPS

-----------------------------------------------------------------------------
(* Least elements                                                          *)

\* A nonempty set of naturals has a least element (well-foundedness of <).
LEMMA LeastNatural ==
    ASSUME NEW S \in SUBSET Nat, S # {}
    PROVE  \E x \in S : \A y \in S : x <= y
<1> DEFINE R == {ss \in Nat \X Nat : ss[1] < ss[2]}
<1>1. IsWellFoundedOn(R, Nat)
  BY NatLessThanWellFounded DEF OpToRel
<1>2. \A x \in Nat, y \in Nat : <<y, x>> \in R <=> y < x
  OBVIOUS
<1> HIDE DEF R
<1>3. \E x \in S : \A y \in S : <<y, x>> \notin R
  BY <1>1, WFMin, Zenon
<1>4. \A x \in Nat, y \in Nat : ~(y < x) => x <= y
  OBVIOUS
<1> QED
  BY <1>2, <1>3, <1>4

\* A nonempty family of subsets of a finite set has a smallest member: no
\* member of the family is a proper subset of it.
LEMMA MinimalSubset ==
    ASSUME NEW S, IsFiniteSet(S), NEW T \in SUBSET SUBSET S, T # {}
    PROVE  \E s \in T : \A t \in SUBSET s : t # s => t \notin T
<1> DEFINE C == {Cardinality(s) : s \in T}
<1>1. \A s \in SUBSET S : IsFiniteSet(s) /\ Cardinality(s) \in Nat
  BY FS_Subset, FS_CardinalityType
<1>2. C \in SUBSET Nat /\ C # {}
  BY <1>1
<1>3. PICK n \in C : \A k \in C : n <= k
  BY <1>2, LeastNatural
<1>4. PICK s \in T : n = Cardinality(s)
  OBVIOUS
<1>5. ASSUME NEW t \in SUBSET s, t # s, t \in T
      PROVE  FALSE
  <2>1. Cardinality(t) < Cardinality(s)
    BY <1>1, <1>5, FS_Subset
  <2>2. n <= Cardinality(t)
    BY <1>3, <1>5
  <2> QED
    BY <1>1, <1>4, <2>1, <2>2
<1> QED
  BY <1>4, <1>5

-----------------------------------------------------------------------------
(* Sequences                                                               *)

\* Appending puts the entry behind the others.
LEMMA AppendEntries ==
    ASSUME NEW S, NEW q \in Seq(S), NEW e \in S
    PROVE  LET r == Append(q, e)
               n == Len(q) + 1
           IN  /\ DOMAIN q \subseteq Nat /\ DOMAIN r = DOMAIN q \cup {n}
               /\ n \in Nat /\ \A i \in DOMAIN q : i < n /\ r[i] = q[i]
               /\ r[n] = e
OBVIOUS

\* The entries of a tail are those of the sequence, one place earlier.
LEMMA TailEntries ==
    ASSUME NEW S, NEW q \in Seq(S), q # << >>
    PROVE  /\ 1 \in DOMAIN q /\ Head(q) = q[1] /\ Head(q) \in S /\ Tail(q) \in Seq(S)
           /\ \A i \in DOMAIN Tail(q) : i + 1 \in DOMAIN q /\ Tail(q)[i] = q[i + 1]
           /\ \A j \in DOMAIN q \ {1} : j - 1 \in DOMAIN Tail(q) /\ Tail(q)[j - 1] = q[j]
<1>1. /\ Len(q) \in Nat \ {0} /\ DOMAIN q = 1..Len(q) /\ Tail(q) \in Seq(S)
      /\ Head(q) = q[1] /\ Head(q) \in S
  OBVIOUS
<1>2. /\ DOMAIN Tail(q) = 1..(Len(q) - 1)
      /\ \A i \in 1..(Len(q) - 1) : Tail(q)[i] = q[i + 1]
  OBVIOUS
<1>3. ASSUME NEW j \in 1..Len(q), j # 1
      PROVE  j - 1 \in 1..(Len(q) - 1) /\ (j - 1) + 1 = j
  BY <1>1, <1>3
<1>4. ASSUME NEW i \in 1..(Len(q) - 1)
      PROVE  i + 1 \in 1..Len(q)
  BY <1>1
<1> QED
  BY <1>1, <1>2, <1>3, <1>4

\* Entries of one set are entries of a larger one.
LEMMA LargerAlphabet ==
    ASSUME NEW S, NEW T, S \subseteq T, NEW q \in Seq(S)
    PROVE  q \in Seq(T)
OBVIOUS

-----------------------------------------------------------------------------
(* SumFunction of the community modules, as the exposure properties of the *)
(* portfolio and the position book use it: what it is on a finite set, and *)
(* how it changes when one entry does.  Induction is by minimal            *)
(* counterexample, over the subsets of the finite set that is summed.      *)

Pick(s) == CHOOSE x \in s : TRUE

\* The recursion SumFunctionOnSet(f, S) solves, over the subsets of S.
SumStep(f, g, s) == IF s = {} THEN 0 ELSE f[Pick(s)] + g[s \ {Pick(s)}]
PartialSums(f, S) == CHOOSE g : g = [s \in SUBSET S |-> SumStep(f, g, s)]

\* Removing the picked element leaves a proper subset.
LEMMA PickShrinks ==
    ASSUME NEW s, s # {}
    PROVE  Pick(s) \in s /\ s \ {Pick(s)} \in SUBSET s /\ s \ {Pick(s)} # s
BY DEF Pick

\* The recursion has a solution, so PartialSums is one.
LEMMA PartialSumsExist ==
    ASSUME NEW S, IsFiniteSet(S), NEW f
    PROVE  PartialSums(f, S) = [s \in SUBSET S |-> SumStep(f, PartialSums(f, S), s)]
<1> DEFINE Solves(g, n) ==
             \A s \in SUBSET S : Cardinality(s) <= n => g[s] = SumStep(f, g, s)
           Bad == {n \in Nat : ~\E g : Solves(g, n)}
<1>1. \A s \in SUBSET S : IsFiniteSet(s) /\ Cardinality(s) \in Nat
  BY FS_Subset, FS_CardinalityType
<1>2. \E g : Solves(g, 0)
  <2> DEFINE z == [s \in SUBSET S |-> 0]
  <2>1. \A s \in SUBSET S : Cardinality(s) <= 0 => s = {}
    BY <1>1, FS_EmptySet
  <2>2. Solves(z, 0)
    BY <2>1 DEF SumStep
  <2> QED
    BY <2>2
<1>3. ASSUME NEW n \in Nat, NEW g, Solves(g, n)
      PROVE  \E h : Solves(h, n + 1)
  <2> DEFINE h == [s \in SUBSET S |-> SumStep(f, g, s)]
  <2>1. ASSUME NEW s \in SUBSET S, Cardinality(s) <= n + 1
        PROVE  h[s] = SumStep(f, h, s)
    <3>1. CASE s = {}
      BY <3>1 DEF SumStep
    <3>2. CASE s # {}
      <4> DEFINE t == s \ {Pick(s)}
      <4>1. t \in SUBSET S /\ t \in SUBSET s /\ t # s
        BY <3>2, PickShrinks
      <4>2. Cardinality(t) < Cardinality(s)
        BY <1>1, <4>1, FS_Subset
      <4>3. Cardinality(t) <= n
        BY <1>1, <2>1, <4>1, <4>2
      <4>4. g[t] = h[t]
        BY <1>3, <4>1, <4>3
      <4> QED
        BY <3>2, <4>4 DEF SumStep
    <3> QED
      BY <3>1, <3>2
  <2>2. Solves(h, n + 1)
    BY <2>1
  <2> QED
    BY <2>2
<1>4. Bad = {}
  <2> SUFFICES ASSUME Bad # {} PROVE FALSE
    OBVIOUS
  <2>1. PICK n \in Bad : \A k \in Bad : n <= k
    BY LeastNatural
  <2>2. n # 0
    BY <1>2
  <2>3. n - 1 \in Nat /\ n - 1 \notin Bad
    BY <2>1, <2>2
  <2>4. \E g : Solves(g, n - 1)
    BY <2>3
  <2>5. \E g : Solves(g, (n - 1) + 1)
    BY <1>3, <2>3, <2>4
  <2>6. (n - 1) + 1 = n
    BY <2>1
  <2> QED
    BY <2>1, <2>5, <2>6
<1>5. PICK g : Solves(g, Cardinality(S))
  <2>1. Cardinality(S) \in Nat
    BY FS_CardinalityType
  <2> QED
    BY <1>4, <2>1
<1> DEFINE r == [s \in SUBSET S |-> SumStep(f, g, s)]
<1>6. \A s \in SUBSET S : r[s] = g[s]
  <2>1. \A s \in SUBSET S : Cardinality(s) <= Cardinality(S)
    BY FS_Subset
  <2> QED
    BY <1>5, <2>1
<1>7. \A s \in SUBSET S : SumStep(f, g, s) = SumStep(f, r, s)
  <2>1. \A s \in SUBSET S : s \ {Pick(s)} \in SUBSET S
    OBVIOUS
  <2> HIDE DEF r
  <2> QED
    BY <1>6, <2>1 DEF SumStep
<1>8. r = [s \in SUBSET S |-> SumStep(f, r, s)]
  BY <1>7
<1> HIDE DEF r
<1> QED
  BY <1>8 DEF PartialSums

-----------------------------------------------------------------------------

\* SumFunctionOnSet is the value of that solution at the whole set.
LEMMA SumIsPartialSum ==
    ASSUME NEW S, NEW f
    PROVE  SumFunctionOnSet(f, S) = PartialSums(f, S)[S]
BY Zenon DEF SumFunctionOnSet, FoldFunctionOnSet, MapThenFoldSet, PartialSums, SumStep, Pick

\* That solution at a nonempty set is the picked element's value plus the
\* solution at what is left.
LEMMA PartialSumsUnfold ==
    ASSUME NEW S, IsFiniteSet(S), NEW f, NEW s \in SUBSET S
    PROVE  PartialSums(f, S)[s] = SumStep(f, PartialSums(f, S), s)
<1> DEFINE F == PartialSums(f, S)
<1>1. F = [t \in SUBSET S |-> SumStep(f, F, t)]
  BY PartialSumsExist
<1> HIDE DEF F
<1>2. F[s] = SumStep(f, F, s)
  BY <1>1
<1> QED
  BY <1>2 DEF F

\* A sum of integers is an integer.
LEMMA PartialSumsInt ==
    ASSUME NEW S, IsFiniteSet(S), NEW f \in [S -> Int]
    PROVE  \A s \in SUBSET S : PartialSums(f, S)[s] \in Int
<1> DEFINE Sum == PartialSums(f, S)
           Bad == {s \in SUBSET S : Sum[s] \notin Int}
<1>1. \A s \in SUBSET S : Sum[s] = SumStep(f, Sum, s)
  BY PartialSumsUnfold
<1> SUFFICES ASSUME Bad # {} PROVE FALSE
  OBVIOUS
<1>2. PICK s \in Bad : \A t \in SUBSET s : t # s => t \notin Bad
  <2>1. Bad \in SUBSET SUBSET S
    OBVIOUS
  <2> HIDE DEF Bad
  <2> QED
    BY <2>1, MinimalSubset, Zenon
<1> HIDE DEF Sum
<1>3. CASE s = {}
  <2>1. SumStep(f, Sum, s) = 0
    BY <1>3 DEF SumStep
  <2>2. Sum[s] = 0
    BY <1>1, <1>2, <2>1
  <2> QED
    BY <1>2, <2>2
<1>4. CASE s # {}
  <2>1. Pick(s) \in s /\ s \ {Pick(s)} \in SUBSET s /\ s \ {Pick(s)} # s
    BY <1>4, PickShrinks
  <2>2. Sum[s \ {Pick(s)}] \in Int
    BY <1>2, <2>1
  <2>3. Sum[s] = f[Pick(s)] + Sum[s \ {Pick(s)}]
    BY <1>1, <1>2, <1>4 DEF SumStep
  <2>4. f[Pick(s)] \in Int
    BY <1>2, <2>1
  <2> QED
    BY <1>2, <2>2, <2>3, <2>4
<1> QED
  BY <1>3, <1>4

\* A sum of naturals is a natural.
LEMMA PartialSumsNat ==
    ASSUME NEW S, IsFiniteSet(S), NEW f \in [S -> Nat]
    PROVE  \A s \in SUBSET S : PartialSums(f, S)[s] \in Nat
<1> DEFINE Sum == PartialSums(f, S)
           Bad == {s \in SUBSET S : Sum[s] \notin Nat}
<1>1. \A s \in SUBSET S : Sum[s] = SumStep(f, Sum, s)
  BY PartialSumsUnfold
<1> SUFFICES ASSUME Bad # {} PROVE FALSE
  OBVIOUS
<1>2. PICK s \in Bad : \A t \in SUBSET s : t # s => t \notin Bad
  <2>1. Bad \in SUBSET SUBSET S
    OBVIOUS
  <2> HIDE DEF Bad
  <2> QED
    BY <2>1, MinimalSubset, Zenon
<1> HIDE DEF Sum
<1>3. CASE s = {}
  <2>1. SumStep(f, Sum, s) = 0
    BY <1>3 DEF SumStep
  <2>2. Sum[s] = 0
    BY <1>1, <1>2, <2>1
  <2> QED
    BY <1>2, <2>2
<1>4. CASE s # {}
  <2>1. Pick(s) \in s /\ s \ {Pick(s)} \in SUBSET s /\ s \ {Pick(s)} # s
    BY <1>4, PickShrinks
  <2>2. Sum[s \ {Pick(s)}] \in Nat
    BY <1>2, <2>1
  <2>3. Sum[s] = f[Pick(s)] + Sum[s \ {Pick(s)}]
    BY <1>1, <1>2, <1>4 DEF SumStep
  <2>4. f[Pick(s)] \in Nat
    BY <1>2, <2>1
  <2> QED
    BY <1>2, <2>2, <2>3, <2>4
<1> QED
  BY <1>3, <1>4

\* Two functions that differ in one entry have partial sums that differ by
\* that entry's change, on every subset that contains it.
LEMMA PartialSumsUpdate ==
    ASSUME NEW S, IsFiniteSet(S), NEW f \in [S -> Int], NEW g \in [S -> Int],
           NEW a \in S, \A x \in S \ {a} : g[x] = f[x]
    PROVE  \A s \in SUBSET S :
              PartialSums(g, S)[s] =
                  PartialSums(f, S)[s] + (IF a \in s THEN g[a] - f[a] ELSE 0)
<1> DEFINE F == PartialSums(f, S)
           G == PartialSums(g, S)
           Delta(s) == IF a \in s THEN g[a] - f[a] ELSE 0
           Bad == {s \in SUBSET S : ~(G[s] = F[s] + Delta(s))}
<1>1. \A s \in SUBSET S : F[s] = SumStep(f, F, s) /\ F[s] \in Int
  BY PartialSumsUnfold, PartialSumsInt, Zenon
<1>2. \A s \in SUBSET S : G[s] = SumStep(g, G, s) /\ G[s] \in Int
  BY PartialSumsUnfold, PartialSumsInt, Zenon
<1> SUFFICES ASSUME Bad # {} PROVE FALSE
  OBVIOUS
<1>3. PICK s \in Bad : \A t \in SUBSET s : t # s => t \notin Bad
  <2>1. Bad \in SUBSET SUBSET S
    OBVIOUS
  <2> HIDE DEF Bad
  <2> QED
    BY <2>1, MinimalSubset, Zenon
<1> HIDE DEF F, G
<1>4. CASE s = {}
  <2>1. SumStep(f, F, s) = 0 /\ SumStep(g, G, s) = 0
    BY <1>4 DEF SumStep
  <2>2. F[s] = 0 /\ G[s] = 0 /\ Delta(s) = 0
    BY <1>1, <1>2, <1>3, <1>4, <2>1
  <2> QED
    BY <1>3, <2>2
<1>5. CASE s # {}
  <2> DEFINE p == Pick(s)
             t == s \ {p}
  <2>1. p \in s /\ t \in SUBSET s /\ t # s
    BY <1>5, PickShrinks
  <2>2. t \in SUBSET S /\ p \in S
    BY <1>3, <2>1
  <2>3. G[t] = F[t] + Delta(t)
    BY <1>3, <2>1, <2>2
  <2>4. F[s] = f[p] + F[t] /\ G[s] = g[p] + G[t]
    BY <1>1, <1>2, <1>3, <1>5 DEF SumStep
  <2>5. f[p] \in Int /\ g[p] \in Int /\ f[a] \in Int /\ g[a] \in Int /\ F[t] \in Int
    BY <1>1, <2>2
  <2>6. CASE p = a
    <3>1. a \in s /\ a \notin t
      BY <2>1, <2>6
    <3>2. G[s] = F[s] + (g[a] - f[a])
      BY <2>3, <2>4, <2>5, <2>6, <3>1
    <3> QED
      BY <1>3, <3>1, <3>2
  <2>7. CASE p # a
    <3>1. g[p] = f[p] /\ (a \in s <=> a \in t)
      BY <2>1, <2>2, <2>7
    <3>2. G[s] = F[s] + Delta(s)
      BY <2>3, <2>4, <2>5, <3>1
    <3> QED
      BY <1>3, <3>2
  <2> QED
    BY <2>6, <2>7
<1> QED
  BY <1>4, <1>5

-----------------------------------------------------------------------------
(* The three facts in the form the specifications use them                 *)

\* The sum of an integer function over a finite set is an integer.
LEMMA SumInt ==
    ASSUME NEW S, IsFiniteSet(S), NEW f \in [S -> Int]
    PROVE  SumFunction(f) \in Int
<1>1. SumFunction(f) = PartialSums(f, S)[S]
  BY SumIsPartialSum DEF SumFunction
<1> QED
  BY <1>1, PartialSumsInt

\* The sum of a function of naturals over a finite set is a natural.
LEMMA SumNat ==
    ASSUME NEW S, IsFiniteSet(S), NEW f \in [S -> Nat]
    PROVE  SumFunction(f) \in Nat
<1>1. SumFunction(f) = PartialSums(f, S)[S]
  BY SumIsPartialSum DEF SumFunction
<1> QED
  BY <1>1, PartialSumsNat

\* Changing one entry moves the sum by that entry's change.
LEMMA SumUpdate ==
    ASSUME NEW S, IsFiniteSet(S), NEW f \in [S -> Int], NEW g \in [S -> Int],
           NEW a \in S, \A x \in S \ {a} : g[x] = f[x]
    PROVE  SumFunction(g) = SumFunction(f) + (g[a] - f[a])
<1>1. SumFunction(f) = PartialSums(f, S)[S] /\ SumFunction(g) = PartialSums(g, S)[S]
  BY SumIsPartialSum DEF SumFunction
<1> QED
  BY <1>1, PartialSumsUpdate

\* A function that is zero everywhere sums to zero.
LEMMA SumZero ==
    ASSUME NEW S, IsFiniteSet(S), NEW f \in [S -> Int], \A x \in S : f[x] = 0
    PROVE  SumFunction(f) = 0
<1> DEFINE Sum == PartialSums(f, S)
           Bad == {s \in SUBSET S : Sum[s] # 0}
<1>1. \A s \in SUBSET S : Sum[s] = SumStep(f, Sum, s)
  BY PartialSumsUnfold
<1>2. ASSUME Bad # {} PROVE FALSE
  <2>1. PICK s \in Bad : \A t \in SUBSET s : t # s => t \notin Bad
    <3>1. Bad \in SUBSET SUBSET S
      OBVIOUS
    <3> HIDE DEF Bad
    <3> QED
      BY <1>2, <3>1, MinimalSubset, Zenon
  <2> HIDE DEF Sum
  <2>2. CASE s = {}
    <3>1. SumStep(f, Sum, s) = 0
      BY <2>2 DEF SumStep
    <3> QED
      BY <1>1, <2>1, <3>1
  <2>3. CASE s # {}
    <3>1. Pick(s) \in s /\ s \ {Pick(s)} \in SUBSET s /\ s \ {Pick(s)} # s
      BY <2>3, PickShrinks
    <3>2. Sum[s \ {Pick(s)}] = 0
      BY <2>1, <3>1
    <3>3. Sum[s] = f[Pick(s)] + Sum[s \ {Pick(s)}]
      BY <1>1, <2>1, <2>3 DEF SumStep
    <3>4. f[Pick(s)] = 0
      BY <2>1, <3>1
    <3> QED
      BY <2>1, <3>2, <3>3, <3>4
  <2> QED
    BY <2>2, <2>3
<1>3. SumFunction(f) = Sum[S]
  BY SumIsPartialSum DEF SumFunction
<1> QED
  BY <1>2, <1>3

-----------------------------------------------------------------------------
(* Sums do not depend on the order of summation                            *)

\* Any element may be summed first.
LEMMA PartialSumsRemove ==
    ASSUME NEW S, IsFiniteSet(S), NEW f \in [S -> Int]
    PROVE  \A s \in SUBSET S : \A a \in s :
              PartialSums(f, S)[s] = f[a] + PartialSums(f, S)[s \ {a}]
<1> DEFINE F == PartialSums(f, S)
           Bad == {s \in SUBSET S : ~\A a \in s : F[s] = f[a] + F[s \ {a}]}
<1>1. \A s \in SUBSET S : F[s] = SumStep(f, F, s) /\ F[s] \in Int
  BY PartialSumsUnfold, PartialSumsInt, Zenon
<1> SUFFICES ASSUME Bad # {} PROVE FALSE
  OBVIOUS
<1>2. PICK s \in Bad : \A t \in SUBSET s : t # s => t \notin Bad
  <2>1. Bad \in SUBSET SUBSET S
    OBVIOUS
  <2> HIDE DEF Bad
  <2> QED
    BY <2>1, MinimalSubset, Zenon
<1> HIDE DEF F
<1>3. PICK a \in s : F[s] # f[a] + F[s \ {a}]
  BY <1>2
<1> DEFINE p == Pick(s)
<1>4. p \in s /\ s \in SUBSET S /\ s # {}
  BY <1>2, <1>3, PickShrinks
<1>5. F[s] = f[p] + F[s \ {p}]
  BY <1>1, <1>4 DEF SumStep
<1> HIDE DEF p
<1>6. p # a
  BY <1>3, <1>5
<1>7. s \ {p} \in SUBSET S /\ s \ {p} \notin Bad /\ a \in s \ {p}
  BY <1>2, <1>3, <1>4, <1>6
<1>8. F[s \ {p}] = f[a] + F[(s \ {p}) \ {a}]
  BY <1>7
<1>9. s \ {a} \in SUBSET S /\ s \ {a} \notin Bad /\ p \in s \ {a}
  BY <1>2, <1>3, <1>4, <1>6
<1>10. F[s \ {a}] = f[p] + F[(s \ {a}) \ {p}]
  BY <1>9
<1>11. (s \ {a}) \ {p} = (s \ {p}) \ {a} /\ (s \ {p}) \ {a} \in SUBSET S
  BY <1>4
<1> DEFINE r == F[(s \ {p}) \ {a}]
<1>12. f[a] \in Int /\ f[p] \in Int /\ r \in Int
  BY <1>1, <1>3, <1>4, <1>11
<1>13. F[s] = f[p] + (f[a] + r) /\ F[s \ {a}] = f[p] + r
  BY <1>5, <1>8, <1>10, <1>11
<1> HIDE DEF r
<1> QED
  BY <1>3, <1>12, <1>13

\* The functions have the same values on R.
Agree(f, g, R) == \A x \in R : g[x] = f[x]

\* A partial sum is the sum of the function's restriction.
LEMMA PartialSumsRestrict ==
    ASSUME NEW S, IsFiniteSet(S), NEW f, NEW R \in SUBSET S, NEW g, Agree(f, g, R)
    PROVE  \A s \in SUBSET R : PartialSums(g, R)[s] = PartialSums(f, S)[s]
<1> DEFINE F == PartialSums(f, S)
           G == PartialSums(g, R)
           Bad == {s \in SUBSET R : G[s] # F[s]}
<1>0. IsFiniteSet(R)
  BY FS_Subset
<1>1. (\A s \in SUBSET S : F[s] = SumStep(f, F, s)) /\ \A s \in SUBSET R : G[s] = SumStep(g, G, s)
  BY <1>0, PartialSumsUnfold, Zenon
<1> SUFFICES ASSUME Bad # {} PROVE FALSE
  OBVIOUS
<1>2. PICK s \in Bad : \A t \in SUBSET s : t # s => t \notin Bad
  <2>1. Bad \in SUBSET SUBSET R
    OBVIOUS
  <2> HIDE DEF Bad
  <2> QED
    BY <1>0, <2>1, MinimalSubset, Zenon
<1> HIDE DEF F, G
<1>3. s \in SUBSET R /\ s \in SUBSET S /\ G[s] # F[s]
  BY <1>2
<1>4. s # {}
  BY <1>1, <1>3 DEF SumStep
<1>5. Pick(s) \in s /\ s \ {Pick(s)} \in SUBSET s /\ s \ {Pick(s)} # s
  BY <1>4, PickShrinks
<1>6. G[s \ {Pick(s)}] = F[s \ {Pick(s)}] /\ g[Pick(s)] = f[Pick(s)]
  BY <1>2, <1>3, <1>5 DEF Agree
<1> QED
  BY <1>1, <1>3, <1>4, <1>6 DEF SumStep

\* The function g has one entry more than f.
OneMore(f, g, S, a) ==
    /\ a \notin S /\ f \in [S -> Int] /\ g \in [S \cup {a} -> Int]
    /\ \A x \in S : g[x] = f[x]

\* One more entry adds its value.
LEMMA SumAppend ==
    ASSUME NEW S, IsFiniteSet(S), NEW a, NEW f, NEW g, OneMore(f, g, S, a)
    PROVE  SumFunction(g) = SumFunction(f) + g[a]
<1> DEFINE T == S \cup {a}
<1>1. IsFiniteSet(T) /\ DOMAIN g = T /\ DOMAIN f = S /\ S \in SUBSET T /\ T \ {a} = S
      /\ a \in T /\ T \in SUBSET T /\ g \in [T -> Int] /\ f \in [S -> Int]
  BY FS_AddElement DEF OneMore
<1>2. SumFunction(g) = PartialSums(g, T)[T] /\ SumFunction(f) = PartialSums(f, S)[S]
  BY <1>1, SumIsPartialSum DEF SumFunction
<1>3. PartialSums(g, T)[T] = g[a] + PartialSums(g, T)[S]
  <2> HIDE DEF T
  <2> QED
    BY <1>1, PartialSumsRemove
<1>4. PartialSums(f, S)[S] = PartialSums(g, T)[S]
  <2> HIDE DEF T
  <2>1. Agree(g, f, S)
    BY DEF Agree, OneMore
  <2>2. IsFiniteSet(T) /\ S \in SUBSET T
    BY <1>1
  <2>3. \A s \in SUBSET S : PartialSums(f, S)[s] = PartialSums(g, T)[s]
    BY ONLY <2>1, <2>2, PartialSumsRestrict
  <2> QED
    BY <2>3
<1>5. g[a] \in Int /\ SumFunction(f) \in Int
  BY <1>1, SumInt
<1> QED
  BY <1>2, <1>3, <1>4, <1>5

\* Entries that are zero may be left out.
LEMMA SumWithoutZeros ==
    ASSUME NEW S, IsFiniteSet(S), NEW f \in [S -> Int], NEW R \in SUBSET S, NEW g \in [R -> Int],
           \A x \in R : g[x] = f[x], \A x \in S \ R : f[x] = 0
    PROVE  SumFunction(g) = SumFunction(f)
<1> DEFINE F == PartialSums(f, S)
           Bad == {s \in SUBSET S : F[s] # F[s \cap R]}
<1>1. \A s \in SUBSET S : F[s] \in Int /\ \A a \in s : F[s] = f[a] + F[s \ {a}]
  BY PartialSumsInt, PartialSumsRemove
<1>2. ASSUME Bad # {} PROVE FALSE
  <2>1. PICK s \in Bad : \A t \in SUBSET s : t # s => t \notin Bad
    <3>1. Bad \in SUBSET SUBSET S
      OBVIOUS
    <3> HIDE DEF Bad
    <3> QED
      BY <1>2, <3>1, MinimalSubset, Zenon
  <2> HIDE DEF F
  <2>2. s \in SUBSET S /\ F[s] # F[s \cap R]
    BY <2>1
  <2>3. CASE s \subseteq R
    <3>1. s \cap R = s
      BY <2>3
    <3> QED
      BY <2>2, <3>1
  <2>4. CASE ~(s \subseteq R)
    <3>1. PICK a \in s : a \notin R
      BY <2>4
    <3>2. f[a] = 0 /\ s \ {a} \in SUBSET S /\ s \ {a} \notin Bad /\ (s \ {a}) \cap R = s \cap R
      BY <2>1, <2>2, <3>1
    <3>3. F[s] = 0 + F[s \ {a}] /\ F[s \ {a}] \in Int
      BY <1>1, <2>2, <3>2
    <3>4. F[s \ {a}] = F[s \cap R]
      BY <3>2
    <3> QED
      BY <2>2, <3>3, <3>4
  <2> QED
    BY <2>3, <2>4
<1>3. SumFunction(f) = F[S] /\ SumFunction(g) = PartialSums(g, R)[R]
  BY SumIsPartialSum DEF SumFunction
<1>4. F[S] = F[S \cap R] /\ S \cap R = R
  BY <1>2
<1>5. PartialSums(g, R)[R] = F[R]
  <2>1. Agree(f, g, R)
    BY DEF Agree
  <2>2. \A s \in SUBSET R : PartialSums(g, R)[s] = PartialSums(f, S)[s]
    BY <2>1, PartialSumsRestrict
  <2> QED
    BY <2>2
<1> HIDE DEF F
<1> QED
  BY <1>3, <1>4, <1>5

\* The entries may be summed in any order.
LEMMA SumPermuted ==
    ASSUME NEW S, IsFiniteSet(S), NEW f \in [S -> Int], NEW g \in [S -> Int], NEW p \in [S -> S],
           \A x, y \in S : x # y => p[x] # p[y], \A x \in S : g[x] = f[p[x]]
    PROVE  SumFunction(g) = SumFunction(f)
<1> DEFINE F == PartialSums(f, S)
           G == PartialSums(g, S)
           Image(s) == {p[x] : x \in s}
           Bad == {s \in SUBSET S : G[s] # F[Image(s)]}
<1>1. \A s \in SUBSET S : F[s] \in Int /\ \A a \in s : F[s] = f[a] + F[s \ {a}]
  BY PartialSumsInt, PartialSumsRemove
<1>2. \A s \in SUBSET S : G[s] = SumStep(g, G, s)
  BY PartialSumsUnfold, Zenon
<1>3. F[{}] = 0
  BY PartialSumsUnfold DEF SumStep
<1> HIDE DEF F, G
<1>4. ASSUME Bad # {} PROVE FALSE
  <2>1. PICK s \in Bad : \A t \in SUBSET s : t # s => t \notin Bad
    <3>1. Bad \in SUBSET SUBSET S
      OBVIOUS
    <3> HIDE DEF Bad
    <3> QED
      BY <1>4, <3>1, MinimalSubset, Zenon
  <2>2. s \in SUBSET S /\ G[s] # F[Image(s)]
    BY <2>1
  <2>3. s # {}
    <3>1. Image({}) = {}
      OBVIOUS
    <3> QED
      BY <1>2, <1>3, <2>2, <3>1 DEF SumStep
  <2> DEFINE a == Pick(s)
             t == s \ {a}
  <2>4. a \in s /\ t \in SUBSET s /\ t # s
    BY <2>3, PickShrinks
  <2>5. G[s] = g[a] + G[t]
    BY <1>2, <2>2, <2>3 DEF SumStep
  <2> HIDE DEF a
  <2>6. G[t] = F[Image(t)]
    BY <2>1, <2>2, <2>4
  <2>7. Image(s) \in SUBSET S /\ p[a] \in Image(s) /\ Image(s) \ {p[a]} = Image(t)
    BY <2>2, <2>4
  <2> HIDE DEF Image
  <2>8. F[Image(s)] = f[p[a]] + F[Image(s) \ {p[a]}]
    BY <1>1, <2>7
  <2>10. F[Image(s)] = f[p[a]] + F[Image(t)]
    BY <2>7, <2>8
  <2>9. g[a] = f[p[a]]
    BY <2>2, <2>4
  <2> QED
    BY <2>2, <2>5, <2>6, <2>9, <2>10
<1>5. Image(S) = S
  <2>1. p \in Injection(S, S)
    BY DEF Injection, IsInjective
  <2>2. p \in Surjection(S, S)
    BY <2>1, FS_Injection
  <2> QED
    BY <2>2 DEF Surjection
<1>6. SumFunction(f) = F[S] /\ SumFunction(g) = G[S]
  BY SumIsPartialSum DEF SumFunction, F, G
<1> QED
  BY <1>4, <1>5, <1>6

\* A nonempty set of naturals below a bound has a greatest element.
LEMMA GreatestNatural ==
    ASSUME NEW n \in Nat, NEW S \in SUBSET (1..n), S # {}
    PROVE  \E x \in S : \A y \in S : x >= y
<1> DEFINE D == {n - x : x \in S}
<1>1. D \in SUBSET Nat /\ D # {}
  <2>1. \A x \in S : n - x \in Nat
    OBVIOUS
  <2> QED
    BY <2>1
<1>2. PICK d \in D : \A e \in D : d <= e
  BY <1>1, LeastNatural
<1>3. PICK x \in S : d = n - x
  OBVIOUS
<1>4. \A y \in S : n - y \in D /\ y \in Int /\ x \in Int
  OBVIOUS
<1> HIDE DEF D
<1> QED
  BY <1>2, <1>3, <1>4

-----------------------------------------------------------------------------
(* Recursion along a measure                                               *)

LeastIn(p, Bad, D, measure) ==
    p \in Bad /\ \A q \in D : measure[q] < measure[p] => q \notin Bad

\* A nonempty set has an element of least measure.
LEMMA LeastMeasure ==
    ASSUME NEW D, NEW measure \in [D -> Nat], NEW Bad \in SUBSET D, Bad # {}
    PROVE  \E p : LeastIn(p, Bad, D, measure)
<1> DEFINE M == {measure[p] : p \in Bad}
<1>1. M \in SUBSET Nat /\ M # {}
  OBVIOUS
<1>2. PICK m \in M : \A k \in M : m <= k
  BY <1>1, LeastNatural
<1>3. PICK p \in Bad : measure[p] = m
  BY <1>2
<1>4. ASSUME NEW q \in D, measure[q] < measure[p], q \in Bad
      PROVE  FALSE
  <2>1. m <= measure[q]
    BY <1>2, <1>4
  <2>2. m \in Nat /\ measure[q] \in Nat
    BY <1>1, <1>2
  <2> QED
    BY <1>3, <1>4, <2>1, <2>2
<1> QED
  BY <1>3, <1>4 DEF LeastIn

\* A recursion along a measure that decreases, and a function that solves it.
Decreases(D, measure, next) == \A p \in D : measure[p] # 0 => measure[next[p]] < measure[p]
Recurses(f, D, measure, next, base, combine) ==
    \A p \in D : f[p] = IF measure[p] = 0 THEN base[p] ELSE combine[p][f[next[p]]]

\* There is such a function.
LEMMA RecursionExists ==
    ASSUME NEW D, NEW V, NEW measure \in [D -> Nat], NEW next \in [D -> D],
           NEW base \in [D -> V], NEW combine \in [D -> [V -> V]],
           Decreases(D, measure, next)
    PROVE  \E f \in [D -> V] : Recurses(f, D, measure, next, base, combine)
<1> DEFINE Step(f, p) == IF measure[p] = 0 THEN base[p] ELSE combine[p][f[next[p]]]
           Solves(f, k) == \A p \in D : measure[p] <= k => f[p] = Step(f, p)
           Bad == {k \in Nat : ~\E f \in [D -> V] : Solves(f, k)}
<1>1. \A p \in D : measure[p] \in Nat /\ next[p] \in D /\ measure[next[p]] \in Nat
  OBVIOUS
<1>9. \A p \in D : measure[p] # 0 => measure[next[p]] < measure[p]
  BY DEF Decreases
<1>2. \E f \in [D -> V] : Solves(f, 0)
  <2>1. Solves(base, 0)
    BY <1>1
  <2> QED
    BY <2>1
<1>3. ASSUME NEW k \in Nat, NEW f \in [D -> V], Solves(f, k)
      PROVE  \E g \in [D -> V] : Solves(g, k + 1)
  <2> DEFINE g == [p \in D |-> Step(f, p)]
  <2>1. g \in [D -> V]
    <3>1. \A p \in D : Step(f, p) \in V
      BY <1>1
    <3> HIDE DEF Step
    <3> QED
      BY <3>1
  <2>2. \A p \in D : g[p] = Step(f, p)
    OBVIOUS
  <2> HIDE DEF g
  <2>3. ASSUME NEW p \in D, measure[p] <= k + 1
        PROVE  g[p] = Step(g, p)
    <3>1. CASE measure[p] = 0
      BY <2>2, <3>1
    <3>2. CASE measure[p] # 0
      <4>1. measure[next[p]] <= k
        BY <1>1, <1>9, <2>3, <3>2
      <4>2. f[next[p]] = Step(f, next[p])
        BY <1>1, <1>3, <4>1
      <4>3. g[next[p]] = f[next[p]]
        BY <1>1, <2>2, <4>2
      <4> QED
        BY <2>2, <3>2, <4>3
    <3> QED
      BY <3>1, <3>2
  <2> QED
    BY <2>1, <2>3
<1>4. ASSUME NEW k \in Nat
      PROVE  \E f \in [D -> V] : Solves(f, k)
  <2> SUFFICES ASSUME Bad # {}
               PROVE  FALSE
    BY <1>4
  <2> HIDE DEF Solves
  <2>1. Bad \in SUBSET Nat
    OBVIOUS
  <2>2. PICK m \in Bad : \A j \in Bad : m <= j
    BY <2>1, LeastNatural
  <2>3. m \in Nat /\ m # 0
    BY <1>2
  <2>4. m - 1 \in Nat /\ m - 1 \notin Bad /\ (m - 1) + 1 = m
    BY <2>2, <2>3
  <2>5. PICK f \in [D -> V] : Solves(f, m - 1)
    BY <2>4
  <2>6. \E g \in [D -> V] : Solves(g, (m - 1) + 1)
    BY <1>3, <2>4, <2>5
  <2> QED
    BY <2>2, <2>4, <2>6
<1>5. ASSUME NEW k \in Nat, NEW f \in [D -> V], Solves(f, k),
             NEW j \in Nat, NEW g \in [D -> V], Solves(g, j)
      PROVE  \A p \in D : measure[p] <= k /\ measure[p] <= j => f[p] = g[p]
  <2> DEFINE Differ == {p \in D : measure[p] <= k /\ measure[p] <= j /\ f[p] # g[p]}
  <2> SUFFICES ASSUME Differ # {}
               PROVE  FALSE
    OBVIOUS
  <2>1. Differ \in SUBSET D
    OBVIOUS
  <2>2. PICK p : LeastIn(p, Differ, D, measure)
    <3> HIDE DEF Differ
    <3> QED
      BY <2>1, LeastMeasure
  <2>3. p \in D /\ measure[p] <= k /\ measure[p] <= j /\ f[p] # g[p]
    BY <2>2 DEF LeastIn
  <2>4. f[p] = Step(f, p) /\ g[p] = Step(g, p)
    BY <1>5, <2>3
  <2>5. measure[p] # 0
    BY <2>3, <2>4
  <2>6. next[p] \in D /\ measure[next[p]] < measure[p] /\ next[p] \notin Differ
    BY <1>1, <1>9, <2>2, <2>3, <2>5 DEF LeastIn
  <2>7. measure[next[p]] <= k /\ measure[next[p]] <= j
    BY <1>1, <2>3, <2>6
  <2>8. f[next[p]] = g[next[p]]
    BY <2>6, <2>7
  <2> QED
    BY <2>3, <2>4, <2>5, <2>8
<1> DEFINE upto(k) == CHOOSE f \in [D -> V] : Solves(f, k)
           F == [p \in D |-> upto(measure[p])[p]]
<1>6. \A k \in Nat : upto(k) \in [D -> V] /\ Solves(upto(k), k)
  <2> HIDE DEF Solves
  <2> QED
    BY <1>4
<1>7. F \in [D -> V]
  <2> HIDE DEF Solves, upto
  <2> QED
    BY <1>1, <1>6
<1>8. ASSUME NEW p \in D
      PROVE  F[p] = Step(F, p)
  <2> DEFINE k == measure[p]
             f == upto(k)
  <2>1. f \in [D -> V] /\ Solves(f, k) /\ k \in Nat /\ F[p] = f[p]
    <3> HIDE DEF Solves, upto
    <3> QED
      BY <1>1, <1>6
  <2>2. f[p] = Step(f, p)
    <3> HIDE DEF f
    <3> QED
      BY <1>1, <2>1
  <2>3. CASE k = 0
    BY <2>1, <2>2, <2>3
  <2>4. CASE k # 0
    <3> DEFINE q == next[p]
               g == upto(measure[q])
    <3>1. q \in D /\ measure[q] \in Nat /\ measure[q] < k
      BY <1>1, <1>9, <2>4
    <3>2. g \in [D -> V] /\ Solves(g, measure[q]) /\ F[q] = g[q]
      <4> HIDE DEF Solves, upto, q
      <4> QED
        BY <1>6, <3>1
    <3>3. measure[q] <= k /\ measure[q] <= measure[q]
      BY <2>1, <3>1
    <3> HIDE DEF f, g, q, k, Solves, F
    <3>4. f[q] = g[q]
      BY <1>5, <2>1, <3>1, <3>2, <3>3
    <3> QED
      BY <2>1, <2>2, <2>4, <3>2, <3>4 DEF q, k
  <2> QED
    BY <2>3, <2>4
<1> HIDE DEF F
<1> QED
  BY <1>7, <1>8 DEF Recurses

-----------------------------------------------------------------------------
(* Euclid's algorithm                                                      *)

Euclid(f) ==
    f = [p \in Nat \X Nat |-> IF p[2] = 0 THEN p[1] ELSE f[<<p[2], p[1] % p[2]>>]]

LEMMA Remainder ==
    ASSUME NEW a \in Nat, NEW b \in Nat, b # 0
    PROVE  a % b \in Nat /\ a % b < b /\ a \div b \in Nat /\ a = b * (a \div b) + (a % b)
OBVIOUS

LEMMA GcdRecursion ==
    /\ gcd \in [Nat \X Nat -> Nat]
    /\ \A a, b \in Nat : gcd[<<a, b>>] = IF b = 0 THEN a ELSE gcd[<<b, a % b>>]
<1> DEFINE D == Nat \X Nat
           measure == [p \in D |-> p[2]]
           next == [p \in D |-> IF p[2] = 0 THEN p ELSE <<p[2], p[1] % p[2]>>]
           base == [p \in D |-> p[1]]
           same == [n \in Nat |-> n]
           combine == [p \in D |-> same]
<1>1. measure \in [D -> Nat] /\ base \in [D -> Nat] /\ combine \in [D -> [Nat -> Nat]]
  OBVIOUS
<1>2. ASSUME NEW p \in D, p[2] # 0
      PROVE  <<p[2], p[1] % p[2]>> \in D /\ p[1] % p[2] < p[2]
  <2>1. p[1] \in Nat /\ p[2] \in Nat
    OBVIOUS
  <2>2. p[1] % p[2] \in Nat /\ p[1] % p[2] < p[2]
    BY <1>2, <2>1, Remainder
  <2> QED
    BY <2>1, <2>2
<1>3. next \in [D -> D]
  BY <1>2
<1>4. Decreases(D, measure, next)
  BY <1>2 DEF Decreases
<1>5. \E f \in [D -> Nat] : Recurses(f, D, measure, next, base, combine)
  <2> HIDE DEF D, measure, next, base, combine, same
  <2> QED
    BY <1>1, <1>3, <1>4, RecursionExists
<1>6. PICK f \in [D -> Nat] :
        \A p \in D : f[p] = IF p[2] = 0 THEN p[1] ELSE f[<<p[2], p[1] % p[2]>>]
  <2>1. PICK f \in [D -> Nat] :
          \A p \in D : f[p] = IF measure[p] = 0 THEN base[p] ELSE combine[p][f[next[p]]]
    BY <1>5, Zenon DEF Recurses
  <2>2. ASSUME NEW p \in D
        PROVE  f[p] = IF p[2] = 0 THEN p[1] ELSE f[<<p[2], p[1] % p[2]>>]
    <3>1. CASE p[2] = 0
      BY <2>1, <3>1
    <3>2. CASE p[2] # 0
      <4>1. /\ measure[p] = p[2] /\ next[p] = <<p[2], p[1] % p[2]>>
            /\ next[p] \in D /\ combine[p] = same
        BY <1>2, <3>2
      <4>2. f[next[p]] \in Nat /\ same[f[next[p]]] = f[next[p]]
        BY <4>1
      <4>3. f[p] = combine[p][f[next[p]]]
        BY <2>1, <3>2, <4>1
      <4> HIDE DEF same, next, combine, measure
      <4> QED
        BY <3>2, <4>1, <4>2, <4>3
    <3> QED
      BY <3>1, <3>2
  <2> QED
    BY <2>2
<1>7. Euclid(f)
  BY <1>6 DEF Euclid
<1>8. Euclid(gcd)
  <2>1. gcd = CHOOSE g : Euclid(g)
    BY Zenon DEF gcd, Euclid
  <2> QED
    BY <1>7, <2>1
<1>9. \A p \in D : gcd[p] = IF p[2] = 0 THEN p[1] ELSE gcd[<<p[2], p[1] % p[2]>>]
  <2> DEFINE g == gcd
  <2>1. g = [p \in Nat \X Nat |-> IF p[2] = 0 THEN p[1] ELSE g[<<p[2], p[1] % p[2]>>]]
    BY <1>8 DEF Euclid
  <2> HIDE DEF g
  <2>2. \A p \in D : g[p] = IF p[2] = 0 THEN p[1] ELSE g[<<p[2], p[1] % p[2]>>]
    BY <2>1
  <2> QED
    BY <2>2 DEF g
<1>10. \A p \in D : gcd[p] \in Nat
  <2> DEFINE Bad == {p \in D : gcd[p] \notin Nat}
  <2> SUFFICES ASSUME Bad # {}
               PROVE  FALSE
    OBVIOUS
  <2>1. Bad \in SUBSET D
    OBVIOUS
  <2>2. PICK p : LeastIn(p, Bad, D, measure)
    <3> HIDE DEF Bad, measure, D
    <3> QED
      BY <1>1, <2>1, LeastMeasure
  <2>3. p \in D /\ gcd[p] \notin Nat
    BY <2>2 DEF LeastIn
  <2>4. p[2] # 0
    BY <1>9, <2>3
  <2>5. <<p[2], p[1] % p[2]>> \in D /\ measure[<<p[2], p[1] % p[2]>>] < measure[p]
    BY <1>2, <2>3, <2>4
  <2>6. gcd[<<p[2], p[1] % p[2]>>] \in Nat
    BY <2>2, <2>5 DEF LeastIn
  <2> QED
    BY <1>9, <2>3, <2>4, <2>6
<1>11. gcd \in [D -> Nat]
  <2>1. DOMAIN gcd = D /\ gcd = [p \in D |-> gcd[p]]
    <3> DEFINE g == gcd
    <3>1. g = [p \in Nat \X Nat |-> IF p[2] = 0 THEN p[1] ELSE g[<<p[2], p[1] % p[2]>>]]
      BY <1>8 DEF Euclid
    <3> HIDE DEF g
    <3>2. DOMAIN g = D /\ g = [p \in D |-> g[p]]
      BY <3>1
    <3> QED
      BY <3>2 DEF g
  <2> QED
    BY <1>10, <2>1
<1> QED
  BY <1>9, <1>11

\* A common divisor, which is also a combination of the two numbers.
Divisor(g, a, b) ==
    /\ g \in Nat
    /\ \E k, l \in Nat : a = g * k /\ b = g * l
    /\ \E x, y \in Int : g = x * a + y * b

LEMMA GcdDivides ==
    ASSUME NEW a \in Nat, NEW b \in Nat
    PROVE  Divisor(gcd[<<a, b>>], a, b)
<1> DEFINE D == Nat \X Nat
           measure == [p \in D |-> p[2]]
           Bad == {p \in D : ~Divisor(gcd[p], p[1], p[2])}
<1> SUFFICES ASSUME Bad # {}
             PROVE  FALSE
  OBVIOUS
<1>1. Bad \in SUBSET D /\ measure \in [D -> Nat]
  OBVIOUS
<1>2. PICK p : LeastIn(p, Bad, D, measure)
  <2> HIDE DEF Bad, measure, D
  <2> QED
    BY <1>1, LeastMeasure
<1>3. PICK m \in Nat, n \in Nat : p = <<m, n>>
  BY <1>2 DEF LeastIn
<1> DEFINE g == gcd[<<m, n>>]
<1>4. ~Divisor(g, m, n)
  BY <1>2, <1>3 DEF LeastIn
<1>5. g \in Nat
  BY GcdRecursion
<1>6. CASE n = 0
  <2>1. g = m
    BY <1>6, GcdRecursion
  <2>2. m = g * 1 /\ n = g * 0 /\ g = 1 * m + 0 * n
    BY <1>6, <2>1
  <2> HIDE DEF g
  <2> QED
    BY <1>4, <1>5, <2>2 DEF Divisor
<1>7. CASE n # 0
  <2> DEFINE r == m % n
             q == m \div n
  <2>1. r \in Nat /\ r < n /\ q \in Nat /\ m = n * q + r
    BY <1>7, Remainder
  <2>2. g = gcd[<<n, r>>]
    BY <1>7, GcdRecursion
  <2>3. Divisor(g, n, r)
    <3>1. <<n, r>> \in D /\ measure[<<n, r>>] < measure[p]
      BY <1>3, <2>1
    <3>2. <<n, r>> \notin Bad
      BY <1>2, <3>1 DEF LeastIn
    <3>3. Divisor(gcd[<<n, r>>], n, r)
      BY <3>1, <3>2
    <3> QED
      BY <2>2, <3>3
  <2> HIDE DEF g, r, q
  <2>4. PICK k \in Nat, l \in Nat : n = g * k /\ r = g * l
    BY <2>3 DEF Divisor
  <2>5. PICK x \in Int, y \in Int : g = x * n + y * r
    BY <2>3 DEF Divisor
  <2>6. m = g * (k * q + l)
    <3>1. (g * k) * q + g * l = g * (k * q + l)
      BY <1>5, <2>1, <2>4
    <3> QED
      BY <2>1, <2>4, <3>1
  <2>7. g = y * m + (x - y * q) * n
    <3>1. y * (n * q + r) + (x - y * q) * n = x * n + y * r
      BY <2>1, <2>5
    <3> QED
      BY <2>1, <2>5, <3>1
  <2>8. k * q + l \in Nat /\ x - y * q \in Int
    BY <2>1, <2>4, <2>5
  <2> QED
    BY <1>4, <1>5, <2>4, <2>5, <2>6, <2>7, <2>8 DEF Divisor
<1> QED
  BY <1>6, <1>7

-----------------------------------------------------------------------------
(* Lowest terms                                                            *)

Coprime(n, d) == \E x, y \in Int : x * n + y * d = 1

\* The values the operators of Fractions work on.
Rational == {q \in [n : Int, d : Nat \ {0}] : Coprime(q.n, q.d)}

LEMMA Cancel ==
    ASSUME NEW k \in Nat \ {0}, NEW x \in Int, NEW y \in Int, k * x = k * y
    PROVE  x = y
<1>1. k * (x - y) = 0
  OBVIOUS
<1> QED
  BY <1>1

LEMMA DivideExactly ==
    ASSUME NEW g \in Nat \ {0}, NEW k \in Int
    PROVE  (g * k) \div g = k
<1> DEFINE q == (g * k) \div g
<1>1. q \in Int /\ g * q <= g * k /\ g * k < g * q + g
  OBVIOUS
<1> HIDE DEF q
<1>2. g * (k - q) >= 0 /\ g * (k - q) < g
  BY <1>1
<1>3. k - q >= 0 /\ k - q < 1
  BY <1>1, <1>2
<1> QED
  BY <1>1, <1>3 DEF q

\* Frac cancels the greatest common divisor.
LEMMA FracCancels ==
    ASSUME NEW n \in Int, NEW d \in Nat \ {0}
    PROVE  /\ Frac(n, d) \in Rational
           /\ \E g \in Nat \ {0} : n = g * Frac(n, d).n /\ d = g * Frac(n, d).d
<1> DEFINE m == Magnitude(n)
           g == gcd[<<m, d>>]
<1>1. m \in Nat /\ (m = n \/ m = -n)
  BY DEF Magnitude
<1>2. Divisor(g, m, d)
  BY <1>1, GcdDivides
<1>3. Frac(n, d) = [n |-> n \div g, d |-> d \div g]
  BY DEF Frac, lowest
<1> HIDE DEF g
<1>4. PICK k \in Nat, l \in Nat : m = g * k /\ d = g * l
  BY <1>2 DEF Divisor
<1>5. PICK x \in Int, y \in Int : g = x * m + y * d
  BY <1>2 DEF Divisor
<1>6. g \in Nat /\ g # 0 /\ l # 0
  BY <1>2, <1>4 DEF Divisor
<1>7. PICK i \in Int : n = g * i /\ (i = k \/ i = -k)
  <2>1. n = g * k \/ n = g * (-k)
    BY <1>1, <1>4, <1>6
  <2> QED
    BY <2>1
<1>8. n \div g = i /\ d \div g = l
  BY <1>4, <1>6, <1>7, DivideExactly
<1>9. 1 = x * k + y * l
  <2>1. g * 1 = g * (x * k + y * l)
    BY <1>4, <1>5, <1>6
  <2>2. x * k + y * l \in Int
    BY <1>4, <1>5
  <2> QED
    BY <1>6, <2>1, <2>2, Cancel
<1>10. Coprime(i, l)
  <2>1. CASE i = k
    BY <1>5, <1>9, <2>1 DEF Coprime
  <2>2. CASE i = -k
    <3>1. (-x) * i + y * l = 1 /\ -x \in Int
      BY <1>4, <1>5, <1>9, <2>2
    <3> QED
      BY <1>5, <3>1 DEF Coprime
  <2> QED
    BY <1>7, <2>1, <2>2
<1>11. Frac(n, d) = [n |-> i, d |-> l]
  BY <1>3, <1>8
<1>12. Frac(n, d) \in Rational
  BY <1>4, <1>6, <1>7, <1>10, <1>11 DEF Rational
<1>13. g \in Nat \ {0} /\ n = g * Frac(n, d).n /\ d = g * Frac(n, d).d
  BY <1>4, <1>6, <1>7, <1>11
<1> QED
  BY <1>12, <1>13

\* Frac is the fraction in lowest terms.
LEMMA FracIs ==
    ASSUME NEW n \in Int, NEW d \in Nat \ {0}
    PROVE  /\ Frac(n, d) \in Rational /\ Frac(n, d).n \in Int /\ Frac(n, d).d \in Nat \ {0}
           /\ Frac(n, d).n * d = n * Frac(n, d).d
<1> DEFINE f == Frac(n, d)
<1>1. f \in Rational /\ f.n \in Int /\ f.d \in Nat \ {0}
  BY FracCancels DEF Rational
<1>2. PICK g \in Nat \ {0} : n = g * f.n /\ d = g * f.d
  BY FracCancels
<1> HIDE DEF f
<1>3. f.n * (g * f.d) = (g * f.n) * f.d
  BY <1>1
<1>4. f.n * d = n * f.d
  BY <1>2, <1>3
<1> QED
  BY <1>1, <1>4 DEF f

\* Equal fractions are equal values.
LEMMA SameFraction ==
    ASSUME NEW a \in Rational, NEW b \in Rational, a.n * b.d = b.n * a.d
    PROVE  a = b
<1>1. /\ a.n \in Int /\ a.d \in Nat \ {0} /\ a = [n |-> a.n, d |-> a.d]
      /\ b.n \in Int /\ b.d \in Nat \ {0} /\ b = [n |-> b.n, d |-> b.d]
  BY DEF Rational
<1>2. ASSUME NEW n \in Int, NEW d \in Nat \ {0}, NEW m \in Int, NEW e \in Nat \ {0},
             Coprime(n, d), n * e = m * d
      PROVE  d <= e
  <2>1. PICK x \in Int, y \in Int : x * n + y * d = 1
    BY <1>2 DEF Coprime
  <2>2. e = d * (x * m + y * e)
    <3>1. e = e * (x * n + y * d)
      BY <2>1
    <3>2. e * (x * n + y * d) = x * (n * e) + d * (y * e)
      OBVIOUS
    <3>3. x * (m * d) + d * (y * e) = d * (x * m + y * e)
      OBVIOUS
    <3> QED
      BY <1>2, <3>1, <3>2, <3>3
  <2> DEFINE z == x * m + y * e
  <2>3. z \in Int /\ e = d * z
    BY <2>2
  <2> HIDE DEF z
  <2>4. z >= 1
    BY <2>3
  <2> QED
    BY <2>3, <2>4
<1>3. a.d <= b.d
  BY <1>1, <1>2 DEF Rational
<1>4. b.d <= a.d
  BY <1>1, <1>2 DEF Rational
<1>5. a.d = b.d
  BY <1>1, <1>3, <1>4
<1>6. a.n = b.n
  BY <1>1, <1>5, Cancel
<1> QED
  BY <1>1, <1>5, <1>6

\* Which pairs of numbers give the same fraction.
LEMMA FracEqual ==
    ASSUME NEW n \in Int, NEW d \in Nat \ {0}, NEW m \in Int, NEW e \in Nat \ {0}
    PROVE  Frac(n, d) = Frac(m, e) <=> n * e = m * d
<1> DEFINE a == Frac(n, d)
           b == Frac(m, e)
<1>1. a \in Rational /\ a.n \in Int /\ a.d \in Nat \ {0} /\ a.n * d = n * a.d
  BY FracIs
<1>2. b \in Rational /\ b.n \in Int /\ b.d \in Nat \ {0} /\ b.n * e = m * b.d
  BY FracIs
<1> HIDE DEF a, b
<1>3. ASSUME a = b
      PROVE  n * e = m * d
  <2>1. (n * a.d) * e = (a.n * e) * d
    BY <1>1
  <2>2. (n * a.d) * e = (m * a.d) * d
    BY <1>2, <1>3, <2>1
  <2>3. a.d * (n * e) = a.d * (m * d)
    BY <1>1, <2>2
  <2>4. n * e \in Int /\ m * d \in Int
    OBVIOUS
  <2> QED
    BY <1>1, <2>3, <2>4, Cancel
<1>4. ASSUME n * e = m * d
      PROVE  a = b
  <2>1. (d * e) * (a.n * b.d) = ((a.n * d) * e) * b.d
    BY <1>1, <1>2
  <2>2. ((n * a.d) * e) * b.d = (n * e) * (a.d * b.d)
    BY <1>1, <1>2
  <2>3. (d * e) * (b.n * a.d) = ((b.n * e) * d) * a.d
    BY <1>1, <1>2
  <2>4. ((m * b.d) * d) * a.d = (m * d) * (a.d * b.d)
    BY <1>1, <1>2
  <2>5. (d * e) * (a.n * b.d) = (d * e) * (b.n * a.d)
    BY <1>1, <1>2, <1>4, <2>1, <2>2, <2>3, <2>4
  <2>6. d * e \in Nat \ {0} /\ a.n * b.d \in Int /\ b.n * a.d \in Int
    BY <1>1, <1>2
  <2>7. a.n * b.d = b.n * a.d
    BY <2>5, <2>6, Cancel
  <2> QED
    BY <1>1, <1>2, <2>7, SameFraction
<1> QED
  BY <1>3, <1>4 DEF a, b

LEMMA RationalIsFrac ==
    ASSUME NEW a \in Rational
    PROVE  a.n \in Int /\ a.d \in Nat \ {0} /\ a = [n |-> a.n, d |-> a.d] /\ a = Frac(a.n, a.d)
<1>1. a.n \in Int /\ a.d \in Nat \ {0} /\ a = [n |-> a.n, d |-> a.d]
  BY DEF Rational
<1>2. Frac(a.n, a.d) \in Rational /\ Frac(a.n, a.d).n * a.d = a.n * Frac(a.n, a.d).d
  BY <1>1, FracIs
<1> QED
  BY <1>1, <1>2, SameFraction

LEMMA WholeIs ==
    ASSUME NEW k \in Int
    PROVE  Whole(k) \in Rational /\ \A d \in Nat \ {0} : Whole(k) = Frac(k * d, d)
<1>1. Coprime(k, 1)
  <2>1. 0 * k + 1 * 1 = 1
    OBVIOUS
  <2> QED
    BY <2>1 DEF Coprime
<1>2. Whole(k) \in Rational
  BY <1>1 DEF Whole, Rational
<1>3. Whole(k) = Frac(k, 1)
  BY <1>2, RationalIsFrac DEF Whole
<1>4. ASSUME NEW d \in Nat \ {0}
      PROVE  Frac(k, 1) = Frac(k * d, d)
  <2>1. k * d \in Int /\ k * d = (k * d) * 1
    OBVIOUS
  <2> QED
    BY <2>1, FracEqual
<1> QED
  BY <1>2, <1>3, <1>4

\* Plus is the sum.
LEMMA PlusIs ==
    ASSUME NEW a \in Rational, NEW b \in Rational
    PROVE  Plus(a, b) = Frac(a.n * b.d + b.n * a.d, a.d * b.d)
<1>1. /\ a.n \in Int /\ a.d \in Nat \ {0} /\ b.n \in Int /\ b.d \in Nat \ {0}
  BY RationalIsFrac
<1> DEFINE g == gcd[<<a.d, b.d>>]
<1>2. Divisor(g, a.d, b.d)
  BY <1>1, GcdDivides
<1>3. Plus(a, b) = Frac(a.n * (b.d \div g) + b.n * (a.d \div g), (a.d \div g) * b.d)
  BY DEF Plus
<1> HIDE DEF g
<1>4. PICK k \in Nat, l \in Nat : a.d = g * k /\ b.d = g * l
  BY <1>2 DEF Divisor
<1>5. g \in Nat \ {0} /\ k # 0 /\ l # 0
  BY <1>1, <1>2, <1>4 DEF Divisor
<1>6. a.d \div g = k /\ b.d \div g = l
  BY <1>4, <1>5, DivideExactly
<1> DEFINE x == a.n * l + b.n * k
<1>7. Plus(a, b) = Frac(x, k * b.d)
  BY <1>3, <1>6
<1>8. a.n * b.d + b.n * a.d = g * x /\ a.d * b.d = g * (k * b.d) /\ x \in Int
  BY <1>1, <1>4, <1>5
<1>9. k * b.d \in Nat \ {0} /\ a.d * b.d \in Nat \ {0}
  BY <1>1, <1>4, <1>5
<1> HIDE DEF x
<1>10. x * (a.d * b.d) = (g * x) * (k * b.d)
  BY <1>5, <1>8, <1>9
<1> QED
  BY <1>5, <1>7, <1>8, <1>9, <1>10, FracEqual

LEMMA OppositeIs ==
    ASSUME NEW b \in Rational
    PROVE  /\ [b EXCEPT !.n = -@] \in Rational
           /\ [b EXCEPT !.n = -@] = [n |-> -b.n, d |-> b.d]
<1>1. b.n \in Int /\ b.d \in Nat \ {0} /\ b = [n |-> b.n, d |-> b.d] /\ Coprime(b.n, b.d)
  BY RationalIsFrac DEF Rational
<1>2. PICK x \in Int, y \in Int : x * b.n + y * b.d = 1
  BY <1>1 DEF Coprime
<1>3. (-x) * (-b.n) + y * b.d = 1 /\ -x \in Int
  BY <1>1, <1>2
<1>4. Coprime(-b.n, b.d)
  BY <1>3 DEF Coprime
<1>5. [b EXCEPT !.n = -@] = [n |-> -b.n, d |-> b.d]
  BY <1>1
<1> QED
  BY <1>1, <1>4, <1>5 DEF Rational

LEMMA MinusIs ==
    ASSUME NEW a \in Rational, NEW b \in Rational
    PROVE  Minus(a, b) = Frac(a.n * b.d - b.n * a.d, a.d * b.d)
<1> DEFINE c == [b EXCEPT !.n = -@]
<1>1. c \in Rational /\ c.n = -b.n /\ c.d = b.d
  <2>1. c \in Rational /\ c = [n |-> -b.n, d |-> b.d]
    BY OppositeIs
  <2> HIDE DEF c
  <2> QED
    BY <2>1
<1>2. Minus(a, b) = Plus(a, c)
  BY DEF Minus
<1> HIDE DEF c
<1>3. a.n * c.d + c.n * a.d = a.n * b.d - b.n * a.d /\ a.d * c.d = a.d * b.d
  BY <1>1, RationalIsFrac
<1> QED
  BY <1>1, <1>2, <1>3, PlusIs

-----------------------------------------------------------------------------
(* Over one denominator fractions are integers                             *)

LEMMA SumOverOne ==
    ASSUME NEW d \in Nat \ {0}, NEW x \in Int, NEW y \in Int
    PROVE  Plus(Frac(x, d), Frac(y, d)) = Frac(x + y, d)
<1> DEFINE a == Frac(x, d)
           b == Frac(y, d)
<1>1. a \in Rational /\ a.n \in Int /\ a.d \in Nat \ {0} /\ a.n * d = x * a.d
  BY FracIs
<1>2. b \in Rational /\ b.n \in Int /\ b.d \in Nat \ {0} /\ b.n * d = y * b.d
  BY FracIs
<1> HIDE DEF a, b
<1>3. (a.n * b.d + b.n * a.d) * d = (x + y) * (a.d * b.d)
  <2>1. (a.n * b.d + b.n * a.d) * d = (a.n * d) * b.d + (b.n * d) * a.d
    BY <1>1, <1>2
  <2>2. (x * a.d) * b.d + (y * b.d) * a.d = (x + y) * (a.d * b.d)
    BY <1>1, <1>2
  <2> QED
    BY <1>1, <1>2, <2>1, <2>2
<1>4. a.d * b.d \in Nat \ {0} /\ a.n * b.d + b.n * a.d \in Int
  BY <1>1, <1>2
<1>5. Frac(a.n * b.d + b.n * a.d, a.d * b.d) = Frac(x + y, d)
  BY <1>3, <1>4, FracEqual
<1>6. Plus(a, b) = Frac(x + y, d)
  BY <1>1, <1>2, <1>5, PlusIs
<1> QED
  BY <1>6 DEF a, b

LEMMA OppositeOverOne ==
    ASSUME NEW d \in Nat \ {0}, NEW y \in Int
    PROVE  [Frac(y, d) EXCEPT !.n = -@] = Frac(-y, d)
<1> DEFINE b == Frac(y, d)
<1>1. b \in Rational /\ b.n \in Int /\ b.d \in Nat \ {0} /\ b.n * d = y * b.d
  BY FracIs
<1> DEFINE c == [b EXCEPT !.n = -@]
<1>2. c \in Rational /\ c = [n |-> -b.n, d |-> b.d]
  BY <1>1, OppositeIs
<1>3. c = Frac(-b.n, b.d)
  BY <1>2, RationalIsFrac
<1> HIDE DEF b
<1>4. (-b.n) * d = (-y) * b.d
  BY <1>1
<1>5. Frac(-b.n, b.d) = Frac(-y, d)
  BY <1>1, <1>4, FracEqual
<1> QED
  BY <1>3, <1>5 DEF b

LEMMA DifferenceOverOne ==
    ASSUME NEW d \in Nat \ {0}, NEW x \in Int, NEW y \in Int
    PROVE  Minus(Frac(x, d), Frac(y, d)) = Frac(x - y, d)
<1>1. -y \in Int /\ x + (-y) = x - y
  OBVIOUS
<1>2. Plus(Frac(x, d), Frac(-y, d)) = Frac(x + (-y), d)
  BY <1>1, SumOverOne
<1> QED
  BY <1>1, <1>2, OppositeOverOne DEF Minus

LEMMA TimesOverOne ==
    ASSUME NEW d \in Nat \ {0}, NEW x \in Int, NEW k \in Int
    PROVE  Times(k, Frac(x, d)) = Frac(k * x, d)
<1> DEFINE a == Frac(x, d)
<1>1. a \in Rational /\ a.n \in Int /\ a.d \in Nat \ {0} /\ a.n * d = x * a.d
  BY FracIs
<1> HIDE DEF a
<1>2. (k * a.n) * d = (k * x) * a.d
  <2>1. (k * a.n) * d = k * (a.n * d) /\ (k * x) * a.d = k * (x * a.d)
    BY <1>1
  <2> QED
    BY <1>1, <2>1
<1>3. Frac(k * a.n, a.d) = Frac(k * x, d)
  BY <1>1, <1>2, FracEqual
<1> QED
  BY <1>3 DEF a, Times

LEMMA ShareOverOne ==
    ASSUME NEW d \in Nat \ {0}, NEW x \in Int, NEW k \in Nat \ {0}
    PROVE  Share(Frac(x, d), k) = Frac(x, d * k)
<1> DEFINE a == Frac(x, d)
<1>1. a \in Rational /\ a.n \in Int /\ a.d \in Nat \ {0} /\ a.n * d = x * a.d
  BY FracIs
<1> HIDE DEF a
<1>2. a.n * (d * k) = x * (a.d * k)
  <2>1. a.n * (d * k) = (a.n * d) * k /\ x * (a.d * k) = (x * a.d) * k
    BY <1>1
  <2> QED
    BY <1>1, <2>1
<1>3. d * k \in Nat \ {0} /\ a.d * k \in Nat \ {0}
  BY <1>1
<1>4. Frac(a.n, a.d * k) = Frac(x, d * k)
  BY <1>1, <1>2, <1>3, FracEqual
<1> QED
  BY <1>4 DEF a, Share

\* Multiplying by positive numbers keeps the order.
LEMMA ScaleOrder ==
    ASSUME NEW k \in Nat \ {0}, NEW x \in Int, NEW y \in Int
    PROVE  (k * x < k * y <=> x < y) /\ (k * x <= k * y <=> x <= y)
<1>1. k * y - k * x = k * (y - x)
  OBVIOUS
<1>2. y - x > 0 => k * (y - x) > 0
  OBVIOUS
<1>3. y - x < 0 => k * (y - x) < 0
  OBVIOUS
<1>4. y - x = 0 => k * (y - x) = 0
  OBVIOUS
<1>5. k * y - k * x \in Int /\ y - x \in Int /\ k * x \in Int /\ k * y \in Int
  OBVIOUS
<1> QED
  BY <1>1, <1>2, <1>3, <1>4, <1>5

LEMMA OrderOverOne ==
    ASSUME NEW d \in Nat \ {0}, NEW x \in Int, NEW y \in Int
    PROVE  /\ Below(Frac(x, d), Frac(y, d)) <=> x < y
           /\ AtMost(Frac(x, d), Frac(y, d)) <=> x <= y
           /\ Frac(x, d) = Frac(y, d) <=> x = y
           /\ Frac(x, d).n > 0 <=> x > 0
           /\ Frac(x, d).n < 0 <=> x < 0
<1> DEFINE a == Frac(x, d)
           b == Frac(y, d)
<1>1. a \in Rational /\ a.n \in Int /\ a.d \in Nat \ {0} /\ a.n * d = x * a.d
  BY FracIs
<1>2. b \in Rational /\ b.n \in Int /\ b.d \in Nat \ {0} /\ b.n * d = y * b.d
  BY FracIs
<1>3. a = b <=> x * d = y * d
  BY FracEqual
<1>4. x * d = y * d <=> x = y
  BY Cancel
<1> HIDE DEF a, b
<1> DEFINE k == a.d * b.d
           l == a.n * b.d
           m == b.n * a.d
<1>5. d * l = k * x /\ d * m = k * y
  <2>1. d * (a.n * b.d) = (a.n * d) * b.d /\ d * (b.n * a.d) = (b.n * d) * a.d
    BY <1>1, <1>2
  <2>2. (x * a.d) * b.d = (a.d * b.d) * x /\ (y * b.d) * a.d = (a.d * b.d) * y
    BY <1>1, <1>2
  <2> QED
    BY <1>1, <1>2, <2>1, <2>2
<1>6. k \in Nat \ {0} /\ l \in Int /\ m \in Int
  BY <1>1, <1>2
<1>7. Below(a, b) = (l < m) /\ AtMost(a, b) = (l <= m)
  BY DEF Below, AtMost
<1> HIDE DEF k, l, m
<1>8. l < m <=> x < y
  BY <1>5, <1>6, ScaleOrder
<1>9. l <= m <=> x <= y
  BY <1>5, <1>6, ScaleOrder
<1>10. (a.n > 0 <=> x > 0) /\ (a.n < 0 <=> x < 0)
  <2>1. d * a.n = a.d * x
    BY <1>1
  <2>2. (d * 0 < d * a.n <=> 0 < a.n) /\ (a.d * 0 < a.d * x <=> 0 < x)
    BY <1>1, ScaleOrder
  <2>3. (d * a.n < d * 0 <=> a.n < 0) /\ (a.d * x < a.d * 0 <=> x < 0)
    BY <1>1, ScaleOrder
  <2>4. d * 0 = 0 /\ a.d * 0 = 0
    BY <1>1
  <2> QED
    BY <1>1, <2>1, <2>2, <2>3, <2>4
<1> QED
  BY <1>3, <1>4, <1>7, <1>8, <1>9, <1>10 DEF a, b

\* Any two, three or four fractions have a common denominator.
LEMMA OneDenominator ==
    ASSUME NEW a \in Rational, NEW e \in Nat \ {0}
    PROVE  \E x \in Int : a = Frac(x, a.d * e)
<1>1. a.n \in Int /\ a.d \in Nat \ {0} /\ a = Frac(a.n, a.d)
  BY RationalIsFrac
<1>2. a.n * e \in Int /\ a.d * e \in Nat \ {0} /\ a.n * (a.d * e) = (a.n * e) * a.d
  BY <1>1
<1>3. Frac(a.n, a.d) = Frac(a.n * e, a.d * e)
  BY <1>1, <1>2, FracEqual
<1> QED
  BY <1>1, <1>2, <1>3

AllOver(a, b, c, e, d) ==
    \E x, y, z, w \in Int :
        a = Frac(x, d) /\ b = Frac(y, d) /\ c = Frac(z, d) /\ e = Frac(w, d)

LEMMA CommonDenominator ==
    ASSUME NEW a \in Rational, NEW b \in Rational, NEW c \in Rational, NEW e \in Rational
    PROVE  \E d \in Nat \ {0} : AllOver(a, b, c, e, d)
<1>1. a.d \in Nat \ {0} /\ b.d \in Nat \ {0} /\ c.d \in Nat \ {0} /\ e.d \in Nat \ {0}
  BY RationalIsFrac
<1> DEFINE k == a.d
           l == b.d
           m == c.d
           n == e.d
           d == k * (l * (m * n))
<1>2. /\ k \in Nat \ {0} /\ l \in Nat \ {0} /\ m \in Nat \ {0} /\ n \in Nat \ {0}
  BY <1>1
<1> HIDE DEF k, l, m, n
<1>3. /\ l * (m * n) \in Nat \ {0} /\ k * (m * n) \in Nat \ {0}
      /\ k * (l * n) \in Nat \ {0} /\ k * (l * m) \in Nat \ {0} /\ d \in Nat \ {0}
  <2>1. m * n \in Nat \ {0} /\ l * n \in Nat \ {0} /\ l * m \in Nat \ {0}
    BY <1>2
  <2>2. l * (m * n) \in Nat \ {0} /\ k * (m * n) \in Nat \ {0}
    BY <1>2, <2>1
  <2>3. k * (l * n) \in Nat \ {0} /\ k * (l * m) \in Nat \ {0}
    BY <1>2, <2>1
  <2> QED
    BY <1>2, <2>2, <2>3
<1>4. d = l * (k * (m * n)) /\ d = m * (k * (l * n)) /\ d = n * (k * (l * m))
  BY <1>2
<1> HIDE DEF d
<1>5. PICK x \in Int : a = Frac(x, k * (l * (m * n)))
  BY <1>3, OneDenominator DEF k
<1>6. PICK y \in Int : b = Frac(y, l * (k * (m * n)))
  BY <1>3, OneDenominator DEF l
<1>7. PICK z \in Int : c = Frac(z, m * (k * (l * n)))
  BY <1>3, OneDenominator DEF m
<1>8. PICK w \in Int : e = Frac(w, n * (k * (l * m)))
  BY <1>3, OneDenominator DEF n
<1>9. a = Frac(x, d)
  BY <1>5 DEF d
<1>10. AllOver(a, b, c, e, d)
  BY <1>4, <1>6, <1>7, <1>8, <1>9 DEF AllOver
<1> QED
  BY <1>3, <1>10

-----------------------------------------------------------------------------
(* Products and quotients                                                  *)

LEMMA CoprimeProduct ==
    ASSUME NEW n \in Int, NEW d \in Int, NEW e \in Int, Coprime(n, d), Coprime(n, e)
    PROVE  Coprime(n, d * e)
<1>1. PICK x \in Int, y \in Int : x * n + y * d = 1
  BY DEF Coprime
<1>2. PICK u \in Int, v \in Int : u * n + v * e = 1
  BY DEF Coprime
<1>3. (x * n + y * d) * (u * n + v * e)
         = (x * (u * n) + x * (v * e) + (y * d) * u) * n + (y * v) * (d * e)
  OBVIOUS
<1>4. (x * (u * n) + x * (v * e) + (y * d) * u) * n + (y * v) * (d * e) = 1
  BY <1>1, <1>2, <1>3
<1>5. x * (u * n) + x * (v * e) + (y * d) * u \in Int /\ y * v \in Int
  OBVIOUS
<1> QED
  BY <1>4, <1>5 DEF Coprime

LEMMA CoprimeCommutes ==
    ASSUME NEW n \in Int, NEW d \in Int, Coprime(n, d)
    PROVE  Coprime(d, n)
<1>1. PICK x \in Int, y \in Int : x * n + y * d = 1
  BY DEF Coprime
<1>2. y * d + x * n = 1
  BY <1>1
<1> QED
  BY <1>2 DEF Coprime

\* Factors of coprime numbers are coprime.
LEMMA CoprimeFactors ==
    ASSUME NEW g \in Int, NEW h \in Int, NEW n \in Int, NEW d \in Int, Coprime(g * n, h * d)
    PROVE  Coprime(n, d)
<1>1. PICK x \in Int, y \in Int : x * (g * n) + y * (h * d) = 1
  BY DEF Coprime
<1>2. (x * g) * n + (y * h) * d = 1 /\ x * g \in Int /\ y * h \in Int
  BY <1>1
<1> QED
  BY <1>2 DEF Coprime

LEMMA ProductIs ==
    ASSUME NEW a \in Rational, NEW b \in Rational
    PROVE  Product(a, b) \in Rational /\ Product(a, b) = Frac(a.n * b.n, a.d * b.d)
<1>1. /\ a.n \in Int /\ a.d \in Nat \ {0} /\ Coprime(a.n, a.d)
      /\ b.n \in Int /\ b.d \in Nat \ {0} /\ Coprime(b.n, b.d)
  BY RationalIsFrac DEF Rational
<1> DEFINE x == Frac(a.n, b.d)
           y == Frac(b.n, a.d)
           p == x.n * y.n
           q == x.d * y.d
<1>2. /\ x.n \in Int /\ x.d \in Nat \ {0} /\ Coprime(x.n, x.d)
      /\ y.n \in Int /\ y.d \in Nat \ {0} /\ Coprime(y.n, y.d)
  BY <1>1, FracIs DEF Rational
<1>3. PICK g \in Nat \ {0} : a.n = g * x.n /\ b.d = g * x.d
  BY <1>1, FracCancels
<1>4. PICK h \in Nat \ {0} : b.n = h * y.n /\ a.d = h * y.d
  BY <1>1, FracCancels
<1>5. Product(a, b) = [n |-> p, d |-> q]
  BY DEF Product
<1> HIDE DEF x, y
<1>6. Coprime(x.n, y.d) /\ Coprime(y.n, x.d)
  <2>1. Coprime(g * x.n, h * y.d) /\ Coprime(h * y.n, g * x.d)
    BY <1>1, <1>3, <1>4
  <2>2. g \in Int /\ h \in Int /\ x.d \in Int /\ y.d \in Int
    BY <1>2
  <2> QED
    BY <1>2, <2>1, <2>2, CoprimeFactors
<1>7. Coprime(x.n, q) /\ Coprime(y.n, q)
  <2>1. x.d \in Int /\ y.d \in Int
    BY <1>2
  <2> QED
    BY <1>2, <1>6, <2>1, CoprimeProduct
<1>8. p \in Int /\ q \in Nat \ {0}
  BY <1>2
<1>9. Coprime(p, q)
  <2>1. q \in Int
    BY <1>8
  <2> HIDE DEF q
  <2>2. Coprime(q, x.n) /\ Coprime(q, y.n)
    BY <1>2, <1>7, <2>1, CoprimeCommutes
  <2>3. Coprime(q, p)
    BY <1>2, <2>1, <2>2, CoprimeProduct
  <2> QED
    BY <1>8, <2>1, <2>3, CoprimeCommutes
<1>10. a.n * b.n = (g * h) * p /\ a.d * b.d = (g * h) * q
  BY <1>2, <1>3, <1>4
<1> HIDE DEF p, q
<1>11. [n |-> p, d |-> q] \in Rational
  BY <1>8, <1>9 DEF Rational
<1>12. [n |-> p, d |-> q] = Frac(p, q)
  BY <1>11, RationalIsFrac
<1>13. g * h \in Nat \ {0} /\ (g * h) * p \in Int /\ (g * h) * q \in Nat \ {0}
  BY <1>8
<1>14. Frac(p, q) = Frac((g * h) * p, (g * h) * q)
  <2>1. p * ((g * h) * q) = ((g * h) * p) * q
    BY <1>8, <1>13
  <2> QED
    BY <1>8, <1>13, <2>1, FracEqual
<1> QED
  BY <1>5, <1>10, <1>11, <1>12, <1>14

LEMMA ProductOverOne ==
    ASSUME NEW d \in Nat \ {0}, NEW e \in Nat \ {0}, NEW x \in Int, NEW y \in Int
    PROVE  Product(Frac(x, d), Frac(y, e)) = Frac(x * y, d * e)
<1> DEFINE a == Frac(x, d)
           b == Frac(y, e)
<1>1. a \in Rational /\ a.n \in Int /\ a.d \in Nat \ {0} /\ a.n * d = x * a.d
  BY FracIs
<1>2. b \in Rational /\ b.n \in Int /\ b.d \in Nat \ {0} /\ b.n * e = y * b.d
  BY FracIs
<1> HIDE DEF a, b
<1>3. (a.n * b.n) * (d * e) = (x * y) * (a.d * b.d)
  <2>1. (a.n * b.n) * (d * e) = (a.n * d) * (b.n * e)
    BY <1>1, <1>2
  <2>2. (x * a.d) * (y * b.d) = (x * y) * (a.d * b.d)
    BY <1>1, <1>2
  <2> QED
    BY <1>1, <1>2, <2>1, <2>2
<1>4. a.n * b.n \in Int /\ a.d * b.d \in Nat \ {0} /\ x * y \in Int /\ d * e \in Nat \ {0}
  BY <1>1, <1>2
<1>5. Frac(a.n * b.n, a.d * b.d) = Frac(x * y, d * e)
  BY <1>3, <1>4, FracEqual
<1>6. Product(a, b) = Frac(x * y, d * e)
  BY <1>1, <1>2, <1>5, ProductIs
<1> QED
  BY <1>6 DEF a, b

LEMMA OverOne ==
    ASSUME NEW d \in Nat \ {0}, NEW x \in Int, NEW y \in Int, y # 0
    PROVE  /\ Over(Frac(x, d), Frac(y, d)) \in Rational
           /\ Over(Frac(x, d), Frac(y, d)) = IF y > 0 THEN Frac(x, y) ELSE Frac(-x, -y)
<1> DEFINE a == Frac(x, d)
           b == Frac(y, d)
<1>1. a \in Rational
  BY FracIs
<1>2. /\ b \in Rational /\ b.n \in Int /\ b.d \in Nat \ {0} /\ b.n * d = y * b.d
      /\ Coprime(b.n, b.d)
  BY FracIs DEF Rational
<1>3. (b.n > 0 <=> y > 0) /\ (b.n < 0 <=> y < 0)
  BY OrderOverOne
<1> DEFINE s == IF y > 0 THEN 1 ELSE -1
           c == [n |-> s * b.d, d |-> s * b.n]
<1>4. s \in Int /\ s * s = 1
  OBVIOUS
<1>5. Over(a, b) = Product(a, c)
  <2>1. CASE y > 0
    <3>1. c = [n |-> b.d, d |-> b.n]
      BY <1>2, <2>1
    <3> QED
      BY <1>3, <2>1, <3>1 DEF Over
  <2>2. CASE ~(y > 0)
    <3>1. c = [n |-> -b.d, d |-> -b.n]
      BY <1>2, <2>2
    <3>2. ~(b.n > 0)
      BY <1>3, <2>2
    <3> QED
      BY <3>1, <3>2 DEF Over
  <2> QED
    BY <2>1, <2>2
<1>6. s * b.n \in Nat \ {0} /\ s * b.d \in Int /\ s * y \in Nat \ {0}
  BY <1>2, <1>3
<1> HIDE DEF a, b, s
<1>7. c \in Rational
  <2>1. PICK u \in Int, v \in Int : u * b.n + v * b.d = 1
    BY <1>2 DEF Coprime
  <2>2. (v * s) * (s * b.d) + (u * s) * (s * b.n) = 1
    <3>1. (v * s) * (s * b.d) = (s * s) * (v * b.d) /\ (u * s) * (s * b.n) = (s * s) * (u * b.n)
      BY <1>2, <1>4
    <3>2. (v * s) * (s * b.d) = v * b.d /\ (u * s) * (s * b.n) = u * b.n
      BY <1>2, <1>4, <3>1
    <3> QED
      BY <1>2, <2>1, <3>2
  <2>3. v * s \in Int /\ u * s \in Int
    BY <1>4
  <2>4. Coprime(s * b.d, s * b.n)
    BY <2>2, <2>3 DEF Coprime
  <2> QED
    BY <1>6, <2>4 DEF Rational
<1>8. c = Frac(s * b.d, s * b.n)
  BY <1>7, RationalIsFrac
<1>9. Frac(s * b.d, s * b.n) = Frac(s * d, s * y)
  <2>1. (s * b.d) * (s * y) = (s * d) * (s * b.n)
    <3>1. (s * b.d) * (s * y) = (s * s) * (y * b.d) /\ (s * d) * (s * b.n) = (s * s) * (b.n * d)
      BY <1>2, <1>4
    <3> QED
      BY <1>2, <3>1
  <2>2. s * d \in Int
    BY <1>4
  <2> QED
    BY <1>6, <2>1, <2>2, FracEqual
<1>10. Product(a, c) = Frac(x * (s * d), d * (s * y))
  <2>1. s * d \in Int
    BY <1>4
  <2>2. Product(Frac(x, d), Frac(s * d, s * y)) = Frac(x * (s * d), d * (s * y))
    BY <1>6, <2>1, ProductOverOne
  <2> QED
    BY <1>8, <1>9, <2>2 DEF a
<1>11. Frac(x * (s * d), d * (s * y)) = Frac(s * x, s * y)
  <2>1. (x * (s * d)) * (s * y) = (s * x) * (d * (s * y))
    BY <1>4
  <2>2. x * (s * d) \in Int /\ s * x \in Int /\ d * (s * y) \in Nat \ {0}
    BY <1>4, <1>6
  <2> QED
    BY <1>6, <2>1, <2>2, FracEqual
<1>12. Over(a, b) \in Rational /\ Over(a, b) = Frac(s * x, s * y)
  BY <1>1, <1>5, <1>7, <1>10, <1>11, ProductIs
<1>13. s * x = (IF y > 0 THEN x ELSE -x) /\ s * y = (IF y > 0 THEN y ELSE -y)
  BY DEF s
<1> QED
  BY <1>12, <1>13 DEF a, b

LEMMA AbsOverOne ==
    ASSUME NEW d \in Nat \ {0}, NEW x \in Int
    PROVE  Absolute(Frac(x, d)) = Frac(Magnitude(x), d) /\ Magnitude(x) \in Nat
<1> DEFINE a == Frac(x, d)
<1>1. a \in Rational /\ a.n \in Int /\ a.d \in Nat \ {0} /\ a = [n |-> a.n, d |-> a.d]
  BY FracIs, RationalIsFrac
<1>2. (a.n > 0 <=> x > 0) /\ (a.n < 0 <=> x < 0)
  BY OrderOverOne
<1>3. CASE x < 0
  <2>1. Absolute(a) = [a EXCEPT !.n = -@]
    BY <1>1, <1>2, <1>3 DEF Absolute, Magnitude
  <2> QED
    BY <1>3, <2>1, OppositeOverOne DEF Magnitude
<1>4. CASE ~(x < 0)
  <2>1. Absolute(a) = a
    BY <1>1, <1>2, <1>4 DEF Absolute, Magnitude
  <2> QED
    BY <1>4, <2>1 DEF Magnitude
<1> QED
  BY <1>3, <1>4

-----------------------------------------------------------------------------
(* Totals                                                                  *)

Shares(R, d) == \A q \in R : \E x \in Int : q = Frac(x, d)

\* Finitely many fractions have a common denominator.
LEMMA SharedDenominator ==
    ASSUME NEW R \in SUBSET Rational, IsFiniteSet(R)
    PROVE  \E d \in Nat \ {0} : Shares(R, d)
<1> DEFINE Bad == {s \in SUBSET R : ~\E d \in Nat \ {0} : Shares(s, d)}
<1> SUFFICES ASSUME Bad # {}
             PROVE  FALSE
  OBVIOUS
<1>1. PICK s \in Bad : \A t \in SUBSET s : t # s => t \notin Bad
  <2>1. Bad \in SUBSET SUBSET R
    OBVIOUS
  <2> HIDE DEF Bad
  <2> QED
    BY <2>1, MinimalSubset, Zenon
<1>2. s \in SUBSET R /\ ~\E d \in Nat \ {0} : Shares(s, d)
  OBVIOUS
<1>3. s # {}
  <2>1. 1 \in Nat \ {0} /\ Shares({}, 1)
    BY DEF Shares
  <2> QED
    BY <1>2, <2>1
<1>4. PICK q \in s : TRUE
  BY <1>3
<1> DEFINE t == s \ {q}
<1>5. PICK e \in Nat \ {0} : Shares(t, e)
  BY <1>1, <1>2
<1>6. /\ q \in Rational /\ q.d \in Nat \ {0} /\ q.d * e \in Nat \ {0}
  BY <1>2, RationalIsFrac
<1>7. \E x \in Int : q = Frac(x, q.d * e)
  BY <1>6, OneDenominator
<1>8. ASSUME NEW r \in t
      PROVE  \E x \in Int : r = Frac(x, q.d * e)
  <2>1. PICK x \in Int : r = Frac(x, e)
    BY <1>5 DEF Shares
  <2>2. Frac(x, e) = Frac(x * q.d, q.d * e)
    <3>1. x * (q.d * e) = (x * q.d) * e /\ x * q.d \in Int
      BY <1>6
    <3> QED
      BY <1>6, <3>1, FracEqual
  <2> QED
    BY <1>6, <2>1, <2>2
<1>9. Shares(s, q.d * e)
  BY <1>4, <1>7, <1>8 DEF Shares
<1> QED
  BY <1>2, <1>6, <1>9

\* The numerator of a fraction over a denominator of its own.
Numerator(q, d) == CHOOSE x \in Int : q = Frac(x, d)
Numerators(v, S, d) == [s \in S |-> Numerator(v[s], d)]

LEMMA NumeratorsAre ==
    ASSUME NEW S, NEW v \in [S -> Rational], NEW d, Shares({v[s] : s \in S}, d)
    PROVE  /\ Numerators(v, S, d) \in [S -> Int]
           /\ \A s \in S : v[s] = Frac(Numerators(v, S, d)[s], d)
<1>1. ASSUME NEW s \in S
      PROVE  Numerator(v[s], d) \in Int /\ v[s] = Frac(Numerator(v[s], d), d)
  <2>1. \E x \in Int : v[s] = Frac(x, d)
    BY DEF Shares
  <2> QED
    BY <2>1 DEF Numerator
<1> QED
  BY <1>1 DEF Numerators

\* The recursion Total(v) solves, over the subsets of the domain.
TotalStep(v, g, s) == IF s = {} THEN Whole(0) ELSE Plus(v[Pick(s)], g[s \ {Pick(s)}])
PartialTotals(v, S) == CHOOSE g : g = [s \in SUBSET S |-> TotalStep(v, g, s)]

LEMMA TotalIsPartial ==
    ASSUME NEW S, NEW v, DOMAIN v = S
    PROVE  Total(v) = PartialTotals(v, S)[S]
BY Zenon DEF Total, FoldFunction, FoldFunctionOnSet, MapThenFoldSet, PartialTotals, TotalStep, Pick

\* A total is the sum of the numerators over a common denominator.
LEMMA TotalOverOne ==
    ASSUME NEW S, IsFiniteSet(S), NEW d \in Nat \ {0}, NEW x \in [S -> Int],
           NEW v \in [S -> Rational], \A s \in S : v[s] = Frac(x[s], d)
    PROVE  SumFunction(x) \in Int /\ Total(v) = Frac(SumFunction(x), d)
<1> DEFINE Sum == PartialSums(x, S)
           g == [s \in SUBSET S |-> Frac(Sum[s], d)]
<1>1. \A s \in SUBSET S : Sum[s] = SumStep(x, Sum, s) /\ Sum[s] \in Int
  BY PartialSumsUnfold, PartialSumsInt, Zenon
<1> HIDE DEF Sum
<1>2. ASSUME NEW s \in SUBSET S
      PROVE  g[s] = TotalStep(v, g, s)
  <2>1. CASE s = {}
    <3>1. Sum[s] = 0
      BY <1>1, <2>1 DEF SumStep
    <3>2. Whole(0) = Frac(0 * d, d) /\ 0 * d = 0
      BY WholeIs
    <3> QED
      BY <2>1, <3>1, <3>2 DEF TotalStep
  <2>2. CASE s # {}
    <3> DEFINE p == Pick(s)
               t == s \ {p}
    <3>1. p \in S /\ t \in SUBSET S
      BY <2>2, PickShrinks
    <3>2. Sum[s] = x[p] + Sum[t]
      BY <1>1, <2>2 DEF SumStep
    <3>3. x[p] \in Int /\ Sum[t] \in Int /\ v[p] = Frac(x[p], d)
      BY <1>1, <3>1
    <3>4. Plus(Frac(x[p], d), Frac(Sum[t], d)) = Frac(x[p] + Sum[t], d)
      BY <3>3, SumOverOne
    <3>5. g[t] = Frac(Sum[t], d) /\ g[s] = Frac(Sum[s], d)
      BY <3>1
    <3>6. TotalStep(v, g, s) = Plus(v[p], g[t])
      BY <2>2 DEF TotalStep
    <3> QED
      BY <3>2, <3>3, <3>4, <3>5, <3>6
  <2> QED
    BY <2>1, <2>2
<1>3. g = [s \in SUBSET S |-> TotalStep(v, g, s)]
  BY <1>2
<1> DEFINE h == PartialTotals(v, S)
<1>4. h = [s \in SUBSET S |-> TotalStep(v, h, s)]
  <2> HIDE DEF g
  <2> QED
    BY <1>3 DEF PartialTotals
<1> DEFINE Bad == {s \in SUBSET S : h[s] # g[s]}
<1>5. ASSUME Bad # {}
      PROVE  FALSE
  <2>1. PICK s \in Bad : \A t \in SUBSET s : t # s => t \notin Bad
    <3>1. Bad \in SUBSET SUBSET S
      OBVIOUS
    <3> HIDE DEF Bad
    <3> QED
      BY <1>5, <3>1, MinimalSubset, Zenon
  <2> HIDE DEF g, h
  <2>2. s \in SUBSET S /\ h[s] = TotalStep(v, h, s) /\ g[s] = TotalStep(v, g, s)
    BY <1>2, <1>4
  <2>3. s # {}
    BY <2>1, <2>2 DEF TotalStep
  <2>4. h[s \ {Pick(s)}] = g[s \ {Pick(s)}]
    BY <2>1, <2>2, <2>3, PickShrinks
  <2> QED
    BY <2>1, <2>2, <2>4 DEF TotalStep
<1>6. h[S] = Frac(Sum[S], d)
  BY <1>5
<1>7. Total(v) = h[S]
  <2>1. DOMAIN v = S
    OBVIOUS
  <2> QED
    BY <2>1, TotalIsPartial
<1>8. SumFunction(x) = Sum[S]
  BY SumIsPartialSum DEF SumFunction, Sum
<1> QED
  BY <1>1, <1>6, <1>7, <1>8

\* A shared denominator of a function's values and of another fraction.
TotalOver(v, S, q, d) == Shares({v[s] : s \in S}, d) /\ \E k \in Int : q = Frac(k, d)

LEMMA TotalDenominator ==
    ASSUME NEW S, IsFiniteSet(S), NEW v \in [S -> Rational], NEW q \in Rational
    PROVE  \E d \in Nat \ {0} : TotalOver(v, S, q, d)
<1> DEFINE R == {v[s] : s \in S}
<1>1. IsFiniteSet(R)
  <2>1. v \in Surjection(S, R)
    BY DEF Surjection
  <2> HIDE DEF R
  <2> QED
    BY <2>1, FS_Surjection
<1>2. IsFiniteSet(R \cup {q}) /\ R \cup {q} \in SUBSET Rational
  BY <1>1, FS_AddElement
<1> HIDE DEF R
<1>3. PICK d \in Nat \ {0} : Shares(R \cup {q}, d)
  BY <1>2, SharedDenominator
<1>4. Shares(R, d) /\ \E k \in Int : q = Frac(k, d)
  BY <1>3 DEF Shares
<1> QED
  BY <1>4 DEF R, TotalOver

\* A total of fractions is a fraction.
LEMMA TotalType ==
    ASSUME NEW S, IsFiniteSet(S), NEW v \in [S -> Rational]
    PROVE  Total(v) \in Rational
<1>1. Whole(0) \in Rational
  BY WholeIs
<1>0. PICK d \in Nat \ {0} : TotalOver(v, S, Whole(0), d)
  BY <1>1, TotalDenominator
<1>2. Shares({v[s] : s \in S}, d)
  BY <1>0 DEF TotalOver
<1> DEFINE x == Numerators(v, S, d)
<1>3. x \in [S -> Int] /\ \A s \in S : v[s] = Frac(x[s], d)
  BY <1>2, NumeratorsAre
<1> HIDE DEF x
<1>4. SumFunction(x) \in Int /\ Total(v) = Frac(SumFunction(x), d)
  BY <1>3, TotalOverOne
<1> QED
  BY <1>4, FracIs

\* Changing one entry moves the total by that entry's change.
LEMMA TotalUpdate ==
    ASSUME NEW S, IsFiniteSet(S), NEW v \in [S -> Rational], NEW w \in [S -> Rational],
           NEW a \in S, NEW q \in Rational,
           w[a] = Plus(v[a], q), \A s \in S \ {a} : w[s] = v[s]
    PROVE  Total(w) = Plus(Total(v), q)
<1>0. PICK d \in Nat \ {0} : TotalOver(v, S, q, d)
  BY TotalDenominator
<1>1. Shares({v[s] : s \in S}, d)
  BY <1>0 DEF TotalOver
<1>2. PICK k \in Int : q = Frac(k, d)
  BY <1>0 DEF TotalOver
<1> DEFINE x == Numerators(v, S, d)
<1>3. x \in [S -> Int] /\ \A s \in S : v[s] = Frac(x[s], d)
  BY <1>1, NumeratorsAre
<1> HIDE DEF x
<1> DEFINE y == [s \in S |-> IF s = a THEN x[a] + k ELSE x[s]]
<1>4. /\ y \in [S -> Int] /\ y[a] = x[a] + k /\ x[a] \in Int
      /\ \A s \in S \ {a} : y[s] = x[s]
  BY <1>3
<1> HIDE DEF y
<1>5. w[a] = Frac(y[a], d)
  BY <1>2, <1>3, <1>4, SumOverOne
<1>6. \A s \in S : w[s] = Frac(y[s], d)
  BY <1>3, <1>4, <1>5
<1>7. SumFunction(x) \in Int /\ Total(v) = Frac(SumFunction(x), d)
  BY <1>3, TotalOverOne
<1>8. SumFunction(y) \in Int /\ Total(w) = Frac(SumFunction(y), d)
  BY <1>4, <1>6, TotalOverOne
<1>9. SumFunction(y) = SumFunction(x) + (y[a] - x[a])
  BY <1>3, <1>4, SumUpdate
<1>10. SumFunction(y) = SumFunction(x) + k
  BY <1>4, <1>7, <1>9
<1> QED
  BY <1>2, <1>7, <1>8, <1>10, SumOverOne

\* Entries that are zero may be left out of a total.
LEMMA TotalWithoutZeros ==
    ASSUME NEW S, IsFiniteSet(S), NEW v \in [S -> Rational], NEW R \in SUBSET S,
           NEW w \in [R -> Rational],
           \A s \in R : w[s] = v[s], \A s \in S \ R : v[s] = Whole(0)
    PROVE  Total(w) = Total(v)
<1>1. Whole(0) \in Rational
  BY WholeIs
<1>0. PICK d \in Nat \ {0} : TotalOver(v, S, Whole(0), d)
  BY <1>1, TotalDenominator
<1>2. Shares({v[s] : s \in S}, d)
  BY <1>0 DEF TotalOver
<1> DEFINE x == Numerators(v, S, d)
<1>3. x \in [S -> Int] /\ \A s \in S : v[s] = Frac(x[s], d)
  BY <1>2, NumeratorsAre
<1> HIDE DEF x
<1> DEFINE y == [s \in R |-> x[s]]
<1>4. y \in [R -> Int] /\ \A s \in R : y[s] = x[s]
  BY <1>3
<1> HIDE DEF y
<1>5. ASSUME NEW s \in S \ R
      PROVE  x[s] = 0
  <2> DEFINE k == x[s]
  <2>1. Frac(k, d) = Frac(0 * d, d) /\ 0 * d = 0 /\ k \in Int /\ 0 \in Int
    BY <1>3, WholeIs
  <2> HIDE DEF k
  <2>2. Frac(k, d) = Frac(0, d) <=> k = 0
    BY <2>1, OrderOverOne
  <2> QED
    BY <2>1, <2>2 DEF k
<1>6. Total(v) = Frac(SumFunction(x), d)
  BY <1>3, TotalOverOne
<1>7. Total(w) = Frac(SumFunction(y), d)
  <2>1. IsFiniteSet(R)
    BY FS_Subset
  <2>2. \A s \in R : w[s] = Frac(y[s], d)
    BY <1>3, <1>4
  <2> QED
    BY <1>4, <2>1, <2>2, TotalOverOne
<1>8. SumFunction(y) = SumFunction(x)
  BY <1>3, <1>4, <1>5, SumWithoutZeros
<1> QED
  BY <1>6, <1>7, <1>8

\* A function that is zero everywhere has the total zero.
LEMMA TotalZero ==
    ASSUME NEW S, IsFiniteSet(S), NEW v \in [S -> Rational], \A s \in S : v[s] = Whole(0)
    PROVE  Total(v) = Whole(0)
<1> DEFINE x == [s \in S |-> 0]
<1>1. x \in [S -> Int] /\ \A s \in S : x[s] = 0
  OBVIOUS
<1>2. Whole(0) = Frac(0 * 1, 1) /\ 0 * 1 = 0
  BY WholeIs
<1> HIDE DEF x
<1>3. \A s \in S : v[s] = Frac(x[s], 1)
  BY <1>1, <1>2
<1>4. Total(v) = Frac(SumFunction(x), 1)
  BY <1>1, <1>3, TotalOverOne
<1> QED
  BY <1>1, <1>2, <1>4, SumZero

\* The order of fractions is transitive.
LEMMA AtMostTransitive ==
    ASSUME NEW a \in Rational, NEW b \in Rational, NEW c \in Rational, AtMost(a, b), AtMost(b, c)
    PROVE  AtMost(a, c)
<1>0. Whole(0) \in Rational
  BY WholeIs
<1>1. PICK d \in Nat \ {0} : AllOver(a, b, c, Whole(0), d)
  BY <1>0, CommonDenominator
<1>2. PICK x, y, z \in Int : a = Frac(x, d) /\ b = Frac(y, d) /\ c = Frac(z, d)
  BY <1>1 DEF AllOver
<1>3. (AtMost(a, b) <=> x <= y) /\ (AtMost(b, c) <=> y <= z) /\ (AtMost(a, c) <=> x <= z)
  BY <1>2, OrderOverOne
<1> QED
  BY <1>3

\* A common factor cancels.
LEMMA FracScale ==
    ASSUME NEW d \in Nat \ {0}, NEW x \in Int, NEW k \in Nat \ {0}
    PROVE  d * k \in Nat \ {0} /\ x * k \in Int /\ Frac(x * k, d * k) = Frac(x, d)
<1>1. d * k \in Nat \ {0} /\ x * k \in Int
  OBVIOUS
<1>2. (x * k) * d = x * (d * k)
  OBVIOUS
<1> QED
  BY <1>1, <1>2, FracEqual

-----------------------------------------------------------------------------
(* Kinds of fractions                                                      *)

\* The order of two fractions, whatever their denominators.
LEMMA FracOrder ==
    ASSUME NEW n \in Int, NEW d \in Nat \ {0}, NEW m \in Int, NEW e \in Nat \ {0}
    PROVE  /\ Below(Frac(n, d), Frac(m, e)) <=> n * e < m * d
           /\ AtMost(Frac(n, d), Frac(m, e)) <=> n * e <= m * d
<1>1. Frac(n * e, d * e) = Frac(n, d) /\ d * e \in Nat \ {0} /\ n * e \in Int
  BY FracScale
<1>2. Frac(m * d, e * d) = Frac(m, e) /\ m * d \in Int
  BY FracScale
<1>3. e * d = d * e
  OBVIOUS
<1>4. /\ Below(Frac(n * e, d * e), Frac(m * d, d * e)) <=> n * e < m * d
      /\ AtMost(Frac(n * e, d * e), Frac(m * d, d * e)) <=> n * e <= m * d
  BY <1>1, <1>2, OrderOverOne
<1> QED
  BY <1>1, <1>2, <1>3, <1>4

Ratios == {a \in Rational : a.n >= 0}
Positives == {a \in Rational : a.n > 0}

\* The sign of a fraction, by its parts and over a common denominator.
LEMMA RatioIs ==
    ASSUME NEW a \in Rational
    PROVE  /\ Below(Whole(0), a) <=> a \in Positives
           /\ ~Below(a, Whole(0)) <=> a \in Ratios
           /\ AtMost(Whole(0), a) <=> a \in Ratios
<1>1. a.n \in Int /\ a.d \in Nat \ {0}
  BY RationalIsFrac
<1>2. 0 * a.d = 0 /\ a.n * 1 = a.n
  BY <1>1
<1> QED
  BY <1>1, <1>2 DEF Whole, Below, AtMost, Positives, Ratios

\* The same of a quotient, by its numerator.
LEMMA RatioFrac ==
    ASSUME NEW n \in Int, NEW d \in Nat \ {0}
    PROVE  /\ Frac(n, d) \in Ratios <=> n >= 0
           /\ Frac(n, d) \in Positives <=> n > 0
<1>1. Frac(n, d) \in Rational /\ Frac(n, d).n \in Int
  BY FracIs
<1>2. (Frac(n, d).n > 0 <=> n > 0) /\ (Frac(n, d).n < 0 <=> n < 0)
  BY OrderOverOne
<1> QED
  BY <1>1, <1>2 DEF Ratios, Positives

\* Two fractions over one denominator.
LEMMA PairOverOne ==
    ASSUME NEW a \in Rational, NEW b \in Rational
    PROVE  \E d \in Nat \ {0}, x \in Int, y \in Int : a = Frac(x, d) /\ b = Frac(y, d)
<1>1. PICK d \in Nat \ {0} : AllOver(a, b, a, b, d)
  BY CommonDenominator
<1> QED
  BY <1>1 DEF AllOver

\* Quotients, products and differences keep what their arguments have.
LEMMA OverTypes ==
    ASSUME NEW a \in Rational, NEW b \in Positives
    PROVE  /\ Over(a, b) \in Rational
           /\ a \in Ratios => Over(a, b) \in Ratios
           /\ a \in Positives => Over(a, b) \in Positives
<1>1. b \in Rational
  BY DEF Positives
<1>2. PICK d \in Nat \ {0}, x \in Int, y \in Int : a = Frac(x, d) /\ b = Frac(y, d)
  BY <1>1, PairOverOne
<1>3. y > 0
  BY <1>2, RatioFrac
<1>4. Over(a, b) \in Rational /\ Over(a, b) = Frac(x, y)
  BY <1>2, <1>3, OverOne
<1> QED
  BY <1>2, <1>3, <1>4, RatioFrac

\* A magnitude is not negative.
LEMMA AbsTypes ==
    ASSUME NEW a \in Rational
    PROVE  Absolute(a) \in Ratios
<1>1. PICK d \in Nat \ {0}, x \in Int, y \in Int : a = Frac(x, d) /\ a = Frac(y, d)
  BY PairOverOne
<1> QED
  BY <1>1, AbsOverOne, RatioFrac

LEMMA PlusTypes ==
    ASSUME NEW a \in Rational, NEW b \in Rational
    PROVE  /\ Plus(a, b) \in Rational /\ Minus(a, b) \in Rational
           /\ a \in Ratios /\ b \in Ratios => Plus(a, b) \in Ratios
<1>1. PICK d \in Nat \ {0}, x \in Int, y \in Int : a = Frac(x, d) /\ b = Frac(y, d)
  BY PairOverOne
<1>2. Plus(a, b) = Frac(x + y, d) /\ Minus(a, b) = Frac(x - y, d)
  BY <1>1, SumOverOne, DifferenceOverOne
<1> QED
  BY <1>1, <1>2, FracIs, RatioFrac

LEMMA TimesTypes ==
    ASSUME NEW k \in Int, NEW a \in Rational
    PROVE  /\ Times(k, a) \in Rational
           /\ k > 0 /\ a \in Positives => Times(k, a) \in Positives
           /\ k >= 0 /\ a \in Ratios => Times(k, a) \in Ratios
<1>1. a.n \in Int /\ a.d \in Nat \ {0} /\ a = Frac(a.n, a.d)
  BY RationalIsFrac
<1> DEFINE x == a.n
<1>2. Times(k, a) = Frac(k * x, a.d)
  BY DEF Times
<1>3. k * x \in Int
  BY <1>1
<1>4. (a \in Ratios <=> x >= 0) /\ (a \in Positives <=> x > 0)
  BY DEF Ratios, Positives
<1>5. (k > 0 /\ x > 0 => k * x > 0) /\ (k >= 0 /\ x >= 0 => k * x >= 0)
  BY <1>1
<1> HIDE DEF x
<1> QED
  BY <1>1, <1>2, <1>3, <1>4, <1>5, FracIs, RatioFrac

LEMMA ShareTypes ==
    ASSUME NEW a \in Rational, NEW k \in Nat \ {0}
    PROVE  /\ Share(a, k) \in Rational
           /\ a \in Ratios => Share(a, k) \in Ratios
           /\ a \in Positives => Share(a, k) \in Positives
<1>1. a.n \in Int /\ a.d \in Nat \ {0}
  BY RationalIsFrac
<1>2. a.d * k \in Nat \ {0}
  BY <1>1
<1>3. (a \in Ratios <=> a.n >= 0) /\ (a \in Positives <=> a.n > 0)
  BY DEF Ratios, Positives
<1> QED
  BY <1>1, <1>2, <1>3, FracIs, RatioFrac DEF Share

LEMMA ProductTypes ==
    ASSUME NEW a \in Rational, NEW b \in Rational
    PROVE  /\ Product(a, b) \in Rational
           /\ a \in Ratios /\ b \in Ratios => Product(a, b) \in Ratios
           /\ Product(a, a) \in Ratios
<1>1. a.n \in Int /\ a.d \in Nat \ {0} /\ b.n \in Int /\ b.d \in Nat \ {0}
  BY RationalIsFrac
<1>2. /\ Product(a, b) \in Rational /\ Product(a, b) = Frac(a.n * b.n, a.d * b.d)
      /\ Product(a, a) = Frac(a.n * a.n, a.d * a.d)
  BY ProductIs
<1>3. /\ a.d * b.d \in Nat \ {0} /\ a.d * a.d \in Nat \ {0}
      /\ a.n * b.n \in Int /\ a.n * a.n \in Int
  BY <1>1
<1>4. (a.n >= 0 /\ b.n >= 0 => a.n * b.n >= 0) /\ a.n * a.n >= 0
  BY <1>1
<1>5. (a \in Ratios <=> a.n >= 0) /\ (b \in Ratios <=> b.n >= 0)
  BY DEF Ratios
<1> QED
  BY <1>2, <1>3, <1>4, <1>5, RatioFrac

\* A sum of naturals is positive when one of them is.
LEMMA SumPositive ==
    ASSUME NEW S, IsFiniteSet(S), NEW f \in [S -> Nat], NEW a \in S, f[a] > 0
    PROVE  SumFunction(f) > 0
<1> DEFINE g == [f EXCEPT ![a] = 0]
<1>1. g \in [S -> Nat] /\ g[a] = 0 /\ \A x \in S \ {a} : g[x] = f[x]
  OBVIOUS
<1>2. f \in [S -> Int] /\ g \in [S -> Int] /\ f[a] \in Nat
  BY <1>1
<1> HIDE DEF g
<1>3. SumFunction(g) = SumFunction(f) + (g[a] - f[a])
  BY <1>1, <1>2, SumUpdate
<1>4. SumFunction(g) \in Nat /\ SumFunction(f) \in Nat
  BY <1>1, SumNat
<1> QED
  BY <1>1, <1>2, <1>3, <1>4

\* Sums of fractions keep their sign.
LEMMA TotalSign ==
    ASSUME NEW S, IsFiniteSet(S), NEW v \in [S -> Ratios]
    PROVE  /\ Total(v) \in Ratios
           /\ \A a \in S : v[a] \in Positives => Total(v) \in Positives
<1>1. Whole(0) \in Rational
  BY WholeIs
<1>2. v \in [S -> Rational]
  BY DEF Ratios
<1>0. PICK d \in Nat \ {0} : TotalOver(v, S, Whole(0), d)
  BY <1>1, <1>2, TotalDenominator
<1>3. Shares({v[s] : s \in S}, d)
  BY <1>0 DEF TotalOver
<1> DEFINE x == Numerators(v, S, d)
<1>4. x \in [S -> Int] /\ \A s \in S : v[s] = Frac(x[s], d)
  BY <1>2, <1>3, NumeratorsAre
<1> HIDE DEF x
<1>5. SumFunction(x) \in Int /\ Total(v) = Frac(SumFunction(x), d)
  BY <1>2, <1>4, TotalOverOne
<1>6. x \in [S -> Nat]
  <2>1. ASSUME NEW s \in S
        PROVE  x[s] \in Nat
    <3>1. v[s] \in Ratios /\ x[s] \in Int /\ v[s] = Frac(x[s], d)
      BY <1>4
    <3>2. x[s] >= 0
      BY <3>1, RatioFrac
    <3> QED
      BY <3>1, <3>2
  <2> QED
    BY <1>4, <2>1
<1>7. SumFunction(x) \in Nat
  BY <1>6, SumNat
<1>8. ASSUME NEW a \in S, v[a] \in Positives
      PROVE  SumFunction(x) > 0
  <2>1. x[a] > 0
    <3>1. x[a] \in Int /\ v[a] = Frac(x[a], d)
      BY <1>4
    <3> QED
      BY <1>8, <3>1, RatioFrac
  <2> QED
    BY <1>6, <2>1, SumPositive
<1> QED
  BY <1>5, <1>7, <1>8, RatioFrac

\* The integer square root is a natural number, found by its recursion.
LEMMA SquareRootType ==
    /\ isqrt \in [Nat -> Nat]
    /\ \A m \in Nat \ {0} :
          LET half == 2 * isqrt[m \div 4]
          IN  isqrt[m] = IF (half + 1) * (half + 1) <= m THEN half + 1 ELSE half
<1> DEFINE D == Nat
           measure == [m \in Nat |-> m]
           next == [m \in Nat |-> m \div 4]
           base == [m \in Nat |-> 0]
           Digit(m, r) == IF (2 * r + 1) * (2 * r + 1) <= m THEN 2 * r + 1 ELSE 2 * r
           combine == [m \in Nat |-> [r \in Nat |-> Digit(m, r)]]
           Step(f, m) == IF m = 0 THEN 0 ELSE Digit(m, f[m \div 4])
<1>1. \A m \in Nat : m \div 4 \in Nat /\ (m # 0 => m \div 4 < m)
  OBVIOUS
<1>2. measure \in [D -> Nat] /\ next \in [D -> D] /\ base \in [D -> Nat]
  BY <1>1
<1>3. \A m \in Nat, r \in Nat : Digit(m, r) \in Nat
  OBVIOUS
<1> HIDE DEF Digit
<1>4. combine \in [D -> [Nat -> Nat]]
  BY <1>3
<1>5. Decreases(D, measure, next)
  BY <1>1 DEF Decreases
<1>6. \A m \in D : measure[m] = m /\ next[m] = m \div 4 /\ base[m] = 0
  OBVIOUS
<1>7. \A m \in D, r \in Nat : combine[m][r] = Digit(m, r)
  OBVIOUS
<1> HIDE DEF measure, next, base, combine
<1>8. PICK f \in [D -> Nat] : Recurses(f, D, measure, next, base, combine)
  BY <1>2, <1>4, <1>5, RecursionExists
<1>9. ASSUME NEW m \in Nat
      PROVE  f[m] = Step(f, m)
  <2>1. f[m] = IF measure[m] = 0 THEN base[m] ELSE combine[m][f[next[m]]]
    BY <1>8 DEF Recurses
  <2>2. f[m \div 4] \in Nat
    BY <1>1, <1>8
  <2> QED
    BY <1>6, <1>7, <2>1, <2>2
<1>10. f = [m \in Nat |-> Step(f, m)]
  BY <1>8, <1>9
<1> DEFINE Solution(g) == g = [m \in Nat |-> Step(g, m)]
<1>11. isqrt = CHOOSE g : Solution(g)
  BY Zenon DEF isqrt, Solution, Step, Digit
<1>12. Solution(isqrt)
  <2>1. Solution(f)
    BY <1>10 DEF Solution
  <2> HIDE DEF Solution
  <2> QED
    BY <1>11, <2>1, Zenon
<1> DEFINE Bad == {m \in Nat : isqrt[m] \notin Nat}
<1>13. Bad = {}
  <2> SUFFICES ASSUME Bad # {} PROVE FALSE
    OBVIOUS
  <2>1. PICK m \in Bad : \A k \in Bad : m <= k
    BY LeastNatural
  <2>2. m \in Nat /\ isqrt[m] \notin Nat
    BY <2>1
  <2>3. isqrt[m] = Step(isqrt, m)
    BY <1>12, <2>2 DEF Solution
  <2>4. CASE m = 0
    BY <2>2, <2>3, <2>4
  <2>5. CASE m # 0
    <3>1. m \div 4 \in Nat /\ m \div 4 < m
      BY <1>1, <2>2, <2>5
    <3>2. isqrt[m \div 4] \in Nat
      BY <2>1, <2>2, <3>1
    <3> QED
      BY <1>3, <2>2, <2>3, <2>5, <3>2
  <2> QED
    BY <2>4, <2>5
<1>14. isqrt = [m \in Nat |-> isqrt[m]]
  BY <1>12 DEF Solution
<1>15. \A m \in Nat : isqrt[m] = Step(isqrt, m)
  BY <1>12 DEF Solution
<1> QED
  BY <1>13, <1>14, <1>15 DEF Step, Digit

\* It is positive when its argument is.
LEMMA SquareRootPositive ==
    ASSUME NEW m \in Nat \ {0}
    PROVE  isqrt[m] \in Nat \ {0}
<1> DEFINE half == 2 * isqrt[m \div 4]
<1>1. m \div 4 \in Nat
  OBVIOUS
<1>2. isqrt[m \div 4] \in Nat
  BY <1>1, SquareRootType
<1>3. half \in Nat
  BY <1>2
<1>4. isqrt[m] = IF (half + 1) * (half + 1) <= m THEN half + 1 ELSE half
  BY SquareRootType
<1> HIDE DEF half
<1>5. half = 0 => (half + 1) * (half + 1) <= m
  BY <1>3
<1> QED
  BY <1>3, <1>4, <1>5

\* A rounded root is not negative, and positive when half a step squared is
\* reached.
LEMMA RootTypes ==
    ASSUME NEW a \in Ratios, NEW steps \in Nat \ {0}
    PROVE  /\ Root(a, steps) \in Ratios
           /\ a.d <= 4 * a.n * steps * steps => Root(a, steps) \in Positives
<1>1. a.n \in Nat /\ a.d \in Nat \ {0}
  BY RationalIsFrac DEF Ratios
<1> DEFINE x == 4 * a.n * steps * steps
           m == x \div a.d
           r == isqrt[m]
           h == (r + 1) \div 2
<1>2. x \in Nat /\ x = 4 * a.n * steps * steps
  BY <1>1
<1> HIDE DEF x
<1>3. m \in Nat /\ (a.d <= x => m # 0)
  <2> DEFINE rest == x % a.d
  <2>1. m \in Nat /\ rest < a.d /\ rest \in Nat /\ x = a.d * m + rest
    BY <1>1, <1>2, Remainder
  <2> HIDE DEF m, rest
  <2> QED
    BY <1>1, <1>2, <2>1
<1> HIDE DEF m
<1>4. r \in Nat /\ (a.d <= x => r # 0)
  BY <1>3, SquareRootType, SquareRootPositive
<1> HIDE DEF r
<1>5. h \in Nat /\ (a.d <= x => h > 0)
  BY <1>4
<1>6. Root(a, steps) = Frac(h, steps)
  BY Zenon DEF Root, h, r, m, x
<1> HIDE DEF h
<1> QED
  BY <1>2, <1>5, <1>6, RatioFrac

\* The sum of a constant.
LEMMA SumConstant ==
    ASSUME NEW S, IsFiniteSet(S), NEW c \in Int, NEW f \in [S -> Int], \A x \in S : f[x] = c
    PROVE  SumFunction(f) = Cardinality(S) * c /\ Cardinality(S) \in Nat
<1> DEFINE F == PartialSums(f, S)
           Bad == {s \in SUBSET S : F[s] # Cardinality(s) * c}
<1>0. \A s \in SUBSET S : IsFiniteSet(s) /\ Cardinality(s) \in Nat
  BY FS_Subset, FS_CardinalityType
<1>1. \A s \in SUBSET S : F[s] = SumStep(f, F, s) /\ F[s] \in Int
  BY PartialSumsUnfold, PartialSumsInt, Zenon
<1>2. ASSUME Bad # {} PROVE FALSE
  <2>1. PICK s \in Bad : \A t \in SUBSET s : t # s => t \notin Bad
    <3>1. Bad \in SUBSET SUBSET S
      OBVIOUS
    <3> HIDE DEF Bad
    <3> QED
      BY <1>2, <3>1, MinimalSubset, Zenon
  <2> HIDE DEF F
  <2>2. s \in SUBSET S /\ F[s] # Cardinality(s) * c
    BY <2>1
  <2>3. CASE s = {}
    <3>1. Cardinality(s) = 0
      BY <2>3, FS_EmptySet
    <3>2. F[s] = 0
      BY <1>1, <2>2, <2>3 DEF SumStep
    <3> QED
      BY <2>2, <3>1, <3>2
  <2>4. CASE s # {}
    <3> DEFINE p == Pick(s)
               t == s \ {p}
    <3>1. p \in s /\ t \in SUBSET s /\ t # s
      BY <2>4, PickShrinks
    <3>2. F[s] = f[p] + F[t] /\ f[p] = c
      BY <1>1, <2>2, <2>4, <3>1 DEF SumStep
    <3>3. Cardinality(s) = Cardinality(t) + 1
      BY <1>0, <2>2, <3>1, FS_RemoveElement
    <3> HIDE DEF t, p
    <3>4. F[t] = Cardinality(t) * c /\ Cardinality(t) \in Nat
      BY <1>0, <2>1, <2>2, <3>1
    <3>5. (Cardinality(t) + 1) * c = Cardinality(t) * c + c
      BY <3>4
    <3> QED
      BY <2>2, <3>2, <3>3, <3>4, <3>5
  <2> QED
    BY <2>3, <2>4
<1>3. F[S] = Cardinality(S) * c
  BY <1>2
<1> QED
  BY <1>0, <1>3, SumIsPartialSum DEF SumFunction

\* The total of a constant.
LEMMA TotalConstant ==
    ASSUME NEW S, IsFiniteSet(S), NEW q \in Rational, NEW v \in [S -> Rational],
           \A s \in S : v[s] = q
    PROVE  Total(v) = Frac(Cardinality(S) * q.n, q.d) /\ Cardinality(S) \in Nat
<1>1. q.n \in Int /\ q.d \in Nat \ {0} /\ q = Frac(q.n, q.d)
  BY RationalIsFrac
<1> DEFINE c == q.n
           d == q.d
           x == [s \in S |-> c]
<1>2. x \in [S -> Int] /\ (\A s \in S : x[s] = c) /\ c \in Int /\ d \in Nat \ {0}
  BY <1>1
<1>3. \A s \in S : v[s] = Frac(x[s], d)
  BY <1>1
<1> HIDE DEF x, c, d
<1>4. Total(v) = Frac(SumFunction(x), d)
  BY <1>2, <1>3, TotalOverOne
<1>5. SumFunction(x) = Cardinality(S) * c /\ Cardinality(S) \in Nat
  BY <1>2, SumConstant
<1> QED
  BY <1>4, <1>5 DEF c, d

\* Sums and products of positive fractions are positive, and sums grow.
LEMMA PositiveSums ==
    ASSUME NEW a \in Rational, NEW b \in Rational
    PROVE  /\ a \in Ratios /\ b \in Positives => Plus(a, b) \in Positives
           /\ a \in Positives /\ b \in Ratios => Plus(a, b) \in Positives
           /\ a \in Positives /\ b \in Positives => Product(a, b) \in Positives
           /\ b \in Positives => Below(a, Plus(a, b)) /\ Below(Minus(a, b), a)
           /\ a \in Ratios => AtMost(b, Plus(a, b))
<1>1. PICK d \in Nat \ {0}, x \in Int, y \in Int : a = Frac(x, d) /\ b = Frac(y, d)
  BY PairOverOne
<1>2. Plus(a, b) = Frac(x + y, d) /\ Minus(a, b) = Frac(x - y, d)
  BY <1>1, SumOverOne, DifferenceOverOne
<1>3. Product(a, b) = Frac(x * y, d * d)
  BY <1>1, ProductOverOne
<1>4. /\ a \in Ratios <=> x >= 0
      /\ a \in Positives <=> x > 0
      /\ b \in Ratios <=> y >= 0
      /\ b \in Positives <=> y > 0
  BY <1>1, RatioFrac
<1>5. Frac(x + y, d) \in Positives <=> x + y > 0
  BY RatioFrac
<1>6. x > 0 /\ y > 0 => Frac(x * y, d * d) \in Positives
  <2>1. x * y \in Int /\ d * d \in Nat \ {0} /\ (x > 0 /\ y > 0 => x * y > 0)
    OBVIOUS
  <2> QED
    BY <2>1, RatioFrac
<1>7. /\ Below(Frac(x, d), Frac(x + y, d)) <=> x < x + y
      /\ Below(Frac(x - y, d), Frac(x, d)) <=> x - y < x
      /\ AtMost(Frac(y, d), Frac(x + y, d)) <=> y <= x + y
  <2> DEFINE s == x + y
             t == x - y
  <2>1. s \in Int /\ t \in Int
    OBVIOUS
  <2> HIDE DEF s, t
  <2>2. /\ Below(Frac(x, d), Frac(s, d)) <=> x < s
        /\ Below(Frac(t, d), Frac(x, d)) <=> t < x
        /\ AtMost(Frac(y, d), Frac(s, d)) <=> y <= s
    BY <2>1, OrderOverOne
  <2> QED
    BY <2>2 DEF s, t
<1> QED
  BY <1>1, <1>2, <1>3, <1>4, <1>5, <1>6, <1>7

\* A total is no less than any of its parts, when none is negative.
LEMMA TotalAtLeast ==
    ASSUME NEW S, IsFiniteSet(S), NEW v \in [S -> Ratios], NEW a \in S
    PROVE  AtMost(v[a], Total(v)) /\ Total(v) \in Ratios
<1> DEFINE w == [v EXCEPT ![a] = Whole(0)]
<1>1. Whole(0) \in Ratios
  <2>1. Whole(0) = Frac(0 * 1, 1)
    BY WholeIs
  <2> QED
    BY <2>1, RatioFrac
<1>2. /\ w \in [S -> Ratios] /\ v \in [S -> Rational] /\ w \in [S -> Rational]
      /\ w[a] = Whole(0) /\ \A s \in S \ {a} : v[s] = w[s]
  BY <1>1 DEF Ratios
<1>3. v[a] = Plus(w[a], v[a])
  <2>1. v[a].n \in Int /\ v[a].d \in Nat \ {0} /\ v[a] = Frac(v[a].n, v[a].d) /\ v[a] \in Rational
    BY <1>2, RationalIsFrac
  <2> DEFINE zero == 0
             x == v[a].n
             d == v[a].d
  <2>2. zero * d = zero /\ zero \in Int /\ x \in Int /\ d \in Nat \ {0} /\ zero + x = x
    BY <2>1
  <2> HIDE DEF zero
  <2>3. Whole(zero) = Frac(zero * d, d)
    BY <2>2, WholeIs
  <2> HIDE DEF x, d
  <2>4. Plus(Frac(zero, d), Frac(x, d)) = Frac(zero + x, d)
    BY <2>2, SumOverOne
  <2>5. Plus(Whole(zero), Frac(x, d)) = Frac(x, d)
    BY <2>2, <2>3, <2>4
  <2> QED
    BY <1>2, <2>1, <2>5 DEF zero, x, d
<1> HIDE DEF w
<1>4. Total(v) = Plus(Total(w), v[a])
  <2>1. v[a] \in Rational
    BY <1>2
  <2> QED
    BY <1>2, <1>3, <2>1, TotalUpdate
<1>5. Total(w) \in Ratios /\ Total(v) \in Ratios
  BY <1>2, TotalSign
<1> QED
  BY <1>2, <1>4, <1>5, PositiveSums DEF Ratios

-----------------------------------------------------------------------------
(* The algebra of products and quotients                                   *)

\* Whichever factor comes first.
LEMMA ProductCommutes ==
    ASSUME NEW a \in Rational, NEW b \in Rational
    PROVE  Product(a, b) = Product(b, a)
<1>1. a.n \in Int /\ a.d \in Nat \ {0} /\ b.n \in Int /\ b.d \in Nat \ {0}
  BY RationalIsFrac
<1>2. Product(a, b) = Frac(a.n * b.n, a.d * b.d) /\ Product(b, a) = Frac(b.n * a.n, b.d * a.d)
  BY ProductIs
<1>3. a.n * b.n = b.n * a.n /\ a.d * b.d = b.d * a.d
  BY <1>1
<1> QED
  BY <1>2, <1>3

\* However three factors are grouped.
LEMMA ProductAssociates ==
    ASSUME NEW a \in Rational, NEW b \in Rational, NEW c \in Rational
    PROVE  Product(a, Product(b, c)) = Product(Product(a, b), c)
<1> DEFINE x == a.n
           y == b.n
           z == c.n
           d == a.d
           e == b.d
           f == c.d
<1>1. /\ x \in Int /\ y \in Int /\ z \in Int
      /\ d \in Nat \ {0} /\ e \in Nat \ {0} /\ f \in Nat \ {0}
      /\ a = Frac(x, d) /\ b = Frac(y, e) /\ c = Frac(z, f)
  BY RationalIsFrac
<1> HIDE DEF x, y, z, d, e, f
<1>2. x * y \in Int /\ y * z \in Int /\ d * e \in Nat \ {0} /\ e * f \in Nat \ {0}
  BY <1>1
<1>3. Product(a, b) = Frac(x * y, d * e) /\ Product(b, c) = Frac(y * z, e * f)
  BY <1>1, ProductOverOne
<1>4. Product(Frac(x, d), Frac(y * z, e * f)) = Frac(x * (y * z), d * (e * f))
  BY <1>1, <1>2, ProductOverOne
<1>5. Product(Frac(x * y, d * e), Frac(z, f)) = Frac((x * y) * z, (d * e) * f)
  BY <1>1, <1>2, ProductOverOne
<1>6. x * (y * z) = (x * y) * z /\ d * (e * f) = (d * e) * f
  BY <1>1
<1> QED
  BY <1>1, <1>3, <1>4, <1>5, <1>6

\* One is neutral.
LEMMA ProductByOne ==
    ASSUME NEW a \in Rational
    PROVE  Product(a, Whole(1)) = a /\ Product(Whole(1), a) = a
<1> DEFINE one == 1
<1>1. one = 1 /\ one \in Int /\ one \in Nat \ {0}
  OBVIOUS
<1>2. Whole(one) \in Rational /\ Whole(one) = Frac(one * one, one)
  BY <1>1, WholeIs
<1>3. one * one = one
  BY <1>1
<1> HIDE DEF one
<1>4. a.n \in Int /\ a.d \in Nat \ {0} /\ a = Frac(a.n, a.d)
  BY RationalIsFrac
<1>5. Product(Frac(a.n, a.d), Frac(one, one)) = Frac(a.n * one, a.d * one)
  BY <1>1, <1>4, ProductOverOne
<1>6. a.n * one = a.n /\ a.d * one = a.d
  BY <1>1, <1>4
<1>7. Product(a, Whole(one)) = a
  BY <1>2, <1>3, <1>4, <1>5, <1>6
<1>8. Product(Whole(one), a) = a
  BY <1>2, <1>7, ProductCommutes
<1> QED
  BY <1>1, <1>7, <1>8

\* Zero annihilates.
LEMMA ProductByZero ==
    ASSUME NEW a \in Rational
    PROVE  Product(a, Whole(0)) = Whole(0) /\ Product(Whole(0), a) = Whole(0)
<1> DEFINE zero == 0
           one == 1
<1>1. zero = 0 /\ zero \in Int /\ one = 1 /\ one \in Nat \ {0}
  OBVIOUS
<1>2. zero * one = zero
  OBVIOUS
<1> HIDE DEF zero, one
<1>3. Whole(zero) \in Rational /\ \A d \in Nat \ {0} : Whole(zero) = Frac(zero * d, d)
  BY <1>1, WholeIs
<1>4. a.n \in Int /\ a.d \in Nat \ {0} /\ a = Frac(a.n, a.d)
  BY RationalIsFrac
<1>5. a.d * one = a.d /\ a.n * zero = zero /\ zero * a.d = zero
  BY <1>1, <1>4
<1>6. Whole(zero) = Frac(zero, one) /\ Whole(zero) = Frac(zero, a.d)
  BY <1>1, <1>2, <1>3, <1>4, <1>5
<1>7. Product(Frac(a.n, a.d), Frac(zero, one)) = Frac(a.n * zero, a.d * one)
  BY <1>1, <1>4, ProductOverOne
<1>8. Product(a, Whole(zero)) = Whole(zero)
  BY <1>4, <1>5, <1>6, <1>7
<1>9. Product(Whole(zero), a) = Whole(zero)
  BY <1>3, <1>8, ProductCommutes
<1> QED
  BY <1>1, <1>8, <1>9

\* A quotient times its divisor.
LEMMA OverCancels ==
    ASSUME NEW a \in Rational, NEW b \in Rational, b # Whole(0)
    PROVE  Over(a, b) \in Rational /\ Product(Over(a, b), b) = a
<1>1. PICK d \in Nat \ {0}, x \in Int, y \in Int : a = Frac(x, d) /\ b = Frac(y, d)
  BY PairOverOne
<1>2. y # 0
  <2> DEFINE zero == 0
  <2>1. zero = 0 /\ zero \in Int /\ zero * d = zero
    OBVIOUS
  <2> HIDE DEF zero
  <2>2. Whole(zero) = Frac(zero, d)
    BY <2>1, WholeIs
  <2> QED
    BY <1>1, <2>1, <2>2
<1> DEFINE u == IF y > 0 THEN x ELSE -x
           v == IF y > 0 THEN y ELSE -y
<1>3. u \in Int /\ v \in Nat \ {0} /\ u * y = x * v
  BY <1>2
<1>4. Over(a, b) \in Rational /\ Over(a, b) = Frac(u, v)
  BY <1>1, <1>2, OverOne
<1> HIDE DEF u, v
<1>5. Product(Frac(u, v), Frac(y, d)) = Frac(u * y, v * d)
  BY <1>3, ProductOverOne
<1>6. Frac(u * y, v * d) = Frac(x, d)
  <2>1. (u * y) * d = x * (v * d)
    <3>1. (x * v) * d = x * (v * d)
      BY <1>3
    <3> QED
      BY <1>3, <3>1
  <2>2. u * y \in Int /\ v * d \in Nat \ {0}
    BY <1>3
  <2> QED
    BY <2>1, <2>2, FracEqual
<1> QED
  BY <1>1, <1>4, <1>5, <1>6

\* A factor other than zero cancels.
LEMMA FactorCancels ==
    ASSUME NEW a \in Rational, NEW b \in Rational, NEW c \in Rational, c # Whole(0),
           Product(a, c) = Product(b, c)
    PROVE  a = b
<1> DEFINE i == Over(Whole(1), c)
<1>1. Whole(1) \in Rational
  BY WholeIs
<1>2. i \in Rational /\ Product(i, c) = Whole(1)
  BY <1>1, OverCancels
<1> HIDE DEF i
<1>3. Product(c, i) = Whole(1)
  BY <1>2, ProductCommutes
<1>4. Product(a, Product(c, i)) = Product(Product(a, c), i)
  BY <1>2, ProductAssociates
<1>5. Product(b, Product(c, i)) = Product(Product(b, c), i)
  BY <1>2, ProductAssociates
<1>6. Product(a, Whole(1)) = a /\ Product(b, Whole(1)) = b
  BY ProductByOne
<1> QED
  BY <1>3, <1>4, <1>5, <1>6

\* From one value to a second and on to a third.
LEMMA QuotientsChain ==
    ASSUME NEW a \in Rational, NEW b \in Rational, NEW c \in Rational,
           a # Whole(0), b # Whole(0)
    PROVE  Product(Over(c, b), Over(b, a)) = Over(c, a)
<1> DEFINE p == Over(b, a)
           q == Over(c, b)
           r == Over(c, a)
<1>1. p \in Rational /\ Product(p, a) = b
  BY OverCancels
<1>2. q \in Rational /\ Product(q, b) = c
  BY OverCancels
<1>3. r \in Rational /\ Product(r, a) = c
  BY OverCancels
<1> HIDE DEF p, q, r
<1>4. Product(q, Product(p, a)) = Product(Product(q, p), a)
  BY <1>1, <1>2, ProductAssociates
<1>5. Product(q, p) \in Rational
  BY <1>1, <1>2, ProductTypes
<1>6. Product(q, p) = r
  BY <1>1, <1>2, <1>3, <1>4, <1>5, FactorCancels
<1> QED
  BY <1>6 DEF p, q, r

\* A difference added again, and the difference of equals.
LEMMA DifferenceAdds ==
    ASSUME NEW a \in Rational, NEW b \in Rational
    PROVE  /\ Plus(b, Minus(a, b)) = a
           /\ Minus(a, b) = Whole(0) <=> a = b
<1>1. PICK d \in Nat \ {0}, x \in Int, y \in Int : a = Frac(x, d) /\ b = Frac(y, d)
  BY PairOverOne
<1> DEFINE z == x - y
           zero == 0
<1>2. z \in Int /\ y + z = x /\ zero = 0 /\ zero \in Int /\ zero * d = zero /\ (z = zero <=> x = y)
  OBVIOUS
<1>3. Minus(a, b) = Frac(z, d)
  BY <1>1, DifferenceOverOne
<1> HIDE DEF z, zero
<1>4. Plus(Frac(y, d), Frac(z, d)) = Frac(y + z, d)
  BY <1>2, SumOverOne
<1>5. Whole(zero) = Frac(zero, d)
  BY <1>2, WholeIs
<1>6. (Frac(z, d) = Frac(zero, d) <=> z = zero) /\ (Frac(x, d) = Frac(y, d) <=> x = y)
  BY <1>2, OrderOverOne
<1>7. Plus(b, Minus(a, b)) = a
  BY <1>1, <1>2, <1>3, <1>4
<1>8. Minus(a, b) = Whole(0) <=> a = b
  BY <1>1, <1>2, <1>3, <1>5, <1>6
<1> QED
  BY <1>7, <1>8

\* Zero adds nothing.
LEMMA PlusZero ==
    ASSUME NEW a \in Rational
    PROVE  Plus(a, Whole(0)) = a
<1>1. Minus(a, a) = Whole(0) /\ Plus(a, Minus(a, a)) = a
  BY DifferenceAdds
<1> QED
  BY <1>1

\* Nothing is taken away, and the same either way.
LEMMA MinusZero ==
    ASSUME NEW a \in Rational
    PROVE  Minus(a, Whole(0)) = a /\ Absolute(Minus(Whole(0), a)) = Absolute(a)
<1>1. a.n \in Int /\ a.d \in Nat \ {0} /\ a = Frac(a.n, a.d)
  BY RationalIsFrac
<1> DEFINE x == a.n
           d == a.d
           zero == 0
           y == zero - x
<1>2. /\ x \in Int /\ d \in Nat \ {0} /\ zero = 0 /\ zero \in Int /\ zero * d = zero
      /\ x - zero = x /\ y \in Int /\ y = zero - x /\ Magnitude(y) = Magnitude(x)
  BY <1>1 DEF Magnitude
<1>3. a = Frac(x, d)
  BY <1>1
<1> HIDE DEF x, d, zero, y
<1>4. Whole(zero) = Frac(zero, d)
  BY <1>2, WholeIs
<1>5. Minus(Frac(x, d), Frac(zero, d)) = Frac(x - zero, d)
  BY <1>2, DifferenceOverOne
<1>6. Minus(Frac(zero, d), Frac(x, d)) = Frac(y, d)
  BY <1>2, DifferenceOverOne
<1>7. Absolute(Frac(y, d)) = Frac(Magnitude(y), d) /\ Absolute(Frac(x, d)) = Frac(Magnitude(x), d)
  BY <1>2, AbsOverOne
<1>8. Minus(a, Whole(zero)) = a
  BY <1>2, <1>3, <1>4, <1>5
<1>9. Absolute(Minus(Whole(zero), a)) = Absolute(a)
  BY <1>2, <1>3, <1>4, <1>6, <1>7
<1> QED
  BY <1>2, <1>8, <1>9

-----------------------------------------------------------------------------
(* Products over the domain of a function                                  *)

\* The recursion ProductOf(v) solves, over the subsets of the domain.
ProductStep(v, g, s) == IF s = {} THEN Whole(1) ELSE Product(v[Pick(s)], g[s \ {Pick(s)}])
PartialProducts(v, S) == CHOOSE g : g = [s \in SUBSET S |-> ProductStep(v, g, s)]

\* ProductOf(v) is the product over the whole domain.
LEMMA ProductIsPartial ==
    ASSUME NEW S, NEW v, DOMAIN v = S
    PROVE  ProductOf(v) = PartialProducts(v, S)[S]
BY Zenon DEF ProductOf, FoldFunction, FoldFunctionOnSet, MapThenFoldSet, PartialProducts,
             ProductStep, Pick

\* The recursion has a solution, so PartialProducts is one.
LEMMA PartialProductsExist ==
    ASSUME NEW S, IsFiniteSet(S), NEW v
    PROVE  PartialProducts(v, S) = [s \in SUBSET S |-> ProductStep(v, PartialProducts(v, S), s)]
<1> DEFINE Solves(g, n) ==
             \A s \in SUBSET S : Cardinality(s) <= n => g[s] = ProductStep(v, g, s)
           Bad == {n \in Nat : ~\E g : Solves(g, n)}
<1>1. \A s \in SUBSET S : IsFiniteSet(s) /\ Cardinality(s) \in Nat
  BY FS_Subset, FS_CardinalityType
<1>2. \E g : Solves(g, 0)
  <2> DEFINE z == [s \in SUBSET S |-> Whole(1)]
  <2>1. \A s \in SUBSET S : Cardinality(s) <= 0 => s = {}
    BY <1>1, FS_EmptySet
  <2>2. Solves(z, 0)
    BY <2>1 DEF ProductStep
  <2> QED
    BY <2>2
<1>3. ASSUME NEW n \in Nat, NEW g, Solves(g, n)
      PROVE  \E h : Solves(h, n + 1)
  <2> DEFINE h == [s \in SUBSET S |-> ProductStep(v, g, s)]
  <2>1. ASSUME NEW s \in SUBSET S, Cardinality(s) <= n + 1
        PROVE  h[s] = ProductStep(v, h, s)
    <3>1. CASE s = {}
      BY <3>1 DEF ProductStep
    <3>2. CASE s # {}
      <4> DEFINE t == s \ {Pick(s)}
      <4>1. t \in SUBSET S /\ t \in SUBSET s /\ t # s
        BY <3>2, PickShrinks
      <4>2. Cardinality(t) < Cardinality(s)
        BY <1>1, <4>1, FS_Subset
      <4>3. Cardinality(t) <= n
        BY <1>1, <2>1, <4>1, <4>2
      <4>4. g[t] = h[t]
        BY <1>3, <4>1, <4>3
      <4> QED
        BY <3>2, <4>4 DEF ProductStep
    <3> QED
      BY <3>1, <3>2
  <2>2. Solves(h, n + 1)
    BY <2>1
  <2> QED
    BY <2>2
<1>4. Bad = {}
  <2> SUFFICES ASSUME Bad # {} PROVE FALSE
    OBVIOUS
  <2>1. PICK n \in Bad : \A k \in Bad : n <= k
    BY LeastNatural
  <2>2. n # 0
    BY <1>2
  <2>3. n - 1 \in Nat /\ n - 1 \notin Bad
    BY <2>1, <2>2
  <2>4. \E g : Solves(g, n - 1)
    BY <2>3
  <2>5. \E g : Solves(g, (n - 1) + 1)
    BY <1>3, <2>3, <2>4
  <2>6. (n - 1) + 1 = n
    BY <2>1
  <2> QED
    BY <2>1, <2>5, <2>6
<1>5. PICK g : Solves(g, Cardinality(S))
  <2>1. Cardinality(S) \in Nat
    BY FS_CardinalityType
  <2> QED
    BY <1>4, <2>1
<1> DEFINE r == [s \in SUBSET S |-> ProductStep(v, g, s)]
<1>6. \A s \in SUBSET S : r[s] = g[s]
  <2>1. \A s \in SUBSET S : Cardinality(s) <= Cardinality(S)
    BY FS_Subset
  <2> QED
    BY <1>5, <2>1
<1>7. \A s \in SUBSET S : ProductStep(v, g, s) = ProductStep(v, r, s)
  <2>1. \A s \in SUBSET S : s \ {Pick(s)} \in SUBSET S
    OBVIOUS
  <2> HIDE DEF r
  <2> QED
    BY <1>6, <2>1 DEF ProductStep
<1>8. r = [s \in SUBSET S |-> ProductStep(v, r, s)]
  BY <1>7
<1> HIDE DEF r
<1> QED
  BY <1>8 DEF PartialProducts

\* A product of fractions is a fraction, whatever factor is taken first.
LEMMA PartialProductsAre ==
    ASSUME NEW S, IsFiniteSet(S), NEW v \in [S -> Rational]
    PROVE  \A s \in SUBSET S :
              /\ PartialProducts(v, S)[s] = ProductStep(v, PartialProducts(v, S), s)
              /\ PartialProducts(v, S)[s] \in Rational
<1> DEFINE F == PartialProducts(v, S)
           Bad == {s \in SUBSET S : F[s] \notin Rational}
<1>1. F = [s \in SUBSET S |-> ProductStep(v, F, s)]
  BY PartialProductsExist
<1> HIDE DEF F
<1>2. \A s \in SUBSET S : F[s] = ProductStep(v, F, s)
  BY <1>1
<1>3. ASSUME Bad # {} PROVE FALSE
  <2>1. PICK s \in Bad : \A t \in SUBSET s : t # s => t \notin Bad
    <3>1. Bad \in SUBSET SUBSET S
      OBVIOUS
    <3> HIDE DEF Bad
    <3> QED
      BY <1>3, <3>1, MinimalSubset, Zenon
  <2>2. s \in SUBSET S /\ F[s] \notin Rational /\ F[s] = ProductStep(v, F, s)
    BY <1>2, <2>1
  <2>3. Whole(1) \in Rational
    BY WholeIs
  <2>4. s # {}
    BY <2>2, <2>3 DEF ProductStep
  <2>5. Pick(s) \in S /\ s \ {Pick(s)} \in SUBSET s /\ s \ {Pick(s)} # s
    BY <2>2, <2>4, PickShrinks
  <2>6. F[s \ {Pick(s)}] \in Rational /\ v[Pick(s)] \in Rational
    BY <2>1, <2>2, <2>5
  <2>7. F[s] = Product(v[Pick(s)], F[s \ {Pick(s)}])
    BY <2>2, <2>4 DEF ProductStep
  <2> QED
    BY <2>2, <2>6, <2>7, ProductTypes
<1> QED
  BY <1>2, <1>3 DEF F

\* Any factor may be taken out of a product.
LEMMA PartialProductsRemove ==
    ASSUME NEW S, IsFiniteSet(S), NEW v \in [S -> Rational]
    PROVE  \A s \in SUBSET S : \A a \in s :
              PartialProducts(v, S)[s] = Product(v[a], PartialProducts(v, S)[s \ {a}])
<1> DEFINE F == PartialProducts(v, S)
           Bad == {s \in SUBSET S : ~\A a \in s : F[s] = Product(v[a], F[s \ {a}])}
<1>1. \A s \in SUBSET S : F[s] = ProductStep(v, F, s) /\ F[s] \in Rational
  BY PartialProductsAre
<1> SUFFICES ASSUME Bad # {} PROVE FALSE
  OBVIOUS
<1>2. PICK s \in Bad : \A t \in SUBSET s : t # s => t \notin Bad
  <2>1. Bad \in SUBSET SUBSET S
    OBVIOUS
  <2> HIDE DEF Bad
  <2> QED
    BY <2>1, MinimalSubset, Zenon
<1> HIDE DEF F
<1>3. PICK a \in s : F[s] # Product(v[a], F[s \ {a}])
  BY <1>2
<1> DEFINE p == Pick(s)
<1>4. p \in s /\ s \in SUBSET S /\ s # {}
  BY <1>2, <1>3, PickShrinks
<1>5. F[s] = Product(v[p], F[s \ {p}])
  BY <1>1, <1>4 DEF ProductStep
<1> HIDE DEF p
<1>6. p # a
  BY <1>3, <1>5
<1>7. s \ {p} \in SUBSET S /\ s \ {p} \notin Bad /\ a \in s \ {p}
  BY <1>2, <1>3, <1>4, <1>6
<1>8. F[s \ {p}] = Product(v[a], F[(s \ {p}) \ {a}])
  BY <1>7
<1>9. s \ {a} \in SUBSET S /\ s \ {a} \notin Bad /\ p \in s \ {a}
  BY <1>2, <1>3, <1>4, <1>6
<1>10. F[s \ {a}] = Product(v[p], F[(s \ {a}) \ {p}])
  BY <1>9
<1>11. (s \ {a}) \ {p} = (s \ {p}) \ {a} /\ (s \ {p}) \ {a} \in SUBSET S
  BY <1>4
<1> DEFINE r == F[(s \ {p}) \ {a}]
<1>12. v[a] \in Rational /\ v[p] \in Rational /\ r \in Rational
  BY <1>1, <1>3, <1>4, <1>11
<1>13. F[s] = Product(v[p], Product(v[a], r)) /\ F[s \ {a}] = Product(v[p], r)
  BY <1>5, <1>8, <1>10, <1>11
<1> HIDE DEF r
<1>14. Product(v[p], Product(v[a], r)) = Product(v[a], Product(v[p], r))
  <2>1. Product(v[p], Product(v[a], r)) = Product(Product(v[p], v[a]), r)
    BY <1>12, ProductAssociates
  <2>2. Product(v[a], Product(v[p], r)) = Product(Product(v[a], v[p]), r)
    BY <1>12, ProductAssociates
  <2>3. Product(v[a], v[p]) = Product(v[p], v[a])
    BY <1>12, ProductCommutes
  <2> QED
    BY <2>1, <2>2, <2>3
<1> QED
  BY <1>3, <1>13, <1>14

\* Where two functions have the same factors they have the same products.
LEMMA PartialProductsAgree ==
    ASSUME NEW S, IsFiniteSet(S), NEW v \in [S -> Rational],
           NEW T, IsFiniteSet(T), NEW w \in [T -> Rational],
           NEW R \in SUBSET S, R \in SUBSET T, Agree(v, w, R)
    PROVE  PartialProducts(w, T)[R] = PartialProducts(v, S)[R]
<1> DEFINE F == PartialProducts(v, S)
           G == PartialProducts(w, T)
           Bad == {s \in SUBSET R : G[s] # F[s]}
<1>1. \A s \in SUBSET S : F[s] = ProductStep(v, F, s)
  BY PartialProductsAre
<1>2. \A s \in SUBSET T : G[s] = ProductStep(w, G, s)
  BY PartialProductsAre
<1>3. IsFiniteSet(R)
  BY FS_Subset
<1>4. ASSUME Bad # {} PROVE FALSE
  <2>1. PICK s \in Bad : \A t \in SUBSET s : t # s => t \notin Bad
    <3>1. Bad \in SUBSET SUBSET R
      OBVIOUS
    <3> HIDE DEF Bad
    <3> QED
      BY <1>3, <1>4, <3>1, MinimalSubset, Zenon
  <2> HIDE DEF F, G
  <2>2. s \in SUBSET R /\ s \in SUBSET S /\ s \in SUBSET T /\ G[s] # F[s]
    BY <2>1
  <2>3. s # {}
    BY <1>1, <1>2, <2>2 DEF ProductStep
  <2>4. Pick(s) \in s /\ s \ {Pick(s)} \in SUBSET s /\ s \ {Pick(s)} # s
    BY <2>3, PickShrinks
  <2>5. G[s \ {Pick(s)}] = F[s \ {Pick(s)}] /\ w[Pick(s)] = v[Pick(s)]
    BY <2>1, <2>2, <2>4 DEF Agree
  <2> QED
    BY <1>1, <1>2, <2>2, <2>3, <2>5 DEF ProductStep
<1>5. R \notin Bad
  BY <1>4
<1> QED
  BY <1>5

\* The empty product.
LEMMA ProductOfNone ==
    ASSUME NEW v, DOMAIN v = {}
    PROVE  ProductOf(v) = Whole(1)
<1>1. IsFiniteSet({}) /\ {} \in SUBSET {}
  BY FS_EmptySet
<1> DEFINE F == PartialProducts(v, {})
<1>2. F = [s \in SUBSET {} |-> ProductStep(v, F, s)]
  BY <1>1, PartialProductsExist
<1>3. ProductOf(v) = F[{}]
  BY ProductIsPartial
<1> HIDE DEF F
<1>4. F[{}] = ProductStep(v, F, {})
  BY <1>1, <1>2
<1> QED
  BY <1>3, <1>4 DEF ProductStep

\* One more factor multiplies the product.
LEMMA ProductAppend ==
    ASSUME NEW S, IsFiniteSet(S), NEW a, a \notin S, NEW T, T = S \cup {a},
           NEW v \in [S -> Rational], NEW w \in [T -> Rational], Agree(v, w, S)
    PROVE  ProductOf(v) \in Rational /\ ProductOf(w) = Product(w[a], ProductOf(v))
<1>1. IsFiniteSet(T) /\ T \in SUBSET T /\ S \in SUBSET T /\ S \in SUBSET S /\ a \in T /\ T \ {a} = S
  BY FS_AddElement
<1>2. w \in [T -> Rational]
  OBVIOUS
<1>3. ProductOf(w) = PartialProducts(w, T)[T]
  <2>1. DOMAIN w = T
    BY <1>2
  <2> QED
    BY <2>1, ProductIsPartial
<1>4. ProductOf(v) = PartialProducts(v, S)[S]
  <2>1. DOMAIN v = S
    OBVIOUS
  <2> QED
    BY <2>1, ProductIsPartial
<1>5. PartialProducts(w, T)[T] = Product(w[a], PartialProducts(w, T)[T \ {a}])
  BY <1>1, <1>2, PartialProductsRemove
<1>6. PartialProducts(w, T)[S] = PartialProducts(v, S)[S]
  BY <1>1, <1>2, PartialProductsAgree
<1>7. PartialProducts(v, S)[S] \in Rational
  BY <1>1, PartialProductsAre
<1> QED
  BY <1>1, <1>3, <1>4, <1>5, <1>6, <1>7

\* Multiplying one factor multiplies the product.
LEMMA ProductUpdate ==
    ASSUME NEW S, IsFiniteSet(S), NEW a \in S, NEW q \in Rational,
           NEW v \in [S -> Rational], NEW w \in [S -> Rational],
           w[a] = Product(q, v[a]), Agree(v, w, S \ {a})
    PROVE  ProductOf(v) \in Rational /\ ProductOf(w) = Product(q, ProductOf(v))
<1> DEFINE R == S \ {a}
           r == PartialProducts(v, S)[R]
<1>1. R \in SUBSET S /\ S \in SUBSET S
  OBVIOUS
<1>2. DOMAIN v = S /\ DOMAIN w = S
  OBVIOUS
<1>3. ProductOf(w) = PartialProducts(w, S)[S] /\ ProductOf(v) = PartialProducts(v, S)[S]
  BY <1>2, ProductIsPartial
<1>4. PartialProducts(w, S)[S] = Product(w[a], PartialProducts(w, S)[R])
  BY <1>1, PartialProductsRemove
<1>5. PartialProducts(v, S)[S] = Product(v[a], r)
  BY <1>1, PartialProductsRemove
<1>6. PartialProducts(w, S)[R] = r
  BY <1>1, PartialProductsAgree
<1>7. r \in Rational /\ PartialProducts(v, S)[S] \in Rational /\ v[a] \in Rational
  BY <1>1, PartialProductsAre
<1> HIDE DEF r, R
<1>8. Product(Product(q, v[a]), r) = Product(q, Product(v[a], r))
  BY <1>7, ProductAssociates
<1> QED
  BY <1>3, <1>4, <1>5, <1>6, <1>7, <1>8

=============================================================================
