----------------------------- MODULE Sums_proofs -----------------------------
(***************************************************************************)
(* What a sum over a finite set is.  The library's MapThenSumSet folds a        *)
(* recursive function over the subsets; here that function is shown to exist,  *)
(* and the sum not to depend on the order in which elements are taken.         *)
(*                                                                         *)
(* Induction is stated over a set of good values, and proved from the least    *)
(* value that is not good.                                                  *)
(***************************************************************************)
EXTENDS Integers, FiniteSetsExt, FiniteSetTheorems, WellFoundedInduction, TLAPS

LEMMA LeastNatural ==
  ASSUME NEW T \in SUBSET Nat, T # {}
  PROVE  \E m \in T : \A n \in T : m <= n
<1> DEFINE R == {ss \in Nat \X Nat : ss[1] < ss[2]}
<1>1. IsWellFoundedOn(R, Nat)
  BY NatLessThanWellFounded DEF OpToRel
<1>2. PICK m \in T : \A n \in T : <<n, m>> \notin R
  BY <1>1, WFMin
<1>3. ASSUME NEW n \in T PROVE m <= n
  <2>1. n < m => <<n, m>> \in R
    OBVIOUS
  <2>2. QED
    BY <1>2, <2>1
<1>4. QED
  BY <1>3

LEMMA NaturalInduction ==
  ASSUME NEW G \in SUBSET Nat, 0 \in G, \A n \in G : n + 1 \in G
  PROVE  G = Nat
<1>1. SUFFICES ASSUME Nat \ G # {} PROVE FALSE
  OBVIOUS
<1>2. PICK m \in Nat \ G : \A n \in Nat \ G : m <= n
  BY <1>1, LeastNatural
<1>3. m - 1 \in Nat /\ (m - 1) + 1 = m /\ ~(m <= m - 1)
  BY <1>2
<1>4. m - 1 \in G
  BY <1>2, <1>3
<1>5. QED
  BY <1>2, <1>3, <1>4

(* A function of a set into itself can be applied any number of times.        *)
IsRun(v, F, z, T) == v \in [Nat -> T] /\ v[0] = z /\ \A n \in Nat : v[n + 1] = F[v[n]]

LEMMA RunExists ==
  ASSUME NEW T, NEW F \in [T -> T], NEW z \in T
  PROVE  \E v : IsRun(v, F, z, T)
<1> DEFINE Run(v, k) == v[0] = z /\ \A i \in Nat : i < k => v[i + 1] = F[v[i]]
           G == {k \in Nat : \E v \in [Nat -> T] : Run(v, k)}
<1>1. 0 \in G
  <2>1. [i \in Nat |-> z] \in [Nat -> T] /\ Run([i \in Nat |-> z], 0)
    OBVIOUS
  <2> HIDE DEF Run
  <2>2. QED
    BY <2>1
<1>2. ASSUME NEW k \in G PROVE k + 1 \in G
  <2>1. PICK v \in [Nat -> T] : Run(v, k)
    OBVIOUS
  <2> DEFINE w == [v EXCEPT ![k + 1] = F[v[k]]]
  <2>2. w \in [Nat -> T] /\ k + 1 \in Nat
    OBVIOUS
  <2>3. \A i \in Nat : i # k + 1 => w[i] = v[i]
    OBVIOUS
  <2>4. w[k + 1] = F[w[k]]
    BY <2>3
  <2>5. Run(w, k + 1)
    <3> HIDE DEF w
    <3>1. w[0] = z
      BY <2>1, <2>3
    <3>2. ASSUME NEW i \in Nat, i < k + 1 PROVE w[i + 1] = F[w[i]]
      <4>1. CASE i = k
        BY <4>1, <2>4
      <4>2. CASE i # k
        BY <4>2, <3>2, <2>1, <2>3
      <4>3. QED
        BY <4>1, <4>2
    <3>3. QED
      BY <3>1, <3>2
  <2> HIDE DEF Run, w
  <2>6. QED
    BY <2>2, <2>5
<1>3. G = Nat
  <2>1. G \in SUBSET Nat
    OBVIOUS
  <2> HIDE DEF G
  <2>2. QED
    BY <1>1, <1>2, <2>1, NaturalInduction
<1>4. ASSUME NEW u, NEW v, NEW k \in Nat, Run(u, k), Run(v, k), NEW i \in Nat, i <= k
      PROVE  u[i] = v[i]
  <2> DEFINE H == {j \in Nat : j <= k => u[j] = v[j]}
  <2>1. 0 \in H
    BY <1>4
  <2>2. ASSUME NEW j \in H PROVE j + 1 \in H
    BY <1>4
  <2>3. H = Nat
    <3>1. H \in SUBSET Nat
      OBVIOUS
    <3> HIDE DEF H
    <3>2. QED
      BY <2>1, <2>2, <3>1, NaturalInduction
  <2>4. QED
    BY <1>4, <2>3
<1> DEFINE V(k) == CHOOSE v \in [Nat -> T] : Run(v, k)
           w == [n \in Nat |-> V(n)[n]]
<1>5. ASSUME NEW k \in Nat PROVE V(k) \in [Nat -> T] /\ Run(V(k), k)
  <2>1. \E v \in [Nat -> T] : Run(v, k)
    BY <1>3
  <2> HIDE DEF Run
  <2>2. QED
    BY <2>1
<1>6. w \in [Nat -> T] /\ w[0] = z
  BY <1>5
<1>7. ASSUME NEW n \in Nat PROVE w[n + 1] = F[w[n]]
  <2>1. n + 1 \in Nat /\ n < n + 1 /\ n <= n
    OBVIOUS
  <2>2. Run(V(n + 1), n + 1) /\ Run(V(n), n)
    BY <1>5, <2>1
  <2>3. Run(V(n + 1), n)
    <3> HIDE DEF V
    <3>1. QED
      BY <2>2
  <2>4. V(n + 1)[n] = V(n)[n]
    <3> HIDE DEF V, Run
    <3>1. QED
      BY <1>4, <2>1, <2>2, <2>3
  <2>5. V(n + 1)[n + 1] = F[V(n + 1)[n]]
    <3> HIDE DEF V
    <3>1. QED
      BY <2>1, <2>2
  <2>6. w[n + 1] = V(n + 1)[n + 1] /\ w[n] = V(n)[n]
    <3> HIDE DEF V
    <3>1. QED
      BY <2>1
  <2>7. QED
    BY <2>4, <2>5, <2>6
<1>8. IsRun(w, F, z, T)
  <2> HIDE DEF w
  <2>1. QED
    BY <1>6, <1>7 DEF IsRun
<1>9. QED
  BY <1>8

LEMMA PartsFinite ==
  ASSUME NEW S, IsFiniteSet(S)
  PROVE  \A A \in SUBSET S : IsFiniteSet(A) /\ Cardinality(A) \in Nat
BY FS_Subset, FS_CardinalityType

(* A set of subsets that has every subset all of whose smaller ones it has.     *)
LEMMA SubsetInduction ==
  ASSUME NEW S, IsFiniteSet(S), NEW G,
         \A A \in SUBSET S : (\A B \in SUBSET A : B # A => B \in G) => A \in G
  PROVE  SUBSET S \subseteq G
<1> DEFINE T == {Cardinality(A) : A \in (SUBSET S) \ G}
<1>1. SUFFICES ASSUME (SUBSET S) \ G # {} PROVE FALSE
  OBVIOUS
<1>2. T \in SUBSET Nat /\ T # {}
  BY <1>1, PartsFinite
<1>3. PICK m \in T : \A n \in T : m <= n
  BY <1>2, LeastNatural
<1>4. PICK A \in (SUBSET S) \ G : Cardinality(A) = m
  BY <1>3
<1>5. ASSUME NEW B \in SUBSET A, B # A PROVE B \in G
  <2>1. IsFiniteSet(A) /\ Cardinality(A) \in Nat /\ Cardinality(B) \in Nat
    BY <1>4, PartsFinite
  <2>2. Cardinality(B) < Cardinality(A)
    BY <1>5, <2>1, FS_Subset
  <2>3. B \in SUBSET S
    BY <1>4
  <2>4. QED
    BY <1>3, <1>4, <2>1, <2>2, <2>3
<1>6. QED
  BY <1>4, <1>5

-----------------------------------------------------------------------------
(* The function a sum folds *)

Pick(s) == CHOOSE x \in s : TRUE
Sum(f, S) == MapThenSumSet(LAMBDA x : f[x], S)

Step(f, g, s) == IF s = {} THEN 0 ELSE f[Pick(s)] + g[s \ {Pick(s)}]
IsIter(g, f, S) == g = [s \in SUBSET S |-> Step(f, g, s)]
Iter(f, S) == CHOOSE g : IsIter(g, f, S)

LEMMA SumIsIter == \A f, S : Sum(f, S) = Iter(f, S)[S]
BY DEF Sum, MapThenSumSet, MapThenFoldSet, Iter, IsIter, Step, Pick

LEMMA PickIn == \A s : s # {} => Pick(s) \in s
BY DEF Pick

LEMMA IterExists ==
  ASSUME NEW f, NEW S, IsFiniteSet(S)
  PROVE  \E g : IsIter(g, f, S)
<1> DEFINE Upto(g, n) == \A s \in SUBSET S : Cardinality(s) <= n => g[s] = Step(f, g, s)
           G == {n \in Nat : \E g : Upto(g, n)}
           Next(g) == [s \in SUBSET S |-> Step(f, g, s)]
<1>1. 0 \in G
  <2>1. Upto([s \in SUBSET S |-> 0], 0)
    <3>1. \A s \in SUBSET S : Cardinality(s) <= 0 => s = {}
      BY PartsFinite, FS_EmptySet
    <3>2. QED
      BY <3>1 DEF Step
  <2>2. QED
    BY <2>1
<1>2. ASSUME NEW n \in G PROVE n + 1 \in G
  <2>1. PICK g : Upto(g, n)
    OBVIOUS
  <2>2. ASSUME NEW s \in SUBSET S, Cardinality(s) <= n + 1
        PROVE  Next(g)[s] = Step(f, Next(g), s)
    <3>1. CASE s = {}
      BY <3>1 DEF Step
    <3>2. CASE s # {}
      <4> DEFINE r == s \ {Pick(s)}
      <4>1. Pick(s) \in s /\ r \in SUBSET S
        BY <3>2, PickIn
      <4>2. Cardinality(r) <= n
        BY <2>2, <4>1, PartsFinite, FS_RemoveElement
      <4>3. Next(g)[r] = g[r]
        BY <2>1, <4>1, <4>2
      <4>4. QED
        BY <3>2, <4>3 DEF Step
    <3>3. QED
      BY <3>1, <3>2
  <2>3. Upto(Next(g), n + 1)
    BY <2>2
  <2>4. \E h : Upto(h, n + 1)
    <3> HIDE DEF Upto, Next
    <3>1. QED
      BY <2>3
  <2>5. QED
    BY <2>4
<1>3. Cardinality(S) \in G
  <2>1. G = Nat
    <3> HIDE DEF G
    <3>1. G \in SUBSET Nat
      BY DEF G
    <3>2. QED
      BY <1>1, <1>2, <3>1, NaturalInduction
  <2>2. QED
    BY <2>1, PartsFinite
<1>4. PICK g : Upto(g, Cardinality(S))
  BY <1>3
<1>5. \A s \in SUBSET S : g[s] = Step(f, g, s)
  <2>1. \A s \in SUBSET S : Cardinality(s) <= Cardinality(S)
    BY FS_Subset
  <2>2. QED
    BY <1>4, <2>1
<1>6. IsIter(Next(g), f, S)
  <2>1. ASSUME NEW s \in SUBSET S PROVE Step(f, g, s) = Step(f, Next(g), s)
    <3>1. s # {} => s \ {Pick(s)} \in SUBSET S
      OBVIOUS
    <3>2. QED
      BY <1>5, <3>1 DEF Step
  <2>2. QED
    BY <2>1 DEF IsIter
<1>7. QED
  BY <1>6

(* Two such functions agree where both are defined. *)
LEMMA ItersAgree ==
  ASSUME NEW f, NEW S, NEW T, IsFiniteSet(S), NEW g, NEW h,
         IsIter(g, f, S), IsIter(h, f, T)
  PROVE  \A s \in SUBSET (S \cap T) : g[s] = h[s]
<1> DEFINE U == S \cap T
           G == {s \in SUBSET U : g[s] = h[s]}
<1>1. IsFiniteSet(U)
  BY PartsFinite
<1>2. ASSUME NEW A \in SUBSET U, \A B \in SUBSET A : B # A => B \in G
      PROVE  A \in G
  <2>1. g[A] = Step(f, g, A) /\ h[A] = Step(f, h, A)
    BY DEF IsIter
  <2>2. A # {} => A \ {Pick(A)} \in G
    BY <1>2, PickIn
  <2>3. QED
    BY <2>1, <2>2 DEF Step
<1>3. SUBSET U \subseteq G
  <2> HIDE DEF G, U
  <2>1. QED
    BY <1>1, <1>2, SubsetInduction
<1>4. QED
  BY <1>3

LEMMA SumStep ==
  ASSUME NEW f, NEW S, IsFiniteSet(S)
  PROVE  Sum(f, S) = IF S = {} THEN 0 ELSE f[Pick(S)] + Sum(f, S \ {Pick(S)})
<1> DEFINE R == S \ {Pick(S)}
<1>1. IsFiniteSet(R)
  BY PartsFinite
<1>2. IsIter(Iter(f, S), f, S) /\ IsIter(Iter(f, R), f, R)
  BY <1>1, IterExists DEF Iter
<1>3. Iter(f, S)[S] = Step(f, Iter(f, S), S)
  BY <1>2 DEF IsIter
<1>4. Iter(f, S)[R] = Iter(f, R)[R]
  <2>1. R \in SUBSET (S \cap R)
    OBVIOUS
  <2>2. QED
    BY <1>2, <2>1, ItersAgree
<1>5. QED
  BY <1>3, <1>4, SumIsIter DEF Step

-----------------------------------------------------------------------------
(* Sums of integers *)

Summable(f, S) == IsFiniteSet(S) /\ \A x \in S : f[x] \in Int

LEMMA SumEmpty == \A f : Sum(f, {}) = 0
BY SumStep, FS_EmptySet

LEMMA SumInt ==
  ASSUME NEW f, NEW S, Summable(f, S)
  PROVE  Sum(f, S) \in Int
<1> DEFINE G == {A \in SUBSET S : Sum(f, A) \in Int}
<1>1. ASSUME NEW A \in SUBSET S, \A B \in SUBSET A : B # A => B \in G
      PROVE  A \in G
  <2> DEFINE R == A \ {Pick(A)}
  <2>1. Sum(f, A) = IF A = {} THEN 0 ELSE f[Pick(A)] + Sum(f, R)
    BY PartsFinite, SumStep DEF Summable
  <2>2. CASE A # {}
    <3>1. Pick(A) \in S /\ Sum(f, R) \in Int
      BY <1>1, <2>2, PickIn
    <3>2. QED
      BY <2>1, <2>2, <3>1 DEF Summable
  <2>3. QED
    BY <2>1, <2>2
<1>2. SUBSET S \subseteq G
  <2> HIDE DEF G
  <2>1. QED
    BY <1>1, SubsetInduction DEF Summable
<1>3. QED
  BY <1>2

(* Any element may be taken first. *)
LEMMA SumSplit ==
  ASSUME NEW f, NEW S, Summable(f, S), NEW x \in S
  PROVE  Sum(f, S) = f[x] + Sum(f, S \ {x})
<1> DEFINE G == {A \in SUBSET S : \A y \in A : Sum(f, A) = f[y] + Sum(f, A \ {y})}
<1>1. ASSUME NEW A \in SUBSET S PROVE Summable(f, A)
  BY PartsFinite DEF Summable
<1>2. ASSUME NEW A \in SUBSET S, \A B \in SUBSET A : B # A => B \in G, NEW y \in A
      PROVE  Sum(f, A) = f[y] + Sum(f, A \ {y})
  <2> DEFINE p == Pick(A)
             R == A \ {p}
             Q == A \ {y}
             C == (A \ {p}) \ {y}
  <2>1. p \in A /\ Sum(f, A) = f[p] + Sum(f, R)
    BY <1>1, PickIn, SumStep DEF Summable
  <2>2. CASE p # y
    <3>1. Sum(f, R) = f[y] + Sum(f, C)
      BY <1>2, <2>1, <2>2
    <3>2. Sum(f, Q) = f[p] + Sum(f, C)
      <4>1. Sum(f, Q) = f[p] + Sum(f, Q \ {p})
        BY <1>2, <2>1, <2>2
      <4>2. Q \ {p} = C
        OBVIOUS
      <4>3. QED
        BY <4>1, <4>2
    <3>3. f[p] \in Int /\ f[y] \in Int /\ Sum(f, C) \in Int
      <4>1. C \in SUBSET S
        OBVIOUS
      <4>2. QED
        BY <1>1, <2>1, <4>1, SumInt DEF Summable
    <3>4. QED
      BY <2>1, <3>1, <3>2, <3>3
  <2>3. QED
    BY <2>1, <2>2
<1>3. SUBSET S \subseteq G
  <2>1. ASSUME NEW A \in SUBSET S, \A B \in SUBSET A : B # A => B \in G PROVE A \in G
    BY <1>2, <2>1
  <2> HIDE DEF G
  <2>2. QED
    BY <2>1, SubsetInduction DEF Summable
<1>4. QED
  BY <1>3

LEMMA SumAdd ==
  ASSUME NEW f, NEW S, Summable(f, S), NEW x, x \notin S, f[x] \in Int
  PROVE  Sum(f, S \cup {x}) = f[x] + Sum(f, S)
<1>1. Summable(f, S \cup {x})
  BY FS_AddElement DEF Summable
<1>2. (S \cup {x}) \ {x} = S
  OBVIOUS
<1>3. Sum(f, S \cup {x}) = f[x] + Sum(f, (S \cup {x}) \ {x})
  BY <1>1, SumSplit
<1>4. QED
  BY <1>2, <1>3

(* Only the values inside the set count. *)
LEMMA SumSame ==
  ASSUME NEW f, NEW g, NEW S, IsFiniteSet(S), \A x \in S : f[x] = g[x]
  PROVE  Sum(f, S) = Sum(g, S)
<1> DEFINE G == {A \in SUBSET S : Sum(f, A) = Sum(g, A)}
<1>1. ASSUME NEW A \in SUBSET S, \A B \in SUBSET A : B # A => B \in G
      PROVE  A \in G
  <2> DEFINE R == A \ {Pick(A)}
  <2>1. /\ Sum(f, A) = IF A = {} THEN 0 ELSE f[Pick(A)] + Sum(f, R)
        /\ Sum(g, A) = IF A = {} THEN 0 ELSE g[Pick(A)] + Sum(g, R)
    BY PartsFinite, SumStep
  <2>2. CASE A # {}
    <3>1. Pick(A) \in S /\ Sum(f, R) = Sum(g, R)
      BY <1>1, <2>2, PickIn
    <3>2. QED
      BY <2>1, <2>2, <3>1
  <2>3. QED
    BY <2>1, <2>2
<1>2. SUBSET S \subseteq G
  <2> HIDE DEF G
  <2>1. QED
    BY <1>1, SubsetInduction
<1>3. QED
  BY <1>2

(* What changes at one element changes the sum by as much. *)
LEMMA SumChange ==
  ASSUME NEW f, NEW g, NEW S, Summable(f, S), NEW x \in S, g[x] \in Int,
         \A y \in S \ {x} : g[y] = f[y]
  PROVE  Sum(g, S) = Sum(f, S) + g[x] - f[x]
<1>1. Summable(g, S) /\ Summable(f, S \ {x})
  BY PartsFinite DEF Summable
<1>2. Sum(g, S \ {x}) = Sum(f, S \ {x})
  BY <1>1, SumSame DEF Summable
<1>3. Sum(g, S) = g[x] + Sum(g, S \ {x}) /\ Sum(f, S) = f[x] + Sum(f, S \ {x})
  BY <1>1, SumSplit
<1>4. Sum(f, S \ {x}) \in Int /\ f[x] \in Int
  BY <1>1, SumInt DEF Summable
<1>5. QED
  BY <1>2, <1>3, <1>4

LEMMA SumZero ==
  ASSUME NEW f, NEW S, IsFiniteSet(S), \A x \in S : f[x] = 0
  PROVE  Sum(f, S) = 0
<1> DEFINE G == {A \in SUBSET S : Sum(f, A) = 0}
<1>1. ASSUME NEW A \in SUBSET S, \A B \in SUBSET A : B # A => B \in G
      PROVE  A \in G
  <2>1. Sum(f, A) = IF A = {} THEN 0 ELSE f[Pick(A)] + Sum(f, A \ {Pick(A)})
    BY PartsFinite, SumStep
  <2>2. A # {} => Pick(A) \in S /\ Sum(f, A \ {Pick(A)}) = 0
    BY <1>1, PickIn
  <2>3. QED
    BY <2>1, <2>2
<1>2. SUBSET S \subseteq G
  <2> HIDE DEF G
  <2>1. QED
    BY <1>1, SubsetInduction
<1>3. QED
  BY <1>2

(* The sums over two sets with nothing in common. *)
LEMMA SumUnion ==
  ASSUME NEW f, NEW S, NEW T, Summable(f, S), Summable(f, T), S \cap T = {}
  PROVE  Sum(f, S \cup T) = Sum(f, S) + Sum(f, T)
<1> DEFINE G == {A \in SUBSET S : Sum(f, A \cup T) = Sum(f, A) + Sum(f, T)}
<1>1. ASSUME NEW A \in SUBSET S, \A B \in SUBSET A : B # A => B \in G
      PROVE  A \in G
  <2>1. CASE A = {}
    <3>1. A \cup T = T
      BY <2>1
    <3>2. QED
      BY <2>1, <3>1, SumEmpty, SumInt
  <2>2. CASE A # {}
    <3>1. PICK x \in A : TRUE
      BY <2>2
    <3> DEFINE R == A \ {x}
    <3>2. Summable(f, A) /\ Summable(f, R) /\ Summable(f, A \cup T)
      BY PartsFinite, FS_Union DEF Summable
    <3>3. Sum(f, A) = f[x] + Sum(f, R)
      BY <3>1, <3>2, SumSplit
    <3>4. Sum(f, A \cup T) = f[x] + Sum(f, R \cup T)
      <4>1. (A \cup T) \ {x} = R \cup T
        BY <3>1
      <4>2. QED
        BY <3>1, <3>2, <4>1, SumSplit
    <3>5. Sum(f, R \cup T) = Sum(f, R) + Sum(f, T)
      BY <1>1, <3>1
    <3>6. f[x] \in Int /\ Sum(f, R) \in Int /\ Sum(f, T) \in Int
      BY <3>1, <3>2, SumInt DEF Summable
    <3>7. QED
      BY <3>3, <3>4, <3>5, <3>6
  <2>3. QED
    BY <2>1, <2>2
<1>2. SUBSET S \subseteq G
  <2> HIDE DEF G
  <2>1. QED
    BY <1>1, SubsetInduction DEF Summable
<1>3. QED
  BY <1>2

Natural(f, S) == IsFiniteSet(S) /\ \A x \in S : f[x] \in Nat

LEMMA SumNatural ==
  ASSUME NEW f, NEW S, Natural(f, S)
  PROVE  Sum(f, S) \in Nat
<1> DEFINE G == {A \in SUBSET S : Sum(f, A) \in Nat}
<1>1. ASSUME NEW A \in SUBSET S, \A B \in SUBSET A : B # A => B \in G
      PROVE  A \in G
  <2>1. Sum(f, A) = IF A = {} THEN 0 ELSE f[Pick(A)] + Sum(f, A \ {Pick(A)})
    BY PartsFinite, SumStep DEF Natural
  <2>2. A # {} => f[Pick(A)] \in Nat /\ Sum(f, A \ {Pick(A)}) \in Nat
    BY <1>1, PickIn DEF Natural
  <2>3. QED
    BY <2>1, <2>2
<1>2. SUBSET S \subseteq G
  <2> HIDE DEF G
  <2>1. QED
    BY <1>1, SubsetInduction DEF Natural
<1>3. QED
  BY <1>2

LEMMA SumGrows ==
  ASSUME NEW f, NEW S, Natural(f, S), NEW A \in SUBSET S
  PROVE  Sum(f, A) \in Nat /\ Sum(f, S) \in Nat /\ Sum(f, A) <= Sum(f, S)
<1> DEFINE B == S \ A
<1>1. A \cap B = {} /\ A \cup B = S
  OBVIOUS
<1>2. Natural(f, A) /\ Natural(f, B) /\ Summable(f, A) /\ Summable(f, B)
  BY PartsFinite DEF Natural, Summable
<1>3. Sum(f, S) = Sum(f, A) + Sum(f, B)
  BY <1>1, <1>2, SumUnion
<1>4. Sum(f, A) \in Nat /\ Sum(f, B) \in Nat
  BY <1>2, SumNatural
<1>5. QED
  BY <1>3, <1>4
=============================================================================
