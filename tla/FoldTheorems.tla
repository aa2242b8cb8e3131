---------------------------- MODULE FoldTheorems ----------------------------
(***************************************************************************)
(* What sums and folds compute, for sets and sequences of any size.  The   *)
(* library states induction with an operator for a parameter; here a       *)
(* recursive definition is reasoned about by its least counterexample.     *)
(***************************************************************************)
EXTENDS Integers, SequencesExt, FiniteSetsExt, Functions, FiniteSetTheorems,
        SequenceTheorems, WellFoundedInduction, TLAPS

\* Every non-empty set of natural numbers has a least element.
LEMMA LeastNat ==
    ASSUME NEW T, T \subseteq Nat, T # {}
    PROVE  \E n \in T : \A m \in T : n <= m
<1> DEFINE below == {ss \in Nat \X Nat : ss[1] < ss[2]}
<1>1. IsWellFoundedOn(below, Nat)
  BY NatLessThanWellFounded DEF OpToRel
<1>2. PICK n \in T : \A m \in T : <<m, n>> \notin below
  <2> HIDE DEF below
  <2> QED BY <1>1, WFMin
<1>3. \A m \in T : ~(m < n)
  BY <1>2
<1> QED BY <1>3, SMT

\* A set of natural numbers that holds n whenever it holds all below n is Nat.
LEMMA AllNat ==
    ASSUME NEW T, \A n \in Nat : (\A m \in 0..(n - 1) : m \in T) => n \in T
    PROVE  Nat \subseteq T
<1> SUFFICES ASSUME Nat \ T # {} PROVE FALSE
  OBVIOUS
<1>1. PICK n \in Nat \ T : \A m \in Nat \ T : n <= m
  BY LeastNat
<1>2. \A m \in 0..(n - 1) : m \in T
  BY <1>1, SMT
<1> QED BY <1>1, <1>2

\* Min and Max are what they say, and 1..i folds from its greatest element down.
LEMMA MinNat ==
    ASSUME NEW T \in SUBSET Nat, T # {}
    PROVE  Min(T) \in T /\ \A n \in T : Min(T) <= n
BY LeastNat DEF Min

LEMMA MaxNat ==
    ASSUME NEW n \in Nat, NEW T \in SUBSET (1..n), T # {}
    PROVE  Max(T) \in T /\ \A x \in T : x <= Max(T)
<1>0. \A x \in T : x \in Nat /\ n - x \in Nat
  <2>1. \A x \in 1..n : x \in Nat /\ n - x \in Nat
    BY SMT
  <2> QED BY <2>1
<1> DEFINE U == {n - x : x \in T}
<1>1. U \in SUBSET Nat /\ U # {}
  BY <1>0
<1>2. PICK u \in U : \A m \in U : u <= m
  <2> HIDE DEF U
  <2> QED BY <1>1, LeastNat
<1>3. PICK x \in T : u = n - x
  BY DEF U
<1>4. \A y \in T : n - y \in U
  OBVIOUS
<1>5. \A y \in T : x >= y
  <2> SUFFICES ASSUME NEW y \in T PROVE x >= y
    OBVIOUS
  <2>1. n - x <= n - y
    BY <1>2, <1>3, <1>4
  <2>2. x \in Nat /\ y \in Nat
    BY <1>0
  <2> QED BY <2>1, <2>2, SMT
<1>6. \A y \in T : Max(T) >= y /\ Max(T) \in T
  BY <1>5 DEF Max
<1> QED BY <1>6

LEMMA Prefix ==
    ASSUME NEW n \in Nat, NEW i \in 1..n
    PROVE  /\ 1..i \in SUBSET (1..n) /\ 1..i # {} /\ (1..i) \ {i} = 1..(i - 1)
           /\ i - 1 \in 0..n /\ Max(1..i) = i
<1>1. i \in 1..i /\ 1..i \in SUBSET (1..n) /\ i - 1 \in 0..n
  BY SMT
<1>2. (1..i) \ {i} = 1..(i - 1)
  BY SMT
<1>3. Max(1..i) \in 1..i /\ i <= Max(1..i)
  BY <1>1, MaxNat
<1>4. Max(1..i) = i
  BY <1>3, SMT
<1> QED BY <1>1, <1>2, <1>4

---------------------------------------------------------------------------
(* Recursion on a natural number *)

\* g is what F makes of base in n steps.
Iterates(g, F, base, n) == g[0] = base /\ \A i \in 1..n : g[i] = F[<<i, g[i - 1]>>]

\* The iterates exist.
LEMMA Recursion ==
    ASSUME NEW n \in Nat, NEW X, NEW base \in X, NEW F \in [(1..n) \X X -> X]
    PROVE  \E g \in [0..n -> X] : Iterates(g, F, base, n)
<1> USE DEF Iterates
<1> DEFINE Runs(g, m) == g[0] = base /\ \A i \in 1..m : g[i] = F[<<i, g[i - 1]>>]
           Good == {m \in Nat : m \in 0..n => \E g \in [0..m -> X] : Runs(g, m)}
<1>1. ASSUME NEW m \in Nat, \A l \in 0..(m - 1) : l \in Good PROVE m \in Good
  <2>1. CASE m = 0
    <3> DEFINE g == [i \in 0..m |-> base]
    <3>1. g \in [0..m -> X] /\ Runs(g, m)
      BY <2>1
    <3> QED BY <3>1
  <2>2. CASE m \in 1..n
    <3>1. m - 1 \in Good /\ m - 1 \in 0..n /\ m - 1 \in 0..(m - 1)
      <4> HIDE DEF Good
      <4>1. m - 1 \in 0..n /\ m - 1 \in 0..(m - 1)
        BY <2>2
      <4> QED BY <1>1, <4>1
    <3>2. PICK g \in [0..(m - 1) -> X] : Runs(g, m - 1)
      BY <3>1
    <3> DEFINE h == [i \in 0..m |-> IF i = m THEN F[<<m, g[m - 1]>>] ELSE g[i]]
    <3>3. F[<<m, g[m - 1]>>] \in X
      <4>1. g[m - 1] \in X
        BY <3>1, <3>2
      <4> QED BY <2>2, <4>1
    <3>4. h \in [0..m -> X]
      <4>1. \A i \in 0..m : i # m => i \in 0..(m - 1)
        OBVIOUS
      <4> QED BY <3>2, <3>3, <4>1
    <3>5. h[0] = base
      BY <2>2, <3>2
    <3>6. ASSUME NEW i \in 1..m PROVE h[i] = F[<<i, h[i - 1]>>]
      <4>1. i - 1 \in 0..(m - 1) /\ i - 1 # m /\ i - 1 \in 0..m
        BY <3>6
      <4>2. h[i - 1] = g[i - 1]
        BY <4>1
      <4>3. CASE i = m
        <5>1. h[i] = F[<<m, g[m - 1]>>] /\ h[m - 1] = g[m - 1]
          BY <4>2, <4>3
        <5> QED BY <4>3, <5>1
      <4>4. CASE i # m
        <5>1. i \in 1..(m - 1) /\ h[i] = g[i]
          BY <3>6, <4>4
        <5> QED BY <3>2, <4>2, <5>1
      <4> QED BY <4>3, <4>4
    <3> QED BY <3>4, <3>5, <3>6
  <2>3. CASE m \notin 0..n
    BY <2>3
  <2> QED BY <2>1, <2>2, <2>3
<1>2. Nat \subseteq Good
  <2> HIDE DEF Good
  <2> QED BY <1>1, AllNat
<1>3. n \in Good /\ n \in 0..n
  <2> HIDE DEF Good
  <2> QED BY <1>2
<1> QED BY <1>3

\* The i-th step of F leads from the set J[i - 1] to J[i]; g is a run of these steps.
Leads(F, J, n) == \A i \in 1..n : \A x \in J[i - 1] : F[<<i, x>>] \in J[i]
RunOf(g, F, J, base, n) ==
    /\ g[0] = base
    /\ \A i \in 1..n : g[i - 1] \in J[i - 1] /\ g[i] = F[<<i, g[i - 1]>>]

\* Where every step leads from one set to the next there is a run, and ...
LEMMA RunExists ==
    ASSUME NEW n \in Nat, NEW X, NEW J \in [0..n -> SUBSET X], NEW base \in J[0], NEW F,
           Leads(F, J, n)
    PROVE  \E g \in [0..n -> X] : RunOf(g, F, J, base, n)
<1> USE DEF Leads, RunOf
<1> DEFINE G == [p \in (1..n) \X X |-> IF p[2] \in J[p[1] - 1] THEN F[p] ELSE base]
<1>1. 0 \in 0..n /\ base \in X /\ \A i \in 1..n : i \in 0..n /\ i - 1 \in 0..n
  OBVIOUS
<1>2. G \in [(1..n) \X X -> X]
  <2>1. ASSUME NEW i \in 1..n, NEW x \in X, x \in J[i - 1] PROVE F[<<i, x>>] \in X
    BY <1>1, <2>1
  <2> QED BY <1>1, <2>1
<1>3. PICK g \in [0..n -> X] : Iterates(g, G, base, n)
  <2> HIDE DEF G
  <2> QED BY <1>1, <1>2, Recursion, Zenon
<1>4. \A i \in 1..n : g[i - 1] \in J[i - 1] => g[i] = F[<<i, g[i - 1]>>]
  <2>1. ASSUME NEW i \in 1..n, g[i - 1] \in J[i - 1] PROVE G[<<i, g[i - 1]>>] = F[<<i, g[i - 1]>>]
    <3>1. g[i - 1] \in X
      BY <1>1
    <3> QED BY <2>1, <3>1
  <2> QED BY <1>3, <2>1 DEF Iterates
<1> DEFINE Good == {i \in Nat : i \in 0..n => g[i] \in J[i]}
<1>5. ASSUME NEW i \in Nat, \A l \in 0..(i - 1) : l \in Good PROVE i \in Good
  <2>1. CASE i = 0
    BY <1>3, <2>1 DEF Iterates
  <2>2. CASE i # 0 /\ i \in 0..n
    <3>1. i \in 1..n /\ i - 1 \in 0..n /\ i - 1 \in 0..(i - 1)
      BY <2>2
    <3>2. g[i - 1] \in J[i - 1]
      BY <1>5, <3>1
    <3> QED BY <1>4, <3>1, <3>2
  <2> QED BY <2>1, <2>2
<1>6. Nat \subseteq Good
  <2> HIDE DEF Good
  <2> QED BY <1>5, AllNat
<1>7. \A i \in 1..n : g[i - 1] \in J[i - 1]
  BY <1>1, <1>6
<1> QED BY <1>3, <1>4, <1>7 DEF Iterates

\* ... every run stays in these sets.
LEMMA RunStays ==
    ASSUME NEW n \in Nat, NEW J, NEW g, g[0] \in J[0],
           \A i \in 1..n : g[i - 1] \in J[i - 1] => g[i] \in J[i]
    PROVE  \A i \in 0..n : g[i] \in J[i]
<1> DEFINE Good == {i \in Nat : i \in 0..n => g[i] \in J[i]}
<1>1. ASSUME NEW i \in Nat, \A l \in 0..(i - 1) : l \in Good PROVE i \in Good
  <2>1. CASE i = 0
    BY <2>1
  <2>2. CASE i # 0 /\ i \in 0..n
    <3>1. i \in 1..n /\ i - 1 \in 0..n /\ i - 1 \in 0..(i - 1)
      BY <2>2
    <3> QED BY <1>1, <3>1
  <2> QED BY <2>1, <2>2
<1>2. Nat \subseteq Good
  <2> HIDE DEF Good
  <2> QED BY <1>1, AllNat
<1> QED BY <1>2

---------------------------------------------------------------------------
(* Folds over finite sets *)

\* g folds F over every subset of S, taking off the elements that c chooses.
FoldsOver(g, F, base, c, S) ==
    \A s \in SUBSET S : g[s] = IF s = {} THEN base ELSE F[<<c[s], g[s \ {c[s]}]>>]

\* A recursion that takes one chosen element off a finite set at a time has a
\* value for every subset.
LEMMA FoldExists ==
    ASSUME NEW S, IsFiniteSet(S), NEW X, NEW base \in X,
           NEW c, \A s \in SUBSET S : s # {} => c[s] \in s,
           NEW F \in [S \X X -> X]
    PROVE  \E g \in [SUBSET S -> X] : FoldsOver(g, F, base, c, S)
<1> DEFINE Small(n) == {s \in SUBSET S : Cardinality(s) <= n}
           Step(g, s) == IF s = {} THEN base ELSE F[<<c[s], g[s \ {c[s]}]>>]
           Good == {n \in Nat : \E g \in [Small(n) -> X] : \A s \in Small(n) : g[s] = Step(g, s)}
<1>1. \A s \in SUBSET S : IsFiniteSet(s) /\ Cardinality(s) \in Nat /\ Cardinality(s) <= Cardinality(S)
  BY FS_Subset, FS_CardinalityType
<1>2. \A s \in SUBSET S : s # {} =>
         s \ {c[s]} \in SUBSET S /\ Cardinality(s \ {c[s]}) = Cardinality(s) - 1
  BY <1>1, FS_RemoveElement
<1>3. 0 \in Good
  <2> DEFINE g == [s \in Small(0) |-> base]
  <2>1. \A s \in Small(0) : s = {}
    BY <1>1, FS_EmptySet, SMT
  <2>2. g \in [Small(0) -> X] /\ \A s \in Small(0) : g[s] = Step(g, s)
    BY <2>1
  <2> QED BY <2>2
<1>4. ASSUME NEW n \in Nat, n # 0, n - 1 \in Good PROVE n \in Good
  <2>1. PICK g \in [Small(n - 1) -> X] : \A s \in Small(n - 1) : g[s] = Step(g, s)
    BY <1>4
  <2> DEFINE h == [s \in Small(n) |-> Step(g, s)]
  <2>2. ASSUME NEW s \in Small(n), s # {} PROVE s \ {c[s]} \in Small(n - 1)
    <3>1. s \in SUBSET S /\ Cardinality(s) \in Nat /\ Cardinality(s) <= n
      BY <1>1
    <3>2. s \ {c[s]} \in SUBSET S /\ Cardinality(s \ {c[s]}) = Cardinality(s) - 1
      BY <1>2, <2>2
    <3> QED BY <3>1, <3>2, SMT
  <2>3. \A s \in Small(n - 1) : s \in Small(n) /\ h[s] = g[s]
    <3>1. \A s \in Small(n - 1) : s \in Small(n)
      BY <1>1, SMT
    <3> QED BY <3>1, <2>1
  <2>4. ASSUME NEW s \in Small(n) PROVE h[s] \in X /\ h[s] = Step(h, s)
    <3>1. CASE s = {}
      BY <3>1
    <3>2. CASE s # {}
      <4>1. s \ {c[s]} \in Small(n - 1) /\ c[s] \in S
        BY <2>2, <3>2
      <4>2. h[s] = F[<<c[s], g[s \ {c[s]}]>>] /\ Step(h, s) = F[<<c[s], h[s \ {c[s]}]>>]
        BY <3>2
      <4>3. g[s \ {c[s]}] \in X /\ h[s \ {c[s]}] = g[s \ {c[s]}]
        BY <4>1, <2>1, <2>3
      <4>4. <<c[s], g[s \ {c[s]}]>> \in S \X X
        BY <4>1, <4>3
      <4> QED BY <4>2, <4>3, <4>4
    <3> QED BY <3>1, <3>2
  <2>5. h \in [Small(n) -> X]
    BY <2>4
  <2>6. \A s \in Small(n) : h[s] = Step(h, s)
    BY <2>4
  <2> HIDE DEF h, Small
  <2> QED BY <2>5, <2>6
<1>5. Nat \subseteq Good
  <2>1. ASSUME NEW n \in Nat, \A m \in 0..(n - 1) : m \in Good PROVE n \in Good
    <3>1. CASE n = 0
      BY <3>1, <1>3
    <3>2. CASE n # 0
      <4>1. n - 1 \in 0..(n - 1)
        BY <3>2, SMT
      <4> QED BY <4>1, <3>2, <2>1, <1>4
    <3> QED BY <3>1, <3>2
  <2> HIDE DEF Good
  <2> QED BY <2>1, AllNat
<1>6. Cardinality(S) \in Nat /\ Small(Cardinality(S)) = SUBSET S
  BY <1>1, FS_CardinalityType
<1>7. PICK g \in [Small(Cardinality(S)) -> X] :
         \A s \in Small(Cardinality(S)) : g[s] = Step(g, s)
  BY <1>5, <1>6
<1> QED BY <1>6, <1>7 DEF FoldsOver

---------------------------------------------------------------------------
(* Sums, SumFunctionOnSet of the community modules, of integers *)

Values(f, S) == \A x \in S : f[x] \in Int
Choice(s) == CHOOSE x \in s : TRUE
\* g sums f over every subset of S, an element at a time.
Sums(g, f, S) ==
    \A s \in SUBSET S : g[s] = IF s = {} THEN 0 ELSE f[Choice(s)] + g[s \ {Choice(s)}]


\* Induction on the size of the subsets of a finite set.
LEMMA AllSubsets ==
    ASSUME NEW S, IsFiniteSet(S), NEW Good,
           \A s \in SUBSET S :
               (\A t \in SUBSET S : Cardinality(t) < Cardinality(s) => t \in Good) => s \in Good
    PROVE  SUBSET S \subseteq Good
<1> DEFINE T == {n \in Nat : \A s \in SUBSET S : Cardinality(s) = n => s \in Good}
<1>1. \A s \in SUBSET S : Cardinality(s) \in Nat
  BY FS_Subset, FS_CardinalityType
<1>2. ASSUME NEW n \in Nat, \A m \in 0..(n - 1) : m \in T PROVE n \in T
  <2>1. ASSUME NEW s \in SUBSET S, Cardinality(s) = n PROVE s \in Good
    <3>1. ASSUME NEW t \in SUBSET S, Cardinality(t) < n PROVE t \in Good
      <4>1. Cardinality(t) \in 0..(n - 1)
        BY <1>1, <3>1, SMT
      <4> QED BY <4>1, <1>2
    <3> QED BY <3>1, <2>1
  <2> QED BY <2>1
<1>3. Nat \subseteq T
  <2> HIDE DEF T
  <2> QED BY <1>2, AllNat
<1> QED BY <1>1, <1>3

\* An element fewer is a smaller set.
LEMMA Smaller ==
    ASSUME NEW S, IsFiniteSet(S), NEW s \in SUBSET S, NEW x \in s
    PROVE  /\ s \ {x} \in SUBSET S
           /\ Cardinality(s \ {x}) < Cardinality(s)
<1>1. IsFiniteSet(s) /\ Cardinality(s) \in Nat
  BY FS_Subset, FS_CardinalityType
<1>2. Cardinality(s \ {x}) = Cardinality(s) - 1
  BY <1>1, FS_RemoveElement
<1> QED BY <1>1, <1>2, SMT

\* There is one such g.
LEMMA SumsUnique ==
    ASSUME NEW S, IsFiniteSet(S), NEW T \in SUBSET S, NEW f, NEW g, NEW h,
           Sums(g, f, S), Sums(h, f, T)
    PROVE  \A s \in SUBSET T : g[s] = h[s]
<1> DEFINE Good == {s \in SUBSET T : g[s] = h[s]}
<1>1. ASSUME NEW s \in SUBSET T,
             \A t \in SUBSET T : Cardinality(t) < Cardinality(s) => t \in Good
      PROVE  s \in Good
  <2>1. CASE s = {}
    BY <2>1 DEF Sums
  <2>2. CASE s # {}
    <3>1. Choice(s) \in s
      BY <2>2 DEF Choice
    <3>2. s \ {Choice(s)} \in Good
      BY <3>1, <1>1, Smaller, FS_Subset
    <3>3. g[s] = f[Choice(s)] + g[s \ {Choice(s)}]
      BY <2>2 DEF Sums
    <3>4. h[s] = f[Choice(s)] + h[s \ {Choice(s)}]
      BY <2>2 DEF Sums
    <3> QED BY <3>2, <3>3, <3>4
  <2> QED BY <2>1, <2>2
<1>2. SUBSET T \subseteq Good
  <2>1. IsFiniteSet(T)
    BY FS_Subset
  <2> HIDE DEF Good
  <2> QED BY <1>1, <2>1, AllSubsets
<1> QED BY <1>2

\* The library's sum is the value of such a g.
LEMMA SumIter ==
    ASSUME NEW S, IsFiniteSet(S), NEW f, Values(f, S)
    PROVE  \E g \in [SUBSET S -> Int] : Sums(g, f, S) /\ SumFunctionOnSet(f, S) = g[S]
<1> DEFINE c == [s \in SUBSET S |-> Choice(s)]
           F == [p \in S \X Int |-> f[p[1]] + p[2]]
           Unfold(g) == [s \in SUBSET S |-> IF s = {} THEN 0
                                            ELSE f[Choice(s)] + g[s \ {Choice(s)}]]
           iter == CHOOSE g : g = Unfold(g)
<1>1. \A s \in SUBSET S : s # {} => c[s] \in s
  BY DEF Choice
<1>2. F \in [S \X Int -> Int]
  BY DEF Values
<1>3. PICK g \in [SUBSET S -> Int] : FoldsOver(g, F, 0, c, S)
  <2> DEFINE zero == 0
             Z == Int
  <2>1. zero \in Z /\ F \in [S \X Z -> Z]
    BY <1>2
  <2> HIDE DEF c, F, zero, Z
  <2>2. \E g \in [SUBSET S -> Z] : FoldsOver(g, F, zero, c, S)
    BY <1>1, <2>1, FoldExists
  <2> QED BY <2>2 DEF zero, Z
<1>4. ASSUME NEW s \in SUBSET S, s # {}
      PROVE  F[<<c[s], g[s \ {c[s]}]>>] = f[Choice(s)] + g[s \ {Choice(s)}]
  BY <1>1, <1>3, <1>4
<1>5. g = Unfold(g)
  <2> HIDE DEF c, F
  <2> QED BY <1>3, <1>4 DEF FoldsOver
<1>6. iter = Unfold(iter)
  BY <1>5
<1>7. Sums(iter, f, S)
  BY <1>6 DEF Sums
<1>8. SumFunctionOnSet(f, S) = iter[S]
  BY DEF SumFunctionOnSet, FoldFunctionOnSet, MapThenFoldSet, Choice
<1>9. Sums(g, f, S)
  BY <1>5 DEF Sums
<1>10. iter[S] = g[S]
  <2> HIDE DEF iter
  <2> QED BY <1>7, <1>9, SumsUnique
<1> QED BY <1>8, <1>9, <1>10

\* Taking off any element takes off its value, whichever the library takes.
LEMMA SumStep ==
    ASSUME NEW S, IsFiniteSet(S), NEW f, Values(f, S), NEW x \in S
    PROVE  SumFunctionOnSet(f, S) = f[x] + SumFunctionOnSet(f, S \ {x})
<1>1. PICK g \in [SUBSET S -> Int] : Sums(g, f, S) /\ SumFunctionOnSet(f, S) = g[S]
  BY SumIter
<1> DEFINE Good == {s \in SUBSET S : \A y \in s : g[s] = f[y] + g[s \ {y}]}
<1>2. ASSUME NEW s \in SUBSET S,
             \A t \in SUBSET S : Cardinality(t) < Cardinality(s) => t \in Good
      PROVE  s \in Good
  <2>1. SUFFICES ASSUME NEW y \in s PROVE g[s] = f[y] + g[s \ {y}]
    OBVIOUS
  <2> DEFINE z == Choice(s)
  <2>2. z \in s /\ g[s] = f[z] + g[s \ {z}]
    BY <1>1 DEF Sums, Choice
  <2> HIDE DEF z
  <2>3. CASE y = z
    BY <2>2, <2>3
  <2>4. CASE y # z
    <3>1. s \ {z} \in Good /\ s \ {y} \in Good
      BY <1>2, <2>2, Smaller
    <3>2. g[s \ {z}] = f[y] + g[(s \ {z}) \ {y}]
      BY <3>1, <2>4
    <3>3. g[s \ {y}] = f[z] + g[(s \ {y}) \ {z}]
      BY <3>1, <2>2, <2>4
    <3>4. (s \ {z}) \ {y} = (s \ {y}) \ {z}
      OBVIOUS
    <3>5. f[y] \in Int /\ f[z] \in Int /\ g[(s \ {y}) \ {z}] \in Int
      BY <2>2 DEF Values
    <3>6. g[(s \ {z}) \ {y}] = g[(s \ {y}) \ {z}]
      BY <3>4
    <3> DEFINE r == g[(s \ {y}) \ {z}]
               a == g[s \ {y}]
               b == g[s \ {z}]
    <3>7. /\ g[s] = f[z] + b /\ b = f[y] + r /\ a = f[z] + r
          /\ f[y] \in Int /\ f[z] \in Int /\ r \in Int
      BY <2>2, <3>2, <3>3, <3>5, <3>6
    <3>8. g[s] = f[y] + a
      <4> HIDE DEF r, a, b
      <4> QED BY <3>7, SMT
    <3> QED BY <3>8
  <2> QED BY <2>3, <2>4
<1>3. SUBSET S \subseteq Good
  <2> HIDE DEF Good
  <2> QED BY <1>2, AllSubsets
<1>4. S \ {x} \in SUBSET S /\ IsFiniteSet(S \ {x}) /\ Values(f, S \ {x})
  BY FS_RemoveElement DEF Values
<1>5. PICK h \in [SUBSET (S \ {x}) -> Int] :
        Sums(h, f, S \ {x}) /\ SumFunctionOnSet(f, S \ {x}) = h[S \ {x}]
  BY <1>4, SumIter
<1>6. g[S \ {x}] = h[S \ {x}]
  BY <1>1, <1>4, <1>5, SumsUnique
<1> QED BY <1>1, <1>3, <1>5, <1>6

LEMMA SumEmpty == ASSUME NEW f PROVE SumFunctionOnSet(f, {}) = 0
<1>1. PICK g \in [SUBSET {} -> Int] : Sums(g, f, {}) /\ SumFunctionOnSet(f, {}) = g[{}]
  BY SumIter, FS_EmptySet DEF Values
<1> QED BY <1>1 DEF Sums

LEMMA SumType ==
    ASSUME NEW S, IsFiniteSet(S), NEW f, Values(f, S)
    PROVE  SumFunctionOnSet(f, S) \in Int
<1>1. PICK g \in [SUBSET S -> Int] : SumFunctionOnSet(f, S) = g[S]
  BY SumIter
<1> QED BY <1>1

\* Where one function is at most another, so is its sum.
LEMMA SumMono ==
    ASSUME NEW S, IsFiniteSet(S), NEW f, NEW h, Values(f, S), Values(h, S),
           \A x \in S : f[x] <= h[x]
    PROVE  SumFunctionOnSet(f, S) <= SumFunctionOnSet(h, S)
<1> DEFINE Sum(k, s) == SumFunctionOnSet(k, s)
           Good == {s \in SUBSET S : Sum(f, s) <= Sum(h, s)}
<1>0. \A s \in SUBSET S : /\ IsFiniteSet(s) /\ Values(f, s) /\ Values(h, s)
                          /\ Sum(f, s) \in Int /\ Sum(h, s) \in Int
  BY FS_Subset, SumType DEF Values
<1>1. ASSUME NEW s \in SUBSET S,
             \A t \in SUBSET S : Cardinality(t) < Cardinality(s) => t \in Good
      PROVE  s \in Good
  <2>1. CASE s = {}
    BY <2>1, SumEmpty
  <2>2. CASE s # {}
    <3>1. PICK y \in s : TRUE
      BY <2>2
    <3>2. s \ {y} \in Good
      BY <1>1, Smaller
    <3>3. Sum(f, s) = f[y] + Sum(f, s \ {y}) /\ Sum(h, s) = h[y] + Sum(h, s \ {y})
      BY <1>0, SumStep
    <3>4. f[y] \in Int /\ h[y] \in Int /\ f[y] <= h[y]
      BY DEF Values
    <3>5. Sum(f, s \ {y}) \in Int /\ Sum(h, s \ {y}) \in Int
      BY <1>0, <3>2
    <3> HIDE DEF Sum
    <3> QED BY <3>2, <3>3, <3>4, <3>5
  <2> QED BY <2>1, <2>2
<1>2. SUBSET S \subseteq Good
  <2> HIDE DEF Good
  <2> QED BY <1>1, AllSubsets
<1> QED BY <1>2

\* Functions that agree have the same sum.
LEMMA SumSame ==
    ASSUME NEW S, IsFiniteSet(S), NEW f, NEW h, Values(f, S), \A x \in S : f[x] = h[x]
    PROVE  SumFunctionOnSet(f, S) = SumFunctionOnSet(h, S)
<1>1. Values(h, S) /\ \A x \in S : f[x] <= h[x] /\ h[x] <= f[x]
  BY DEF Values
<1>2. SumFunctionOnSet(f, S) <= SumFunctionOnSet(h, S)
  BY <1>1, SumMono
<1>3. SumFunctionOnSet(h, S) <= SumFunctionOnSet(f, S)
  BY <1>1, SumMono
<1>4. SumFunctionOnSet(f, S) \in Int /\ SumFunctionOnSet(h, S) \in Int
  BY <1>1, SumType
<1> QED BY <1>2, <1>3, <1>4

LEMMA SumZero ==
    ASSUME NEW S, IsFiniteSet(S), NEW f, Values(f, S), \A x \in S : f[x] = 0
    PROVE  SumFunctionOnSet(f, S) = 0
<1> DEFINE Good == {s \in SUBSET S : SumFunctionOnSet(f, s) = 0}
<1>1. ASSUME NEW s \in SUBSET S,
             \A t \in SUBSET S : Cardinality(t) < Cardinality(s) => t \in Good
      PROVE  s \in Good
  <2>1. CASE s = {}
    BY <2>1, SumEmpty
  <2>2. CASE s # {}
    <3>1. PICK y \in s : TRUE
      BY <2>2
    <3>2. s \ {y} \in Good
      BY <1>1, Smaller
    <3>3. SumFunctionOnSet(f, s) = f[y] + SumFunctionOnSet(f, s \ {y})
      BY FS_Subset, SumStep DEF Values
    <3> QED BY <3>2, <3>3
  <2> QED BY <2>1, <2>2
<1>2. SUBSET S \subseteq Good
  <2> HIDE DEF Good
  <2> QED BY <1>1, AllSubsets
<1> QED BY <1>2

LEMMA SumNat ==
    ASSUME NEW S, IsFiniteSet(S), NEW f, Values(f, S), \A x \in S : f[x] >= 0
    PROVE  SumFunctionOnSet(f, S) >= 0
<1> DEFINE zero == [x \in S |-> 0]
<1>1. Values(zero, S) /\ \A x \in S : zero[x] = 0 /\ zero[x] <= f[x]
  BY DEF Values
<1> HIDE DEF zero
<1>2. SumFunctionOnSet(zero, S) = 0 /\ SumFunctionOnSet(zero, S) <= SumFunctionOnSet(f, S)
  BY <1>1, SumZero, SumMono
<1> QED BY <1>2, SumType

\* A change of one value changes the sum by as much.
LEMMA SumUpdate ==
    ASSUME NEW S, IsFiniteSet(S), NEW f, NEW h, Values(f, S), NEW x \in S, h[x] \in Int,
           \A y \in S \ {x} : f[y] = h[y]
    PROVE  SumFunctionOnSet(h, S) = SumFunctionOnSet(f, S) - f[x] + h[x]
<1>1. Values(h, S) /\ Values(f, S \ {x}) /\ IsFiniteSet(S \ {x})
  BY FS_RemoveElement DEF Values
<1>2. SumFunctionOnSet(f, S \ {x}) = SumFunctionOnSet(h, S \ {x})
  BY <1>1, SumSame
<1>3. SumFunctionOnSet(f, S \ {x}) \in Int
  BY <1>1, SumType
<1>4. SumFunctionOnSet(f, S) = f[x] + SumFunctionOnSet(f, S \ {x})
  BY SumStep
<1>5. SumFunctionOnSet(h, S) = h[x] + SumFunctionOnSet(h, S \ {x})
  BY <1>1, SumStep
<1> QED BY <1>2, <1>3, <1>4, <1>5 DEF Values

\* A sum splits over disjoint sets.
LEMMA SumSplit ==
    ASSUME NEW S, IsFiniteSet(S), NEW f, Values(f, S), NEW T \in SUBSET S
    PROVE  SumFunctionOnSet(f, S) = SumFunctionOnSet(f, T) + SumFunctionOnSet(f, S \ T)
<1> DEFINE Sum(s) == SumFunctionOnSet(f, s)
           Good == {t \in SUBSET S : Sum(S) = Sum(t) + Sum(S \ t)}
<1>0. \A s \in SUBSET S : IsFiniteSet(s) /\ Values(f, s) /\ Sum(s) \in Int
  BY FS_Subset, SumType DEF Values
<1>1. ASSUME NEW s \in SUBSET S,
             \A t \in SUBSET S : Cardinality(t) < Cardinality(s) => t \in Good
      PROVE  s \in Good
  <2>1. CASE s = {}
    BY <2>1, <1>0, SumEmpty
  <2>2. CASE s # {}
    <3>1. PICK y \in s : TRUE
      BY <2>2
    <3>2. Sum(S) = Sum(s \ {y}) + Sum(S \ (s \ {y}))
      BY <1>1, Smaller
    <3>3. Sum(s) = f[y] + Sum(s \ {y})
      BY <1>0, SumStep
    <3>4. Sum(S \ (s \ {y})) = f[y] + Sum(S \ s)
      <4>1. y \in S \ (s \ {y}) /\ (S \ (s \ {y})) \ {y} = S \ s /\ S \ (s \ {y}) \in SUBSET S
        OBVIOUS
      <4>2. IsFiniteSet(S \ (s \ {y})) /\ Values(f, S \ (s \ {y}))
        BY <1>0, <4>1
      <4>3. Sum(S \ (s \ {y})) = f[y] + Sum((S \ (s \ {y})) \ {y})
        BY <4>1, <4>2, SumStep
      <4> QED BY <4>1, <4>3
    <3>5. f[y] \in Int /\ Sum(s \ {y}) \in Int /\ Sum(S \ s) \in Int
      BY <1>0 DEF Values
    <3> HIDE DEF Sum
    <3> QED BY <3>2, <3>3, <3>4, <3>5
  <2> QED BY <2>1, <2>2
<1>2. SUBSET S \subseteq Good
  <2> HIDE DEF Good
  <2> QED BY <1>1, AllSubsets
<1> QED BY <1>2

\* Of two sets of one size, the one whose every value is at most every value of
\* the other has the lower sum.
LEMMA SumDominated ==
    ASSUME NEW S, IsFiniteSet(S), NEW T, IsFiniteSet(T), Cardinality(S) = Cardinality(T),
           NEW f, Values(f, S), Values(f, T), \A x \in S, y \in T : f[x] <= f[y]
    PROVE  SumFunctionOnSet(f, S) <= SumFunctionOnSet(f, T)
<1> DEFINE Sum(s) == SumFunctionOnSet(f, s)
           Good == {s \in SUBSET S :
                       \A t \in SUBSET T : Cardinality(t) = Cardinality(s) => Sum(s) <= Sum(t)}
<1>0. /\ \A s \in SUBSET S : /\ IsFiniteSet(s) /\ Values(f, s) /\ Sum(s) \in Int
                             /\ Cardinality(s) \in Nat
      /\ \A t \in SUBSET T : /\ IsFiniteSet(t) /\ Values(f, t) /\ Sum(t) \in Int
                             /\ Cardinality(t) \in Nat
  BY FS_Subset, FS_CardinalityType, SumType DEF Values
<1>1. ASSUME NEW s \in SUBSET S,
             \A u \in SUBSET S : Cardinality(u) < Cardinality(s) => u \in Good
      PROVE  s \in Good
  <2> SUFFICES ASSUME NEW t \in SUBSET T, Cardinality(t) = Cardinality(s)
               PROVE  Sum(s) <= Sum(t)
    OBVIOUS
  <2>1. CASE s = {}
    <3>1. t = {}
      BY <1>0, <2>1, FS_EmptySet
    <3> QED BY <1>0, <2>1, <3>1
  <2>2. CASE s # {}
    <3>1. PICK x \in s : TRUE
      BY <2>2
    <3>2. t # {}
      BY <1>0, <2>2, FS_EmptySet
    <3>3. PICK y \in t : TRUE
      BY <3>2
    <3>4. Cardinality(t \ {y}) = Cardinality(t) - 1 /\ Cardinality(s \ {x}) = Cardinality(s) - 1
      BY <1>0, FS_RemoveElement
    <3>5. s \ {x} \in Good
      BY <1>1, Smaller
    <3>6. Sum(s \ {x}) <= Sum(t \ {y})
      BY <3>4, <3>5
    <3>7. Sum(s) = f[x] + Sum(s \ {x}) /\ Sum(t) = f[y] + Sum(t \ {y})
      BY <1>0, SumStep
    <3>8. f[x] \in Int /\ f[y] \in Int /\ f[x] <= f[y]
      BY DEF Values
    <3>9. Sum(s \ {x}) \in Int /\ Sum(t \ {y}) \in Int
      BY <1>0
    <3> HIDE DEF Sum
    <3> QED BY <3>6, <3>7, <3>8, <3>9
  <2> QED BY <2>1, <2>2
<1>2. SUBSET S \subseteq Good
  <2> HIDE DEF Good
  <2> QED BY <1>1, AllSubsets
<1>3. S \in Good
  BY <1>2
<1> QED BY <1>3

\* The sum over two sets that share nothing.
LEMMA SumUnion ==
    ASSUME NEW S, IsFiniteSet(S), NEW T, IsFiniteSet(T), S \cap T = {},
           NEW f, Values(f, S), Values(f, T)
    PROVE  /\ IsFiniteSet(S \cup T) /\ Values(f, S \cup T)
           /\ SumFunctionOnSet(f, S \cup T) = SumFunctionOnSet(f, S) + SumFunctionOnSet(f, T)
<1>1. IsFiniteSet(S \cup T) /\ Values(f, S \cup T)
  BY FS_Union DEF Values
<1>2. S \in SUBSET (S \cup T) /\ (S \cup T) \ S = T
  OBVIOUS
<1>3. SumFunctionOnSet(f, S \cup T) = SumFunctionOnSet(f, S) + SumFunctionOnSet(f, (S \cup T) \ S)
  BY <1>1, <1>2, SumSplit
<1> QED BY <1>1, <1>2, <1>3

\* With values that are not negative, a part sums to no more than the whole, and a
\* union to no more than its parts together.
LEMMA SumPart ==
    ASSUME NEW S, IsFiniteSet(S), NEW T \in SUBSET S, NEW f, Values(f, S), \A x \in S : f[x] >= 0
    PROVE  SumFunctionOnSet(f, T) <= SumFunctionOnSet(f, S)
<1>1. \A U \in SUBSET S : /\ IsFiniteSet(U) /\ Values(f, U) /\ SumFunctionOnSet(f, U) \in Int
                          /\ SumFunctionOnSet(f, U) >= 0
  BY FS_Subset, SumType, SumNat DEF Values
<1>2. SumFunctionOnSet(f, S) = SumFunctionOnSet(f, T) + SumFunctionOnSet(f, S \ T)
  BY SumSplit
<1>3. S \ T \in SUBSET S
  OBVIOUS
<1> QED BY <1>1, <1>2, <1>3

LEMMA SumCover ==
    ASSUME NEW S, IsFiniteSet(S), NEW T, IsFiniteSet(T),
           NEW f, Values(f, S), Values(f, T), \A x \in S \cup T : f[x] >= 0
    PROVE  SumFunctionOnSet(f, S \cup T) <= SumFunctionOnSet(f, S) + SumFunctionOnSet(f, T)
<1> DEFINE U == T \ S
<1>1. IsFiniteSet(U) /\ Values(f, U) /\ S \cap U = {} /\ S \cup U = S \cup T /\ U \in SUBSET T
  BY FS_Subset DEF Values
<1>2. SumFunctionOnSet(f, S \cup U) = SumFunctionOnSet(f, S) + SumFunctionOnSet(f, U)
  BY <1>1, SumUnion
<1>3. SumFunctionOnSet(f, U) <= SumFunctionOnSet(f, T)
  BY <1>1, SumPart
<1>4. /\ SumFunctionOnSet(f, S) \in Int /\ SumFunctionOnSet(f, U) \in Int
      /\ SumFunctionOnSet(f, T) \in Int
  BY <1>1, SumType
<1>5. SumFunctionOnSet(f, S \cup T) = SumFunctionOnSet(f, S) + SumFunctionOnSet(f, U)
  BY <1>1, <1>2, Zenon
<1> HIDE DEF U
<1> QED BY <1>3, <1>4, <1>5

\* Sums are linear.
LEMMA Distribute ==
    \A a, b, x, y, u, v \in Int :
        /\ a * x \in Int /\ b * y \in Int
        /\ (a * x + b * y) + (a * u + b * v) = a * (x + u) + b * (y + v)
  BY SMT

LEMMA SumLinear ==
    ASSUME NEW S, IsFiniteSet(S), NEW f, Values(f, S), NEW g, Values(g, S),
           NEW a \in Int, NEW b \in Int, NEW h, \A x \in S : h[x] = a * f[x] + b * g[x]
    PROVE  /\ Values(h, S)
           /\ SumFunctionOnSet(h, S) = a * SumFunctionOnSet(f, S) + b * SumFunctionOnSet(g, S)
<1> DEFINE Sum(k, s) == SumFunctionOnSet(k, s)
           Good == {s \in SUBSET S : Sum(h, s) = a * Sum(f, s) + b * Sum(g, s)}
<1>0. Values(h, S)
  <2>1. \A x, y \in Int : a * x + b * y \in Int
    BY Distribute
  <2> QED BY <2>1 DEF Values
<1>1. \A s \in SUBSET S :
         /\ IsFiniteSet(s) /\ Values(f, s) /\ Values(g, s) /\ Values(h, s)
         /\ Sum(f, s) \in Int /\ Sum(g, s) \in Int /\ Sum(h, s) \in Int
  BY <1>0, FS_Subset, SumType DEF Values
<1>2. ASSUME NEW s \in SUBSET S,
             \A t \in SUBSET S : Cardinality(t) < Cardinality(s) => t \in Good
      PROVE  s \in Good
  <2>1. CASE s = {}
    BY <2>1, SumEmpty
  <2>2. CASE s # {}
    <3>1. PICK y \in s : TRUE
      BY <2>2
    <3>2. s \ {y} \in Good
      BY <1>2, Smaller
    <3>3. /\ Sum(f, s) = f[y] + Sum(f, s \ {y}) /\ Sum(g, s) = g[y] + Sum(g, s \ {y})
          /\ Sum(h, s) = h[y] + Sum(h, s \ {y})
      BY <1>1, SumStep
    <3>4. f[y] \in Int /\ g[y] \in Int /\ h[y] = a * f[y] + b * g[y]
      BY DEF Values
    <3>5. Sum(f, s \ {y}) \in Int /\ Sum(g, s \ {y}) \in Int
      BY <1>1, <3>2
    <3>6. Sum(h, s \ {y}) = a * Sum(f, s \ {y}) + b * Sum(g, s \ {y})
      BY <3>2
    <3> HIDE DEF Sum
    <3>7. Sum(h, s) = (a * f[y] + b * g[y]) + (a * Sum(f, s \ {y}) + b * Sum(g, s \ {y}))
      BY <3>3, <3>4, <3>6
    <3>8. Sum(h, s) = a * (f[y] + Sum(f, s \ {y})) + b * (g[y] + Sum(g, s \ {y}))
      BY <3>4, <3>5, <3>7, Distribute
    <3>9. Sum(h, s) = a * Sum(f, s) + b * Sum(g, s)
      BY <3>3, <3>8
    <3> QED BY <3>9
  <2> QED BY <2>1, <2>2
<1>3. SUBSET S \subseteq Good
  <2> HIDE DEF Good
  <2> QED BY <1>2, AllSubsets
<1> QED BY <1>0, <1>3

LEMMA SumTimes ==
    ASSUME NEW S, IsFiniteSet(S), NEW f, Values(f, S), NEW a \in Int,
           NEW h, \A x \in S : h[x] = a * f[x]
    PROVE  Values(h, S) /\ SumFunctionOnSet(h, S) = a * SumFunctionOnSet(f, S)
<1> DEFINE b == 0
<1>1. b \in Int /\ \A x \in Int : a * x + b * x = a * x
  BY SMT
<1> HIDE DEF b
<1>2. \A x \in S : h[x] = a * f[x] + b * f[x]
  BY <1>1 DEF Values
<1>3. Values(h, S) /\ SumFunctionOnSet(h, S) = a * SumFunctionOnSet(f, S) + b * SumFunctionOnSet(f, S)
  BY <1>1, <1>2, SumLinear
<1>4. SumFunctionOnSet(f, S) \in Int
  BY SumType
<1> QED BY <1>1, <1>3, <1>4

LEMMA SumPlus ==
    ASSUME NEW S, IsFiniteSet(S), NEW f, Values(f, S), NEW g, Values(g, S),
           NEW h, \A x \in S : h[x] = f[x] + g[x]
    PROVE  Values(h, S) /\ SumFunctionOnSet(h, S) = SumFunctionOnSet(f, S) + SumFunctionOnSet(g, S)
<1> DEFINE a == 1
<1>1. a \in Int /\ \A x, y \in Int : a * x + a * y = x + y
  BY SMT
<1>2. \A x \in S : h[x] = a * f[x] + a * g[x]
  BY <1>1 DEF Values
<1> HIDE DEF a
<1>3. Values(h, S) /\ SumFunctionOnSet(h, S) = a * SumFunctionOnSet(f, S) + a * SumFunctionOnSet(g, S)
  BY <1>1, <1>2, SumLinear
<1>4. SumFunctionOnSet(f, S) \in Int /\ SumFunctionOnSet(g, S) \in Int
  BY SumType
<1> QED BY <1>1, <1>3, <1>4

\* m maps the elements of S one to one to elements where h is what f is of theirs.
Renames(m, S, f, h) ==
    \A x \in S : h[m[x]] = f[x] /\ \A y \in S : m[x] = m[y] => x = y

\* Renaming the elements one to one does not change the sum.
LEMMA SumImage ==
    ASSUME NEW S, IsFiniteSet(S), NEW f, Values(f, S), NEW m, NEW h,
           Renames(m, S, f, h), NEW T, T = {m[x] : x \in S}
    PROVE  /\ IsFiniteSet(T) /\ Values(h, T)
           /\ SumFunctionOnSet(h, T) = SumFunctionOnSet(f, S)
<1> DEFINE Image(s) == {m[x] : x \in s}
           Good == {s \in SUBSET S : /\ IsFiniteSet(Image(s)) /\ Values(h, Image(s))
                                     /\ SumFunctionOnSet(h, Image(s)) = SumFunctionOnSet(f, s)}
<1>0. /\ \A x \in S : h[m[x]] = f[x]
      /\ \A x, y \in S : m[x] = m[y] => x = y
  BY DEF Renames
<1>1. ASSUME NEW s \in SUBSET S,
             \A t \in SUBSET S : Cardinality(t) < Cardinality(s) => t \in Good
      PROVE  s \in Good
  <2>1. CASE s = {}
    BY <2>1, SumEmpty, FS_EmptySet DEF Values
  <2>2. CASE s # {}
    <3>1. PICK y \in s : TRUE
      BY <2>2
    <3>2. s \ {y} \in Good
      BY <1>1, Smaller
    <3>3. /\ m[y] \notin Image(s \ {y}) /\ Image(s) = Image(s \ {y}) \cup {m[y]}
          /\ Image(s) \ {m[y]} = Image(s \ {y}) /\ m[y] \in Image(s)
      BY <1>0
    <3>4. IsFiniteSet(Image(s)) /\ Values(h, Image(s))
      <4>1. IsFiniteSet(Image(s))
        <5>1. IsFiniteSet(Image(s \ {y})) /\ Image(s) = Image(s \ {y}) \cup {m[y]}
          BY <3>2, <3>3
        <5> HIDE DEF Image, Good
        <5>2. IsFiniteSet(Image(s \ {y}) \cup {m[y]})
          BY <5>1, FS_AddElement, Zenon
        <5> QED BY <5>1, <5>2
      <4>2. h[m[y]] \in Int
        BY <1>0 DEF Values
      <4> QED BY <3>2, <3>3, <4>1, <4>2 DEF Values
    <3>5. SumFunctionOnSet(h, Image(s)) = h[m[y]] + SumFunctionOnSet(h, Image(s) \ {m[y]})
      BY <3>3, <3>4, SumStep
    <3>6. SumFunctionOnSet(f, s) = f[y] + SumFunctionOnSet(f, s \ {y})
      <4>1. IsFiniteSet(s) /\ Values(f, s)
        BY FS_Subset DEF Values
      <4> QED BY <4>1, SumStep
    <3> HIDE DEF Image
    <3> QED BY <1>0, <3>2, <3>3, <3>4, <3>5, <3>6
  <2> QED BY <2>1, <2>2
<1>2. SUBSET S \subseteq Good
  <2> HIDE DEF Good
  <2> QED BY <1>1, AllSubsets
<1> QED BY <1>2

\* A sum over elements of which each group sums up to at most c.
LEMMA SumByGroup ==
    ASSUME NEW S, IsFiniteSet(S), NEW f, Values(f, S), NEW T, IsFiniteSet(T),
           NEW key, \A x \in S : key[x] \in T, NEW c \in Nat,
           \A b \in T : SumFunctionOnSet(f, {x \in S : key[x] = b}) <= c
    PROVE  SumFunctionOnSet(f, S) <= c * Cardinality(T)
<1> DEFINE Of(U) == {x \in S : key[x] \in U}
           Group(b) == {x \in S : key[x] = b}
           Sum(s) == SumFunctionOnSet(f, s)
           Good == {U \in SUBSET T : Sum(Of(U)) <= c * Cardinality(U)}
<1>0. \A s \in SUBSET S : IsFiniteSet(s) /\ Values(f, s) /\ Sum(s) \in Int
  BY FS_Subset, SumType DEF Values
<1>1. ASSUME NEW U \in SUBSET T,
             \A V \in SUBSET T : Cardinality(V) < Cardinality(U) => V \in Good
      PROVE  U \in Good
  <2>1. CASE U = {}
    <3>1. Of(U) = {} /\ Sum({}) = 0 /\ Cardinality(U) = 0
      BY <2>1, SumEmpty, FS_EmptySet
    <3>2. c * 0 = 0
      OBVIOUS
    <3> HIDE DEF Of, Sum
    <3> QED BY <3>1, <3>2
  <2>2. CASE U # {}
    <3>1. PICK b \in U : TRUE
      BY <2>2
    <3> DEFINE V == U \ {b}
    <3>2. V \in SUBSET T /\ Cardinality(V) < Cardinality(U)
      BY <3>1, Smaller
    <3>3. Sum(Of(V)) <= c * Cardinality(V)
      BY <1>1, <3>2
    <3>4. Cardinality(U) = Cardinality(V) + 1 /\ Cardinality(V) \in Nat
      <4>1. IsFiniteSet(V) /\ b \notin V /\ U = V \cup {b}
        BY <3>1, FS_Subset
      <4> HIDE DEF V
      <4> QED BY <4>1, FS_AddElement, FS_CardinalityType
    <3>5. /\ Of(V) \in SUBSET S /\ Group(b) \in SUBSET S
          /\ Of(V) \cap Group(b) = {} /\ Of(U) = Of(V) \cup Group(b)
      BY <3>1
    <3>6. Sum(Group(b)) <= c
      BY <3>1
    <3> HIDE DEF V, Of, Group
    <3>7. Sum(Of(U)) = Sum(Of(V)) + Sum(Group(b))
      BY <1>0, <3>5, SumUnion
    <3>8. Sum(Of(V)) \in Int /\ Sum(Group(b)) \in Int
      BY <1>0, <3>5
    <3>9. c * (Cardinality(V) + 1) = c * Cardinality(V) + c /\ c * Cardinality(V) \in Int
      <4>1. \A n \in Nat : c * (n + 1) = c * n + c /\ c * n \in Int
        OBVIOUS
      <4> QED BY <3>4, <4>1
    <3> HIDE DEF Sum
    <3>10. Sum(Of(U)) <= c * Cardinality(U)
      BY <3>3, <3>4, <3>6, <3>7, <3>8, <3>9
    <3> QED BY <3>10
  <2> QED BY <2>1, <2>2
<1>2. T \in Good
  <2> HIDE DEF Good
  <2>1. SUBSET T \subseteq Good
    BY <1>1, AllSubsets
  <2> QED BY <2>1
<1>3. Of(T) = S
  OBVIOUS
<1> QED BY <1>2, <1>3

---------------------------------------------------------------------------
(* Sequences *)

\* A function on 1..n is a sequence.
LEMMA FunctionIsSeq ==
    ASSUME NEW n \in Nat, NEW S, NEW f \in [1..n -> S]
    PROVE  f \in Seq(S)
BY SeqDef

\* A finite set as a sequence: every element at one place.
LEMMA SetAsSequence ==
    ASSUME NEW S, IsFiniteSet(S)
    PROVE  LET q == SetToSeq(S)
           IN  /\ Cardinality(S) \in Nat /\ q \in [1..Cardinality(S) -> S]
               /\ \A i, j \in 1..Cardinality(S) : q[i] = q[j] => i = j
               /\ \A x \in S : \E i \in 1..Cardinality(S) : q[i] = x
<1> DEFINE n == Cardinality(S)
<1>1. n \in Nat /\ ExistsBijection(1..n, S)
  BY FS_CardinalityType
<1>2. \E f \in [1..n -> S] : IsInjective(f)
  BY <1>1 DEF ExistsBijection, Bijection, Injection
<1>3. SetToSeq(S) \in [1..n -> S] /\ IsInjective(SetToSeq(S))
  BY <1>2 DEF SetToSeq
<1>4. SetToSeq(S) \in Injection(1..n, S)
  BY <1>3 DEF Injection
<1>5. Cardinality(1..n) = n
  BY <1>1, FS_Interval
<1>6. SetToSeq(S) \in Surjection(1..n, S)
  BY <1>4, <1>5, FS_Injection
<1> QED BY <1>1, <1>3, <1>6 DEF IsInjective, Surjection
=============================================================================
