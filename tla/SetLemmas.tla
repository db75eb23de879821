------------------------------ MODULE SetLemmas -------------------------------
(***************************************************************************)
(* What the proofs need of numbered things: rows of a table sorted by ID,  *)
(* amounts summed over a set of orders, items moved along a path.  The     *)
(* library's inductions take a predicate as a parameter, which the provers *)
(* cannot instantiate; here it is a set, of naturals or of subsets.        *)
(***************************************************************************)
EXTENDS Integers, Sequences, FiniteSets, Functions, FiniteSetTheorems, NaturalsInduction, TLAPS

(* Induction: a set that has 0 and each successor has all of them.          *)
LEMMA NatSetInduction ==
  ASSUME NEW G, 0 \in G, \A n \in Nat : n \in G => n + 1 \in G
  PROVE  Nat \subseteq G
<1> DEFINE B == Nat \ G
<1> SUFFICES ASSUME B # {} PROVE FALSE
  OBVIOUS
<1>1. PICK n \in B : \A m \in B : ~(<<m, n>> \in OpToRel(<, Nat))
  BY NatLessThanWellFounded, WFMin
<1>2. \A m \in B : ~(m < n)
  BY <1>1 DEF OpToRel
<1>3. n # 0 /\ n - 1 \in Nat /\ (n - 1) + 1 = n
  OBVIOUS
<1>4. n - 1 \in G
  BY <1>2, <1>3
<1> QED BY <1>3, <1>4

(* Each entry is greater than the ones before it.                           *)
Ascending(s) == \A i, j \in DOMAIN s : i < j => s[i] < s[j]

(* A greater number can be put behind an ascending sequence.                *)
LEMMA AscendingGrows ==
  ASSUME NEW k \in Nat, NEW R \in SUBSET Nat, NEW s \in [1..k -> R], Ascending(s),
         NEW m \in Nat, \A x \in R : x < m
  PROVE  \E t \in [1..(k + 1) -> R \cup {m}] : Ascending(t)
<1> DEFINE t == [i \in 1..(k + 1) |-> IF i = k + 1 THEN m ELSE s[i]]
<1>1. ASSUME NEW i \in 1..(k + 1)
      PROVE  IF i = k + 1 THEN t[i] = m ELSE i \in 1..k /\ t[i] = s[i] /\ s[i] \in R
  <2>1. CASE i = k + 1
    BY <2>1
  <2>2. CASE i # k + 1
    <3>1. i \in 1..k
      BY <2>2
    <3> QED BY <2>2, <3>1
  <2> QED BY <2>1, <2>2
<1>2. t \in [1..(k + 1) -> R \cup {m}]
  BY <1>1
<1>3. DOMAIN t = 1..(k + 1) /\ DOMAIN s = 1..k
  OBVIOUS
<1>4. ASSUME NEW i \in 1..(k + 1), NEW j \in 1..(k + 1), i < j
      PROVE  t[i] < t[j]
  <2> HIDE DEF t
  <2>1. i # k + 1
    BY <1>4
  <2>2. t[i] = s[i] /\ s[i] \in R /\ i \in 1..k
    BY <1>1, <2>1
  <2>3. CASE j = k + 1
    BY <1>1, <2>2, <2>3
  <2>4. CASE j # k + 1
    <3>1. t[j] = s[j] /\ j \in 1..k
      BY <1>1, <2>4
    <3> QED BY <1>3, <1>4, <2>2, <3>1 DEF Ascending
  <2> QED BY <2>3, <2>4
<1> HIDE DEF t
<1>5. Ascending(t)
  BY <1>3, <1>4 DEF Ascending
<1> QED BY <1>2, <1>5

(* A set of indices is finite.                                              *)
LEMMA SetOfIndices ==
  ASSUME NEW N \in Nat, NEW S \in SUBSET (1..N)
  PROVE  IsFiniteSet(S) /\ Cardinality(S) \in Nat
<1>1. IsFiniteSet(1..N)
  BY FS_Interval, 1 \in Int, N \in Int
<1>2. IsFiniteSet(S)
  BY <1>1, FS_Subset
<1> QED BY <1>2, FS_CardinalityType

(* Any set of indices can be listed in order: what Orders returns exists.   *)
LEMMA AscendingExists ==
  ASSUME NEW N \in Nat, NEW S \in SUBSET (1..N)
  PROVE  \E s \in [1..Cardinality(S) -> S] : Ascending(s)
<1> DEFINE Has(S2) == \E s \in [1..Cardinality(S2) -> S2] : Ascending(s)
           G == {n \in Nat : \A S2 \in SUBSET (1..n) : Has(S2)}
<1>1. 0 \in G
  <2>1. \A S2 \in SUBSET (1..0) : S2 = {}
    OBVIOUS
  <2>2. Has({})
    <3>1. Cardinality({}) = 0 /\ 1..0 = {}
      BY FS_EmptySet
    <3>2. [i \in 1..0 |-> 1] \in [1..Cardinality({}) -> {}]
      BY <3>1
    <3>3. Ascending([i \in 1..0 |-> 1])
      BY <3>1 DEF Ascending
    <3> QED BY <3>2, <3>3
  <2> HIDE DEF Has
  <2> QED BY <2>1, <2>2
<1>2. ASSUME NEW n \in Nat, n \in G PROVE n + 1 \in G
  <2> SUFFICES ASSUME NEW S2 \in SUBSET (1..(n + 1)) PROVE Has(S2)
    OBVIOUS
  <2>1. CASE n + 1 \notin S2
    <3>1. S2 \in SUBSET (1..n)
      BY <2>1
    <3> QED BY <1>2, <3>1
  <2>2. CASE n + 1 \in S2
    <3> DEFINE R == S2 \ {n + 1}
    <3>1. R \in SUBSET (1..n) /\ S2 = R \cup {n + 1} /\ n + 1 \notin R
      BY <2>2
    <3>2. PICK s \in [1..Cardinality(R) -> R] : Ascending(s)
      BY <1>2, <3>1
    <3>3. IsFiniteSet(R)
      BY <3>1, SetOfIndices
    <3>4. Cardinality(R) \in Nat /\ Cardinality(S2) = Cardinality(R) + 1
      BY <3>1, <3>3, FS_CardinalityType, FS_AddElement
    <3>5. \E t \in [1..(Cardinality(R) + 1) -> R \cup {n + 1}] : Ascending(t)
      <4>1. R \in SUBSET Nat /\ n + 1 \in Nat /\ \A x \in R : x < n + 1
        BY <3>1
      <4> HIDE DEF R
      <4> QED BY <3>2, <3>4, <4>1, AscendingGrows
    <3> HIDE DEF R
    <3> QED BY <3>1, <3>4, <3>5
  <2> QED BY <2>1, <2>2
<1>3. N \in G
  <2> HIDE DEF G
  <2> QED BY <1>1, <1>2, NatSetInduction
<1> QED BY <1>3

(* A list as long as the set has all of it, and nothing twice.              *)
LEMMA AscendingIsWhole ==
  ASSUME NEW N \in Nat, NEW S \in SUBSET (1..N),
         NEW s \in [1..Cardinality(S) -> S], Ascending(s)
  PROVE  /\ Cardinality(S) \in Nat
         /\ \A x \in S : \E i \in 1..Cardinality(S) : s[i] = x
         /\ \A i, j \in 1..Cardinality(S) : s[i] = s[j] => i = j
<1>1. IsFiniteSet(S) /\ Cardinality(S) \in Nat
  BY SetOfIndices
<1>2. \A i, j \in 1..Cardinality(S) : s[i] = s[j] => i = j
  <2> SUFFICES ASSUME NEW i \in 1..Cardinality(S), NEW j \in 1..Cardinality(S), s[i] = s[j]
               PROVE  i = j
    OBVIOUS
  <2>1. s[i] \in S /\ s[j] \in S /\ i \in Int /\ j \in Int
    BY <1>1
  <2>2. DOMAIN s = 1..Cardinality(S)
    OBVIOUS
  <2>3. \A x \in S : ~(x < x)
    OBVIOUS
  <2>4. ~(i < j) /\ ~(j < i)
    BY <2>1, <2>2, <2>3 DEF Ascending
  <2> QED BY <2>1, <2>4
<1>3. s \in Injection(1..Cardinality(S), S)
  BY <1>2 DEF Injection, IsInjective
<1>4. IsFiniteSet(1..Cardinality(S)) /\ Cardinality(1..Cardinality(S)) = Cardinality(S)
  BY <1>1, FS_Interval, 1 \in Int
<1>5. s \in Surjection(1..Cardinality(S), S)
  BY <1>1, <1>3, <1>4, FS_Injection
<1> QED BY <1>1, <1>2, <1>5 DEF Surjection

-----------------------------------------------------------------------------
(* A set of sets that has a set if it has it with any one element less.     *)
Inductive(S, G) ==
    \A T \in SUBSET S : (\A x \in T : T \ {x} \in G) => T \in G

(* Induction over the subsets of a finite set.                              *)
LEMMA SubsetInduction ==
  ASSUME NEW S, IsFiniteSet(S), NEW G, Inductive(S, G)
  PROVE  SUBSET S \subseteq G
<1> DEFINE N == {n \in Nat : \A T \in SUBSET S : Cardinality(T) = n => T \in G}
<1> USE DEF Inductive
<1>0. \A T \in SUBSET S : IsFiniteSet(T) /\ Cardinality(T) \in Nat
  BY FS_Subset, FS_CardinalityType
<1>1. 0 \in N
  <2>1. \A T \in SUBSET S : Cardinality(T) = 0 => T = {}
    BY <1>0, FS_EmptySet
  <2> QED BY <2>1
<1>2. ASSUME NEW n \in Nat, n \in N PROVE n + 1 \in N
  <2> SUFFICES ASSUME NEW T \in SUBSET S, Cardinality(T) = n + 1 PROVE T \in G
    OBVIOUS
  <2>1. ASSUME NEW x \in T PROVE T \ {x} \in G
    <3>1. Cardinality(T \ {x}) = Cardinality(T) - 1
      BY <1>0, FS_RemoveElement
    <3> QED BY <1>2, <3>1
  <2> QED BY <2>1
<1>3. Nat \subseteq N
  <2> HIDE DEF N
  <2> QED BY <1>1, <1>2, NatSetInduction
<1> QED BY <1>0, <1>3

(* What a fold over a finite set computes: it takes the chosen element off, *)
(* folds the rest, and makes a step.                                        *)
Iterates(it, S, ch, step, base) ==
    it = [s \in SUBSET S |-> IF s = {} THEN base ELSE step[ch[s]][it[s \ {ch[s]}]]]

(* The elements are chosen among those there are, and steps stay in V.      *)
Iterable(S, ch, step, base, V) ==
    /\ \A s \in SUBSET S : s # {} => ch[s] \in s
    /\ step \in [S -> [V -> V]] /\ base \in V

(* There is a function that computes it, with values in V.                  *)
LEMMA IterationExists ==
  ASSUME NEW S, IsFiniteSet(S), NEW ch, NEW step, NEW base, NEW V,
         Iterable(S, ch, step, base, V)
  PROVE  \E it \in [SUBSET S -> V] : Iterates(it, S, ch, step, base)
<1> DEFINE Small(n) == {s \in SUBSET S : Cardinality(s) <= n}
           Next(it, s) == IF s = {} THEN base ELSE step[ch[s]][it[s \ {ch[s]}]]
           Upto(n) == \E it \in [Small(n) -> V] : \A s \in Small(n) : it[s] = Next(it, s)
           N == {n \in Nat : Upto(n)}
<1> USE DEF Iterable
<1>0. \A s \in SUBSET S : IsFiniteSet(s) /\ Cardinality(s) \in Nat /\ Cardinality(s) <= Cardinality(S)
  BY FS_Subset, FS_CardinalityType
<1>1. 0 \in N
  <2>1. \A s \in Small(0) : s = {}
    BY <1>0, FS_EmptySet
  <2>2. [s \in Small(0) |-> base] \in [Small(0) -> V]
    OBVIOUS
  <2>3. \A s \in Small(0) : [r \in Small(0) |-> base][s] = Next([r \in Small(0) |-> base], s)
    BY <2>1
  <2> QED BY <2>2, <2>3
<1>2. ASSUME NEW n \in Nat, n \in N PROVE n + 1 \in N
  <2>1. PICK it \in [Small(n) -> V] : \A s \in Small(n) : it[s] = Next(it, s)
    BY <1>2
  <2>2. \A s \in Small(n + 1) : s # {} => ch[s] \in S /\ s \ {ch[s]} \in Small(n)
    <3> SUFFICES ASSUME NEW s \in Small(n + 1), s # {}
                 PROVE  ch[s] \in S /\ s \ {ch[s]} \in Small(n)
      OBVIOUS
    <3>1. ch[s] \in s /\ IsFiniteSet(s) /\ Cardinality(s) <= n + 1
      BY <1>0
    <3>2. Cardinality(s \ {ch[s]}) = Cardinality(s) - 1
      BY <3>1, FS_RemoveElement
    <3> QED BY <1>0, <3>1, <3>2
  <2> DEFINE more == [s \in Small(n + 1) |-> Next(it, s)]
  <2>3. \A s \in Small(n + 1) : Next(it, s) \in V
    BY <2>2
  <2>4. more \in [Small(n + 1) -> V]
    BY <2>3
  <2>5. \A s \in Small(n) : s \in Small(n + 1) /\ more[s] = it[s]
    <3>1. \A s \in Small(n) : s \in Small(n + 1)
      BY <1>0
    <3>2. \A s \in Small(n + 1) : more[s] = Next(it, s)
      OBVIOUS
    <3> HIDE DEF more, Next, Small
    <3> QED BY <2>1, <3>1, <3>2
  <2>6. \A s \in Small(n + 1) : more[s] = Next(more, s)
    <3> SUFFICES ASSUME NEW s \in Small(n + 1) PROVE more[s] = Next(more, s)
      OBVIOUS
    <3>1. more[s] = Next(it, s)
      OBVIOUS
    <3>2. s # {} => more[s \ {ch[s]}] = it[s \ {ch[s]}]
      BY <2>2, <2>5
    <3> HIDE DEF more
    <3> QED BY <3>1, <3>2
  <2>7. Upto(n + 1)
    <3> HIDE DEF more, Next, Small
    <3> QED BY <2>4, <2>6
  <2> HIDE DEF Upto
  <2> QED BY <2>7
<1>3. Nat \subseteq N
  <2> HIDE DEF N
  <2> QED BY <1>1, <1>2, NatSetInduction
<1>4. Cardinality(S) \in Nat /\ Small(Cardinality(S)) = SUBSET S
  BY <1>0
<1>5. Upto(Cardinality(S))
  BY <1>3, <1>4
<1>6. PICK it \in [SUBSET S -> V] : \A s \in SUBSET S : it[s] = Next(it, s)
  <2> HIDE DEF Small, Next
  <2> QED BY <1>4, <1>5
<1>7. it = [s \in SUBSET S |-> Next(it, s)]
  <2> HIDE DEF Next
  <2> QED BY <1>6
<1> QED BY <1>7 DEF Iterates

-----------------------------------------------------------------------------
(* The values to be summed are integers.                                    *)
IntOn(f, S) == \A x \in S : f[x] \in Int

(* The recursive function by which the community modules define a sum.      *)
PartialSums(f, S, it) ==
    it = [s \in SUBSET S |->
            IF s = {} THEN 0
            ELSE f[CHOOSE x \in s : TRUE] + it[s \ {CHOOSE x \in s : TRUE}]]

(* The sums of all subsets exist.                                           *)
LEMMA SumsExist ==
  ASSUME NEW S, IsFiniteSet(S), NEW f, IntOn(f, S)
  PROVE  \E it \in [SUBSET S -> Int] : PartialSums(f, S, it)
<1> DEFINE ch == [s \in SUBSET S |-> CHOOSE x \in s : TRUE]
           step == [x \in S |-> [v \in Int |-> f[x] + v]]
<1> USE DEF IntOn
<1>1. Iterable(S, ch, step, 0, Int)
  BY DEF Iterable
<1>2. \A s \in SUBSET S : s # {} => ch[s] \in s
  OBVIOUS
<1>3. \E it \in [SUBSET S -> Int] : Iterates(it, S, ch, step, 0)
  <2> HIDE DEF ch, step
  <2> QED BY <1>1, IterationExists
<1>4. PICK it \in [SUBSET S -> Int] : Iterates(it, S, ch, step, 0)
  BY <1>3
<1>5. ASSUME NEW s \in SUBSET S, s # {}
      PROVE  step[ch[s]][it[s \ {ch[s]}]] = f[CHOOSE x \in s : TRUE] + it[s \ {CHOOSE x \in s : TRUE}]
  <2>1. ch[s] = CHOOSE x \in s : TRUE
    OBVIOUS
  <2>2. ch[s] \in S /\ it[s \ {ch[s]}] \in Int
    BY <1>2, <1>5
  <2>3. step[ch[s]][it[s \ {ch[s]}]] = f[ch[s]] + it[s \ {ch[s]}]
    <3> HIDE DEF ch
    <3> QED BY <2>2
  <2> QED BY <2>1, <2>3
<1>6. \A s \in SUBSET S :
         it[s] = IF s = {} THEN 0 ELSE step[ch[s]][it[s \ {ch[s]}]]
  <2> HIDE DEF ch, step
  <2> QED BY <1>4 DEF Iterates
<1>7. \A s \in SUBSET S :
         it[s] = IF s = {} THEN 0 ELSE f[CHOOSE x \in s : TRUE] + it[s \ {CHOOSE x \in s : TRUE}]
  <2> HIDE DEF ch, step
  <2> QED BY <1>5, <1>6
<1> QED BY <1>7 DEF PartialSums

(* They depend on the elements of a set only, not on the set they are in.   *)
LEMMA SumsAgree ==
  ASSUME NEW S, IsFiniteSet(S), NEW T \in SUBSET S,
         NEW f, NEW g, \A x \in T : f[x] = g[x],
         NEW a, PartialSums(f, S, a), NEW b, PartialSums(g, T, b)
  PROVE  \A s \in SUBSET T : a[s] = b[s]
<1> DEFINE G == {s \in SUBSET T : a[s] = b[s]}
<1>0. IsFiniteSet(T)
  BY FS_Subset
<1>1. ASSUME NEW s \in SUBSET T, \A x \in s : s \ {x} \in G
      PROVE  s \in G
  <2> DEFINE c == CHOOSE x \in s : TRUE
  <2>1. /\ a[s] = IF s = {} THEN 0 ELSE f[c] + a[s \ {c}]
        /\ b[s] = IF s = {} THEN 0 ELSE g[c] + b[s \ {c}]
    BY DEF PartialSums
  <2>2. s # {} => c \in s
    OBVIOUS
  <2> HIDE DEF c
  <2> QED BY <1>1, <2>1, <2>2
<1>2. SUBSET T \subseteq G
  <2>1. Inductive(T, G)
    BY <1>1 DEF Inductive
  <2> HIDE DEF G
  <2> QED BY <1>0, <2>1, SubsetInduction
<1> QED BY <1>2

(* The equation of sums.                                                    *)
SumStep(f, S) ==
    LET c == CHOOSE x \in S : TRUE IN
    IF S = {} THEN 0 ELSE f[c] + SumFunctionOnSet(f, S \ {c})

(* A sum is an integer, and the chosen element plus the sum of the rest.    *)
LEMMA SumTaken ==
  ASSUME NEW S, IsFiniteSet(S), NEW f, IntOn(f, S)
  PROVE  SumFunctionOnSet(f, S) \in Int /\ SumFunctionOnSet(f, S) = SumStep(f, S)
<1>1. PICK it \in [SUBSET S -> Int] : PartialSums(f, S, it)
  BY SumsExist
<1>2. ASSUME NEW s \in SUBSET S PROVE SumFunctionOnSet(f, s) = it[s]
  <2>0. IsFiniteSet(s) /\ IntOn(f, s)
    BY FS_Subset DEF IntOn
  <2>1. \E a \in [SUBSET s -> Int] : PartialSums(f, s, a)
    BY <2>0, SumsExist
  <2> DEFINE b == CHOOSE a : PartialSums(f, s, a)
  <2>2. PartialSums(f, s, b)
    BY <2>1
  <2>3. SumFunctionOnSet(f, s) = b[s]
    BY DEF SumFunctionOnSet, FoldFunctionOnSet, MapThenFoldSet, PartialSums
  <2> HIDE DEF b
  <2>4. \A r \in SUBSET s : it[r] = b[r]
    BY <1>1, <2>2, SumsAgree
  <2> QED BY <2>3, <2>4
<1> DEFINE c == CHOOSE x \in S : TRUE
<1>3. it[S] = IF S = {} THEN 0 ELSE f[c] + it[S \ {c}]
  BY <1>1 DEF PartialSums
<1>4. SumFunctionOnSet(f, S) = it[S] /\ SumFunctionOnSet(f, S \ {c}) = it[S \ {c}]
  BY <1>2
<1>5. SumFunctionOnSet(f, S) = IF S = {} THEN 0 ELSE f[c] + SumFunctionOnSet(f, S \ {c})
  <2> HIDE DEF c
  <2> QED BY <1>3, <1>4
<1>6. it[S] \in Int
  OBVIOUS
<1> QED BY <1>4, <1>5, <1>6 DEF SumStep

(* The empty sum.                                                           *)
LEMMA SumEmpty ==
  ASSUME NEW f PROVE SumFunctionOnSet(f, {}) = 0
<1>1. IsFiniteSet({}) /\ IntOn(f, {})
  BY FS_EmptySet DEF IntOn
<1>2. SumFunctionOnSet(f, {}) = SumStep(f, {})
  BY <1>1, SumTaken
<1> QED BY <1>2 DEF SumStep

(* What holds of a finite set holds of its subsets.                         *)
LEMMA IntOnParts ==
  ASSUME NEW S, IsFiniteSet(S), NEW f, IntOn(f, S), NEW T \in SUBSET S
  PROVE  IsFiniteSet(T) /\ IntOn(f, T) /\ SumFunctionOnSet(f, T) \in Int
<1>1. IsFiniteSet(T) /\ IntOn(f, T)
  BY FS_Subset DEF IntOn
<1> QED BY <1>1, SumTaken

(* Any element can be taken off a sum.                                      *)
LEMMA SumRemove ==
  ASSUME NEW S, IsFiniteSet(S), NEW f, IntOn(f, S), NEW x \in S
  PROVE  SumFunctionOnSet(f, S) = f[x] + SumFunctionOnSet(f, S \ {x})
<1> DEFINE Sum(s) == SumFunctionOnSet(f, s)
           Any(s) == \A y \in s : Sum(s) = f[y] + Sum(s \ {y})
           G == {s \in SUBSET S : Any(s)}
<1>1. ASSUME NEW s \in SUBSET S, \A y \in s : s \ {y} \in G
      PROVE  Any(s)
  <2> SUFFICES ASSUME NEW y \in s PROVE Sum(s) = f[y] + Sum(s \ {y})
    OBVIOUS
  <2> DEFINE c == CHOOSE z \in s : TRUE
  <2>1. c \in s
    OBVIOUS
  <2>2. Sum(s) = f[c] + Sum(s \ {c})
    BY IntOnParts, SumTaken DEF SumStep
  <2> HIDE DEF c
  <2>3. CASE y # c
    <3> DEFINE t == s \ {c}
               u == s \ {y}
               v == s \ {c, y}
    <3>1. Any(t) /\ y \in t /\ Any(u) /\ c \in u
      <4> HIDE DEF Any
      <4> QED BY <1>1, <2>1, <2>3
    <3>2. t \ {y} = v /\ u \ {c} = v
      OBVIOUS
    <3>3. Sum(t) = f[y] + Sum(v) /\ Sum(u) = f[c] + Sum(v)
      <4> HIDE DEF t, u, v, Sum
      <4> QED BY <3>1, <3>2
    <3>4. Sum(v) \in Int /\ f[y] \in Int /\ f[c] \in Int
      BY <2>1, IntOnParts DEF IntOn
    <3>5. Sum(s) = f[c] + Sum(t)
      BY <2>2
    <3>6. Sum(s) = f[y] + Sum(u)
      <4> HIDE DEF t, u, v, Sum
      <4> QED BY ONLY <3>3, <3>4, <3>5
    <3> QED BY <3>6
  <2> QED BY <2>2, <2>3
<1>2. SUBSET S \subseteq G
  <2> HIDE DEF Any
  <2>1. Inductive(S, G)
    BY <1>1 DEF Inductive
  <2> HIDE DEF G
  <2> QED BY <2>1, SubsetInduction
<1>3. Any(S)
  <2> HIDE DEF Any
  <2> QED BY <1>2
<1> QED BY <1>3

(* An element that is put into a set adds its value.                        *)
LEMMA SumAdd ==
  ASSUME NEW S, IsFiniteSet(S), NEW f, IntOn(f, S),
         NEW x, x \notin S, f[x] \in Int
  PROVE  SumFunctionOnSet(f, S \cup {x}) = SumFunctionOnSet(f, S) + f[x]
<1>1. IsFiniteSet(S \cup {x}) /\ (S \cup {x}) \ {x} = S /\ IntOn(f, S \cup {x})
  BY FS_AddElement DEF IntOn
<1>2. SumFunctionOnSet(f, S \cup {x}) = f[x] + SumFunctionOnSet(f, S)
  BY <1>1, SumRemove
<1>3. SumFunctionOnSet(f, S) \in Int
  BY SumTaken
<1> QED BY <1>2, <1>3

(* Only the values of the elements count.                                   *)
LEMMA SumSame ==
  ASSUME NEW S, IsFiniteSet(S), NEW f, NEW g, IntOn(f, S), \A x \in S : f[x] = g[x]
  PROVE  SumFunctionOnSet(f, S) = SumFunctionOnSet(g, S)
<1> DEFINE G == {s \in SUBSET S : SumFunctionOnSet(f, s) = SumFunctionOnSet(g, s)}
<1>0. IntOn(g, S)
  BY DEF IntOn
<1>1. ASSUME NEW s \in SUBSET S, \A y \in s : s \ {y} \in G
      PROVE  SumFunctionOnSet(f, s) = SumFunctionOnSet(g, s)
  <2> DEFINE c == CHOOSE z \in s : TRUE
  <2>1. SumFunctionOnSet(f, s) = SumStep(f, s) /\ SumFunctionOnSet(g, s) = SumStep(g, s)
    BY <1>0, IntOnParts, SumTaken
  <2>2. s # {} => c \in s /\ f[c] = g[c]
    OBVIOUS
  <2>3. s # {} => SumFunctionOnSet(f, s \ {c}) = SumFunctionOnSet(g, s \ {c})
    BY <1>1, <2>2
  <2>4. SumStep(f, s) = SumStep(g, s)
    BY <2>2, <2>3 DEF SumStep
  <2> QED BY <2>1, <2>4
<1>2. SUBSET S \subseteq G
  <2>1. Inductive(S, G)
    BY <1>1 DEF Inductive
  <2> HIDE DEF G
  <2> QED BY <2>1, SubsetInduction
<1> QED BY <1>2

(* The sum over two sets that have nothing in common.                       *)
LEMMA SumUnion ==
  ASSUME NEW S, NEW T, IsFiniteSet(S \cup T), S \cap T = {}, NEW f, IntOn(f, S \cup T)
  PROVE  SumFunctionOnSet(f, S \cup T) = SumFunctionOnSet(f, S) + SumFunctionOnSet(f, T)
<1> DEFINE Sum(R) == SumFunctionOnSet(f, R)
           G == {R \in SUBSET T : Sum(S \cup R) = Sum(S) + Sum(R)}
<1>1. \A R \in SUBSET (S \cup T) : IsFiniteSet(R) /\ IntOn(f, R) /\ Sum(R) \in Int
  BY IntOnParts
<1>2. ASSUME NEW R \in SUBSET T, \A y \in R : R \ {y} \in G
      PROVE  R \in G
  <2>1. CASE R = {}
    <3>1. S \cup R = S /\ Sum(R) = 0
      BY <2>1, SumEmpty
    <3>2. Sum(S) \in Int
      BY <1>1
    <3>3. Sum(S \cup R) = Sum(S) + Sum(R)
      <4>1. Sum(S \cup R) = Sum(S)
        BY <3>1
      <4> HIDE DEF Sum
      <4> QED BY <3>1, <3>2, <4>1
    <3> QED BY <3>3
  <2>2. CASE R # {}
    <3>1. PICK y \in R : TRUE
      BY <2>2
    <3> DEFINE Q == R \ {y}
               U == S \cup R
               V == S \cup Q
    <3>2. Sum(R) = f[y] + Sum(Q)
      BY <1>1, SumRemove
    <3>3. U \ {y} = V /\ y \in U
      OBVIOUS
    <3>4. Sum(U) = f[y] + Sum(U \ {y})
      <4>1. IsFiniteSet(U) /\ IntOn(f, U)
        BY <1>1
      <4> HIDE DEF U
      <4> QED BY <3>3, <4>1, SumRemove
    <3>5. Sum(V) = Sum(S) + Sum(Q)
      BY <1>2, <3>1
    <3>6. Sum(Q) \in Int /\ Sum(S) \in Int /\ f[y] \in Int
      BY <1>1 DEF IntOn
    <3>7. Sum(U) = Sum(S) + Sum(R)
      <4>1. Sum(U) = f[y] + Sum(V)
        BY <3>3, <3>4
      <4> HIDE DEF Sum, Q, U, V, G
      <4> QED BY ONLY <3>2, <3>5, <3>6, <4>1
    <3> QED BY <3>7
  <2> QED BY <2>1, <2>2
<1>3. SUBSET T \subseteq G
  <2>1. Inductive(T, G)
    BY <1>2 DEF Inductive
  <2>2. IsFiniteSet(T)
    BY <1>1
  <2> HIDE DEF G
  <2> QED BY <2>1, <2>2, SubsetInduction
<1> QED BY <1>3

(* The sum over what is left of a set.                                      *)
LEMMA SumWithout ==
  ASSUME NEW S, IsFiniteSet(S), NEW T \in SUBSET S, NEW f, IntOn(f, S)
  PROVE  SumFunctionOnSet(f, S \ T) = SumFunctionOnSet(f, S) - SumFunctionOnSet(f, T)
<1> DEFINE R == S \ T
<1>1. R \cap T = {} /\ R \cup T = S
  OBVIOUS
<1>2. SumFunctionOnSet(f, R) \in Int /\ SumFunctionOnSet(f, T) \in Int
  BY IntOnParts
<1> HIDE DEF R
<1>3. SumFunctionOnSet(f, S) = SumFunctionOnSet(f, R) + SumFunctionOnSet(f, T)
  BY <1>1, SumUnion
<1>4. SumFunctionOnSet(f, R) = SumFunctionOnSet(f, S) - SumFunctionOnSet(f, T)
  BY <1>2, <1>3
<1> QED BY <1>4 DEF R

(* A sum of naturals is one.                                                *)
LEMMA SumNat ==
  ASSUME NEW S, IsFiniteSet(S), NEW f, IntOn(f, S), \A x \in S : f[x] >= 0
  PROVE  SumFunctionOnSet(f, S) \in Nat
<1> DEFINE G == {s \in SUBSET S : SumFunctionOnSet(f, s) \in Nat}
<1>1. ASSUME NEW s \in SUBSET S, \A y \in s : s \ {y} \in G
      PROVE  s \in G
  <2>1. CASE s = {}
    BY <2>1, SumEmpty
  <2>2. CASE s # {}
    <3>1. PICK y \in s : TRUE
      BY <2>2
    <3>2. SumFunctionOnSet(f, s) = f[y] + SumFunctionOnSet(f, s \ {y})
      BY IntOnParts, SumRemove
    <3>3. f[y] \in Nat /\ SumFunctionOnSet(f, s \ {y}) \in Nat
      BY <1>1 DEF IntOn
    <3> QED BY <3>2, <3>3
  <2> QED BY <2>1, <2>2
<1>2. SUBSET S \subseteq G
  <2>1. Inductive(S, G)
    BY <1>1 DEF Inductive
  <2> HIDE DEF G
  <2> QED BY <2>1, SubsetInduction
<1> QED BY <1>2

(* A sum over other names of the same things.                               *)
LEMMA SumRenamed ==
  ASSUME NEW S, IsFiniteSet(S), NEW f, IntOn(f, S),
         NEW r, \A x, y \in S : r[x] = r[y] => x = y,
         NEW g, \A x \in S : g[r[x]] = f[x]
  PROVE  SumFunctionOnSet(g, {r[x] : x \in S}) = SumFunctionOnSet(f, S)
<1> DEFINE Image(s) == {r[x] : x \in s}
           G == {s \in SUBSET S : /\ IsFiniteSet(Image(s))
                                  /\ SumFunctionOnSet(g, Image(s)) = SumFunctionOnSet(f, s)}
<1>1. ASSUME NEW s \in SUBSET S, \A y \in s : s \ {y} \in G
      PROVE  s \in G
  <2>1. CASE s = {}
    <3>1. Image(s) = {}
      BY <2>1
    <3> QED BY <2>1, <3>1, SumEmpty, FS_EmptySet
  <2>2. CASE s # {}
    <3>1. PICK y \in s : TRUE
      BY <2>2
    <3> DEFINE t == s \ {y}
    <3>2. SumFunctionOnSet(f, s) = f[y] + SumFunctionOnSet(f, t)
      BY IntOnParts, SumRemove
    <3>3. IsFiniteSet(Image(t)) /\ SumFunctionOnSet(g, Image(t)) = SumFunctionOnSet(f, t)
      BY <1>1
    <3>4. Image(s) = Image(t) \cup {r[y]} /\ r[y] \notin Image(t)
      OBVIOUS
    <3>5. g[r[y]] \in Int /\ IntOn(g, Image(t))
      BY DEF IntOn
    <3>6. SumFunctionOnSet(g, Image(s)) = SumFunctionOnSet(g, Image(t)) + g[r[y]]
      <4> HIDE DEF Image, t
      <4> QED BY <3>3, <3>4, <3>5, SumAdd
    <3>7. IsFiniteSet(Image(s))
      <4> HIDE DEF Image, t
      <4> QED BY <3>3, <3>4, FS_AddElement
    <3>8. SumFunctionOnSet(f, t) \in Int /\ g[r[y]] = f[y] /\ f[y] \in Int
      BY IntOnParts DEF IntOn
    <3>9. SumFunctionOnSet(g, Image(s)) = SumFunctionOnSet(f, s)
      <4> HIDE DEF Image, t
      <4> QED BY <3>2, <3>3, <3>6, <3>8
    <3> QED BY <3>7, <3>9
  <2> QED BY <2>1, <2>2
<1>2. SUBSET S \subseteq G
  <2>1. Inductive(S, G)
    BY <1>1 DEF Inductive
  <2> HIDE DEF G
  <2> QED BY <2>1, SubsetInduction
<1> QED BY <1>2

(* The sum of sums.                                                         *)
LEMMA SumPlus ==
  ASSUME NEW S, IsFiniteSet(S), NEW f, NEW g, NEW h, IntOn(f, S), IntOn(g, S),
         \A x \in S : h[x] = f[x] + g[x]
  PROVE  SumFunctionOnSet(h, S) = SumFunctionOnSet(f, S) + SumFunctionOnSet(g, S)
<1> DEFINE Sum(k, s) == SumFunctionOnSet(k, s)
           G == {s \in SUBSET S : Sum(h, s) = Sum(f, s) + Sum(g, s)}
<1>0. IntOn(h, S)
  BY DEF IntOn
<1>1. ASSUME NEW s \in SUBSET S, \A y \in s : s \ {y} \in G
      PROVE  s \in G
  <2>1. CASE s = {}
    BY <2>1, SumEmpty
  <2>2. CASE s # {}
    <3>1. PICK y \in s : TRUE
      BY <2>2
    <3> DEFINE t == s \ {y}
    <3>2. \A k \in {f, g, h} : Sum(k, s) = k[y] + Sum(k, t) /\ Sum(k, t) \in Int /\ k[y] \in Int
      <4> SUFFICES ASSUME NEW k \in {f, g, h}
                   PROVE  Sum(k, s) = k[y] + Sum(k, t) /\ Sum(k, t) \in Int /\ k[y] \in Int
        OBVIOUS
      <4>1. IntOn(k, S)
        BY <1>0
      <4>2. IsFiniteSet(s) /\ IntOn(k, s) /\ t \in SUBSET S
        BY <4>1, IntOnParts
      <4> QED BY <4>1, <4>2, IntOnParts, SumRemove DEF IntOn
    <3>3. Sum(h, t) = Sum(f, t) + Sum(g, t)
      BY <1>1
    <3>4. h[y] = f[y] + g[y]
      OBVIOUS
    <3>5. Sum(h, s) = Sum(f, s) + Sum(g, s)
      <4> HIDE DEF Sum, t, G
      <4> QED BY <3>2, <3>3, <3>4
    <3> QED BY <3>5
  <2> QED BY <2>1, <2>2
<1>2. SUBSET S \subseteq G
  <2>1. Inductive(S, G)
    BY <1>1 DEF Inductive
  <2> HIDE DEF G
  <2> QED BY <2>1, SubsetInduction
<1> QED BY <1>2

(* The sum of nothing but zeros.                                            *)
LEMMA SumZero ==
  ASSUME NEW S, IsFiniteSet(S), NEW f, \A x \in S : f[x] = 0
  PROVE  SumFunctionOnSet(f, S) = 0
<1>1. IntOn(f, S) /\ \A x \in S : f[x] = f[x] + f[x]
  BY DEF IntOn
<1>2. SumFunctionOnSet(f, S) = SumFunctionOnSet(f, S) + SumFunctionOnSet(f, S)
  BY <1>1, SumPlus
<1>3. PICK sum \in Int : sum = SumFunctionOnSet(f, S)
  BY <1>1, SumTaken
<1>4. sum = sum + sum
  BY <1>2, <1>3
<1>5. \A z \in Int : z = z + z => z = 0
  OBVIOUS
<1>6. sum = 0
  BY ONLY <1>3, <1>4, <1>5, Zenon
<1> QED BY <1>3, <1>6

(* A sum of which one term changes.                                         *)
LEMMA SumChange ==
  ASSUME NEW S, IsFiniteSet(S), NEW f, NEW g, IntOn(f, S), IntOn(g, S),
         NEW x \in S, \A y \in S : y # x => g[y] = f[y]
  PROVE  SumFunctionOnSet(g, S) = SumFunctionOnSet(f, S) + (g[x] - f[x])
<1>1. PICK T : T = S \ {x}
  OBVIOUS
<1>2. IsFiniteSet(T) /\ IntOn(f, T) /\ SumFunctionOnSet(f, T) \in Int
  BY <1>1, IntOnParts
<1>3. SumFunctionOnSet(f, T) = SumFunctionOnSet(g, T)
  BY <1>1, <1>2, SumSame
<1>4. /\ SumFunctionOnSet(f, S) = f[x] + SumFunctionOnSet(f, T)
      /\ SumFunctionOnSet(g, S) = g[x] + SumFunctionOnSet(g, T)
  BY <1>1, SumRemove
<1>5. f[x] \in Int /\ g[x] \in Int
  BY DEF IntOn
<1> QED BY <1>2, <1>3, <1>4, <1>5

(* The sum of a list, and of the list with a value more.                    *)
LEMMA SumAppend ==
  ASSUME NEW s \in Seq(Int), NEW v \in Int
  PROVE  SumFunction(s) \in Int /\ SumFunction(Append(s, v)) = SumFunction(s) + v
<1>1. PICK t, n : t = Append(s, v) /\ n = Len(s)
  OBVIOUS
<1>2. /\ n \in Nat /\ DOMAIN s = 1..n /\ DOMAIN t = (1..n) \cup {n + 1} /\ t[n + 1] = v
      /\ \A i \in 1..n : t[i] = s[i] /\ s[i] \in Int
  BY <1>1
<1>3. IsFiniteSet(1..n) /\ IntOn(s, 1..n) /\ IntOn(t, 1..n) /\ n + 1 \notin 1..n
  <2>1. IsFiniteSet(1..n)
    BY <1>2, SetOfIndices
  <2> QED BY <1>2, <2>1 DEF IntOn
<1>4. SumFunctionOnSet(t, (1..n) \cup {n + 1}) = SumFunctionOnSet(t, 1..n) + v
  <2>1. PICK S, x : S = 1..n /\ x = n + 1
    OBVIOUS
  <2>2. IsFiniteSet(S) /\ IntOn(t, S) /\ x \notin S /\ t[x] \in Int /\ t[x] = v
    BY <1>2, <1>3, <2>1
  <2>3. SumFunctionOnSet(t, S \cup {x}) = SumFunctionOnSet(t, S) + t[x]
    BY <2>2, SumAdd
  <2> QED BY <2>1, <2>2, <2>3
<1>5. SumFunctionOnSet(s, 1..n) = SumFunctionOnSet(t, 1..n)
  BY <1>2, <1>3, SumSame
<1>6. SumFunctionOnSet(s, 1..n) \in Int
  BY <1>3, SumTaken
<1> QED BY <1>1, <1>2, <1>4, <1>5, <1>6 DEF SumFunction

-----------------------------------------------------------------------------
(* Paths along links: from i the path goes on to nx[i], or ends at i if     *)
(* that is 0.  ranks go down along it.                                      *)
Links(n, nx, rank) ==
    /\ n \in Nat /\ nx \in [1..n -> 0..n] /\ rank \in [1..n -> Nat]
    /\ \A i \in 1..n : nx[i] # 0 => rank[nx[i]] < rank[i]

(* The recursive function that collects the path from each i.               *)
Paths(p, n, nx) ==
    p = [i \in 1..n |-> IF nx[i] = 0 THEN {i} ELSE {i} \cup p[nx[i]]]

(* It exists, whatever the links: it collects what every set that is closed *)
(* under the links has if it has i.                                         *)
LEMMA PathsExist ==
  ASSUME NEW n \in Nat, NEW nx \in [1..n -> 0..n]
  PROVE  \E p : Paths(p, n, nx)
<1> DEFINE Closed(T) == \A k \in T : nx[k] # 0 => nx[k] \in T
           From(i) == {j \in 1..n : \A T \in SUBSET (1..n) : i \in T /\ Closed(T) => j \in T}
           p == [i \in 1..n |-> From(i)]
<1>1. ASSUME NEW i \in 1..n
      PROVE  From(i) = IF nx[i] = 0 THEN {i} ELSE {i} \cup From(nx[i])
  <2>1. i \in From(i)
    OBVIOUS
  <2>2. CASE nx[i] = 0
    <3>1. Closed({i})
      BY <2>2
    <3> QED BY <2>1, <2>2, <3>1
  <2>3. CASE nx[i] # 0
    <3> DEFINE m == nx[i]
               T0 == {i} \cup From(m)
    <3>1. m \in 1..n
      BY <2>3
    <3>2. ASSUME NEW k \in From(m), nx[k] # 0 PROVE nx[k] \in From(m)
      <4>1. k \in 1..n /\ nx[k] \in 1..n
        BY <3>2
      <4>2. ASSUME NEW T \in SUBSET (1..n), m \in T, Closed(T) PROVE nx[k] \in T
        BY <3>2, <4>2
      <4> QED BY <4>1, <4>2
    <3>3. m \in From(m)
      BY <3>1
    <3>4. Closed(T0) /\ T0 \in SUBSET (1..n) /\ i \in T0
      <4> HIDE DEF From
      <4>1. From(m) \in SUBSET (1..n)
        BY DEF From
      <4> QED BY <3>2, <3>3, <4>1
    <3>5. From(i) \subseteq T0
      <4> HIDE DEF T0, Closed
      <4> QED BY <3>4
    <3>6. From(m) \subseteq From(i)
      <4> SUFFICES ASSUME NEW j \in From(m), NEW T \in SUBSET (1..n), i \in T, Closed(T)
                   PROVE  j \in T
        OBVIOUS
      <4>1. m \in T
        BY <2>3
      <4> HIDE DEF Closed, m
      <4> QED BY <4>1
    <3> HIDE DEF From
    <3> QED BY <2>1, <2>3, <3>5, <3>6
  <2> QED BY <2>2, <2>3
<1> HIDE DEF From
<1>2. \A i \in 1..n : nx[i] # 0 => p[nx[i]] = From(nx[i])
  OBVIOUS
<1>3. p = [i \in 1..n |-> IF nx[i] = 0 THEN {i} ELSE {i} \cup p[nx[i]]]
  <2>1. \A i \in 1..n : From(i) = IF nx[i] = 0 THEN {i} ELSE {i} \cup p[nx[i]]
    BY <1>1, <1>2
  <2> QED BY <2>1
<1> QED BY <1>3 DEF Paths

(* A path starts at s, each of its places but s follows another one, no two *)
(* go on to the same place, and one, of the lowest rank, is the end.        *)
IsPath(P, s, n, nx, rank) ==
    /\ s \in P /\ P \subseteq 1..n
    /\ \A j \in P : nx[j] # 0 => nx[j] \in P
    /\ \A j \in P : j # s => \E k \in P : nx[k] = j
    /\ \A j, k \in P : nx[j] = nx[k] => j = k
    /\ \A j \in P : rank[j] <= rank[s]
    /\ \E e \in P : nx[e] = 0 /\ \A j \in P : rank[e] <= rank[j]

(* What the recursive function collects is a path.                          *)
LEMMA PathsArePaths ==
  ASSUME NEW n \in Nat, NEW nx, NEW rank, Links(n, nx, rank), NEW p, Paths(p, n, nx),
         NEW s \in 1..n
  PROVE  IsPath(p[s], s, n, nx, rank)
<1> DEFINE R == {r \in Nat : \A i \in 1..n : rank[i] <= r => IsPath(p[i], i, n, nx, rank)}
<1>0. /\ \A i \in 1..n : rank[i] \in Nat /\ nx[i] \in 0..n
      /\ \A i \in 1..n : nx[i] # 0 => nx[i] \in 1..n /\ rank[nx[i]] < rank[i]
  BY DEF Links
<1>1. ASSUME NEW i \in 1..n, nx[i] = 0 PROVE IsPath(p[i], i, n, nx, rank)
  <2>1. p[i] = {i}
    BY <1>1 DEF Paths
  <2> QED BY <1>0, <1>1, <2>1 DEF IsPath
<1>2. ASSUME NEW i \in 1..n, nx[i] # 0, IsPath(p[nx[i]], nx[i], n, nx, rank)
      PROVE  IsPath(p[i], i, n, nx, rank)
  <2>0. PICK m, Q : m \in 1..n /\ m = nx[i] /\ Q = p[m] /\ rank[m] < rank[i]
    BY <1>0, <1>2
  <2>1. p[i] = {i} \cup Q
    BY <1>2, <2>0 DEF Paths
  <2>2. IsPath(Q, m, n, nx, rank)
    BY <1>2, <2>0
  <2>3. /\ m \in Q /\ Q \subseteq 1..n
        /\ \A j \in Q : nx[j] # 0 => nx[j] \in Q
        /\ \A j \in Q : j # m => \E k \in Q : nx[k] = j
        /\ \A j, k \in Q : nx[j] = nx[k] => j = k
        /\ \A j \in Q : rank[j] <= rank[m]
    BY <2>2 DEF IsPath
  <2>4. PICK e \in Q : nx[e] = 0 /\ \A j \in Q : rank[e] <= rank[j]
    BY <2>2 DEF IsPath
  <2>5. \A j \in Q : rank[j] < rank[i] /\ rank[j] \in Nat
    BY <1>0, <2>0, <2>3
  <2>6. \A j \in Q : nx[j] # m
    <3> SUFFICES ASSUME NEW j \in Q, nx[j] = m PROVE FALSE
      OBVIOUS
    <3>1. rank[m] < rank[j] /\ rank[j] <= rank[m] /\ rank[j] \in Nat /\ rank[m] \in Nat
      BY <1>0, <2>0, <2>3
    <3> QED BY <3>1
  <2>7. \A j \in {i} \cup Q : nx[j] # 0 => nx[j] \in {i} \cup Q
    BY <2>0, <2>3
  <2>8. \A j \in {i} \cup Q : j # i => \E k \in {i} \cup Q : nx[k] = j
    BY <2>0, <2>3
  <2>9. \A j, k \in {i} \cup Q : nx[j] = nx[k] => j = k
    BY <2>0, <2>3, <2>6
  <2>10. \A j \in {i} \cup Q : rank[j] <= rank[i]
    BY <1>0, <2>5
  <2>11. \A j \in {i} \cup Q : rank[e] <= rank[j]
    BY <1>0, <2>4, <2>5
  <2> QED BY <2>1, <2>3, <2>4, <2>7, <2>8, <2>9, <2>10, <2>11 DEF IsPath
<1>3. 0 \in R
  <2>1. \A i \in 1..n : rank[i] <= 0 => nx[i] = 0
    BY <1>0
  <2> QED BY <1>1, <2>1
<1>4. ASSUME NEW r \in Nat, r \in R PROVE r + 1 \in R
  <2> SUFFICES ASSUME NEW i \in 1..n, rank[i] <= r + 1 PROVE IsPath(p[i], i, n, nx, rank)
    OBVIOUS
  <2>1. nx[i] # 0 => nx[i] \in 1..n /\ rank[nx[i]] <= r
    BY <1>0
  <2>2. nx[i] # 0 => IsPath(p[nx[i]], nx[i], n, nx, rank)
    BY <1>4, <2>1
  <2> QED BY <1>1, <1>2, <2>2
<1>5. Nat \subseteq R
  <2> HIDE DEF R
  <2> QED BY <1>3, <1>4, NatSetInduction
<1> QED BY <1>0, <1>5

(* Everything along a path moves one place towards its start, whose item    *)
(* goes to the end.                                                         *)
Moved(q, P, s, n, nx) ==
    [j \in 1..n |-> IF j \notin P THEN q[j] ELSE IF nx[j] = 0 THEN q[s] ELSE q[nx[j]]]

(* Such a move neither loses an item nor has one twice.                     *)
LEMMA MovedIsPermuted ==
  ASSUME NEW n \in Nat, NEW nx, NEW rank, NEW P, NEW s,
         IsPath(P, s, n, nx, rank), Links(n, nx, rank),
         NEW q, DOMAIN q = 1..n
  PROVE  /\ Range(Moved(q, P, s, n, nx)) = Range(q)
         /\ IsInjective(q) => IsInjective(Moved(q, P, s, n, nx))
<1>0. PICK t : t = Moved(q, P, s, n, nx)
  OBVIOUS
<1> DEFINE from == [j \in 1..n |-> IF j \notin P THEN j ELSE IF nx[j] = 0 THEN s ELSE nx[j]]
<1>1. /\ s \in P /\ P \subseteq 1..n
      /\ \A j \in P : nx[j] # 0 => nx[j] \in P
      /\ \A j \in P : j # s => \E k \in P : nx[k] = j
      /\ \A j, k \in P : nx[j] = nx[k] => j = k
      /\ \E e \in P : nx[e] = 0
      /\ \A j \in P : nx[j] # s
  <2>1. \A j \in P : nx[j] # s
    <3> SUFFICES ASSUME NEW j \in P, nx[j] = s PROVE FALSE
      OBVIOUS
    <3>1. j \in 1..n /\ s \in 1..n /\ rank[j] <= rank[s]
      BY DEF IsPath
    <3>2. rank[s] \in Nat /\ rank[j] \in Nat
      BY <3>1 DEF Links
    <3>3. nx[j] # 0
      BY <3>1
    <3>4. rank[nx[j]] < rank[j]
      BY <3>1, <3>3 DEF Links
    <3> QED BY <3>1, <3>2, <3>4
  <2> QED BY <2>1 DEF IsPath
<1>2. DOMAIN t = 1..n /\ \A j \in 1..n : from[j] \in 1..n /\ t[j] = q[from[j]]
  BY <1>0, <1>1 DEF Moved
<1>3. \A j, k \in 1..n : from[j] = from[k] => j = k
  BY <1>1
<1>4. \A i \in 1..n : \E j \in 1..n : from[j] = i
  BY <1>1
<1> HIDE DEF from
<1>5. Range(t) = Range(q)
  <2>1. Range(t) \subseteq Range(q)
    BY <1>2 DEF Range
  <2>2. ASSUME NEW i \in 1..n PROVE q[i] \in Range(t)
    <3>1. PICK j \in 1..n : from[j] = i
      BY <1>4
    <3> QED BY <1>2, <3>1 DEF Range
  <2> QED BY <2>1, <2>2 DEF Range
<1>6. IsInjective(q) => IsInjective(t)
  BY <1>2, <1>3 DEF IsInjective
<1> QED BY <1>0, <1>5, <1>6

=============================================================================
