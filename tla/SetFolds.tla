------------------------------- MODULE SetFolds -------------------------------
(***************************************************************************)
(* Sums over finite sets: what the folds of the community modules compute, *)
(* whatever the order in which they take the elements.                     *)
(***************************************************************************)
EXTENDS Integers, SequencesExt, FiniteSetTheorems, WellFoundedInduction, TLAPS

(* The sums of f over the subsets of D. *)
IsSum(g, f, D) ==
    /\ g \in [SUBSET D -> Int]
    /\ g[{}] = 0
    /\ \A T \in SUBSET D : \A x \in T : g[T] = f[x] + g[T \ {x}]

(* h adds up f as the folds do, one chosen element at a time. *)
Adds(h, f, D) ==
    \A T \in SUBSET D :
        h[T] = IF T = {} THEN 0 ELSE LET x == CHOOSE x \in T : TRUE IN f[x] + h[T \ {x}]

-----------------------------------------------------------------------------
(* Induction.                                                              *)

(* A set of naturals has a least element. *)
LEMMA NatLeast ==
  ASSUME NEW B, B \subseteq Nat, B # {}
  PROVE  \E m \in B : \A k \in B : m <= k
  <1>1. PICK m \in B : \A k \in B : ~(<<k, m>> \in OpToRel(<, Nat))
    BY NatLessThanWellFounded, WFMin, Zenon
  <1>2. ASSUME NEW k \in B PROVE m <= k
    <2>1. k \in Nat /\ m \in Nat
      OBVIOUS
    <2>2. k < m => <<k, m>> \in OpToRel(<, Nat)
      BY <2>1 DEF OpToRel
    <2>3. ~(<<k, m>> \in OpToRel(<, Nat))
      BY <1>1
    <2>4. ~(k < m)
      BY <2>2, <2>3, Zenon
    <2> QED
      BY <2>1, <2>4
  <1> QED
    BY <1>2

LEMMA MinOfNaturals ==
  ASSUME NEW B, B \subseteq Nat, B # {}
  PROVE  Min(B) \in B /\ \A k \in B : Min(B) <= k
  BY NatLeast DEF Min

(* What holds of a set if it holds of the set without any one element      *)
(* holds of all subsets of a finite set.                                   *)
LEMMA SubsetInduction ==
  ASSUME NEW D, IsFiniteSet(D), NEW P, {} \in P,
         \A T \in SUBSET D : T # {} /\ (\A x \in T : T \ {x} \in P) => T \in P
  PROVE  SUBSET D \subseteq P
  <1> SUFFICES ASSUME (SUBSET D) \ P # {} PROVE FALSE
    OBVIOUS
  <1> DEFINE B == (SUBSET D) \ P
  <1>1. B \subseteq FiniteSubsetsOf(D)
    BY FS_Subset DEF FiniteSubsetsOf
  <1>2. IsWellFoundedOn(StrictSubsetOrdering(D), FiniteSubsetsOf(D))
    BY FS_StrictSubsetOrderingWellFounded
  <1>3. PICK T \in B : \A U \in B : ~(<<U, T>> \in StrictSubsetOrdering(D))
    <2> HIDE DEF B
    <2>1. B # {}
      BY DEF B
    <2> QED
      BY <1>1, <1>2, <2>1, WFMin, Zenon
  <1>4. ASSUME NEW x \in T PROVE T \ {x} \in P
    <2>1. T \ {x} \in SUBSET D /\ T \in SUBSET D /\ T \ {x} # T
      OBVIOUS
    <2>2. <<T \ {x}, T>> \in StrictSubsetOrdering(D)
      BY <2>1 DEF StrictSubsetOrdering
    <2> QED
      BY <1>3, <2>1, <2>2
  <1> QED
    BY <1>4

LEMMA MaxOfNaturals ==
  ASSUME NEW D, IsFiniteSet(D), D \subseteq Nat, NEW B \in SUBSET D, B # {}
  PROVE  Max(B) \in B /\ \A k \in B : k <= Max(B)
  <1> DEFINE P == {T \in SUBSET D : T # {} => \E m \in T : \A k \in T : m >= k}
  <1>1. {} \in P
    OBVIOUS
  <1>2. ASSUME NEW T \in SUBSET D, T # {}, \A x \in T : T \ {x} \in P PROVE T \in P
    <2>1. PICK x \in T : TRUE
      BY <1>2
    <2>2. CASE T \ {x} = {}
      <3>1. \A k \in T : x >= k
        BY <2>2
      <3> QED
        BY <3>1
    <2>3. CASE T \ {x} # {}
      <3>1. PICK m \in T \ {x} : \A k \in T \ {x} : m >= k
        BY <1>2, <2>3
      <3>2. CASE m >= x
        BY <3>1, <3>2
      <3>3. CASE ~(m >= x)
        <4>1. \A k \in T : x >= k
          BY <3>1, <3>3
        <4> QED
          BY <4>1
      <3> QED
        BY <3>2, <3>3
    <2> QED
      BY <2>2, <2>3
  <1> HIDE DEF P
  <1>3. B \in P
    BY <1>1, <1>2, SubsetInduction
  <1>4. \E m \in B : \A k \in B : m >= k
    BY <1>3 DEF P
  <1>5. Max(B) \in B /\ \A k \in B : Max(B) >= k
    BY <1>4 DEF Max
  <1> QED
    BY <1>5

LEMMA DisjointUnion ==
  ASSUME NEW S, IsFiniteSet(S), NEW T, IsFiniteSet(T), S \cap T = {}
  PROVE  Cardinality(S \cup T) = Cardinality(S) + Cardinality(T)
  <1>1. Cardinality(S \cup T) = Cardinality(S) + Cardinality(T) - Cardinality(S \cap T)
    BY FS_Union
  <1>2. Cardinality(S \cap T) = 0
    BY FS_EmptySet
  <1>3. Cardinality(S) \in Nat /\ Cardinality(T) \in Nat
    BY FS_CardinalityType
  <1> QED
    BY <1>1, <1>2, <1>3

-----------------------------------------------------------------------------
(* Sums.                                                                   *)

LEMMA SumExists ==
  ASSUME NEW D, IsFiniteSet(D), NEW f, \A x \in D : f[x] \in Int
  PROVE  \E g : IsSum(g, f, D)
  <1> DEFINE P == {T \in SUBSET D : \E g : IsSum(g, f, T)}
  <1>1. {} \in P
    <2> DEFINE g == [T \in SUBSET {} |-> 0]
    <2>1. IsSum(g, f, {})
      BY DEF IsSum
    <2> QED
      BY <2>1
  <1>2. ASSUME NEW T \in SUBSET D, T # {}, \A x \in T : T \ {x} \in P PROVE T \in P
    <2>1. PICK d \in T : TRUE
      BY <1>2
    <2> DEFINE U == T \ {d}
    <2>2. PICK g : IsSum(g, f, U)
      BY <1>2
    <2> DEFINE h == [S \in SUBSET T |-> IF d \in S THEN f[d] + g[S \ {d}] ELSE g[S]]
    <2>3. /\ \A S \in SUBSET U : g[S] \in Int
          /\ g[{}] = 0
          /\ \A S \in SUBSET U : \A x \in S : g[S] = f[x] + g[S \ {x}]
      BY <2>2 DEF IsSum
    <2>4. \A S \in SUBSET T : S \ {d} \in SUBSET U /\ (d \notin S => S \in SUBSET U)
      OBVIOUS
    <2>5. h \in [SUBSET T -> Int]
      BY <2>3, <2>4
    <2>6. h[{}] = 0
      BY <2>3
    <2>7. ASSUME NEW S \in SUBSET T, NEW x \in S PROVE h[S] = f[x] + h[S \ {x}]
      <3>1. CASE x = d
        <4>1. h[S] = f[d] + g[S \ {d}] /\ h[S \ {d}] = g[S \ {d}]
          BY <3>1
        <4> QED
          BY <3>1, <4>1
      <3>2. CASE x # d /\ d \notin S
        BY <2>3, <2>4, <3>2
      <3>3. CASE x # d /\ d \in S
        <4> DEFINE V == S \ {d}
        <4>1. V \in SUBSET U /\ x \in V /\ (S \ {x}) \ {d} = V \ {x} /\ V \ {x} \in SUBSET U
          BY <3>3
        <4>2. h[S] = f[d] + g[V] /\ h[S \ {x}] = f[d] + g[V \ {x}]
          BY <3>3, <4>1
        <4>3. g[V] = f[x] + g[V \ {x}]
          BY <2>3, <4>1
        <4>4. f[x] \in Int /\ f[d] \in Int /\ g[V \ {x}] \in Int
          BY <2>3, <4>1
        <4> QED
          BY <4>2, <4>3, <4>4
      <3> QED
        BY <3>1, <3>2, <3>3
    <2> HIDE DEF h
    <2> QED
      BY <2>5, <2>6, <2>7 DEF IsSum
  <1> HIDE DEF P
  <1>3. D \in P
    BY <1>1, <1>2, SubsetInduction
  <1> QED
    BY <1>3 DEF P

(* Whatever follows the fold, one element at a time, computes the sum. *)
LEMMA SumUnique ==
  ASSUME NEW D, IsFiniteSet(D), NEW f, NEW g, IsSum(g, f, D), NEW h, Adds(h, f, D)
  PROVE  \A T \in SUBSET D : h[T] = g[T]
  <1> DEFINE P == {T \in SUBSET D : h[T] = g[T]}
  <1>1. {} \in P
    BY DEF IsSum, Adds
  <1>2. ASSUME NEW T \in SUBSET D, T # {}, \A x \in T : T \ {x} \in P PROVE T \in P
    <2> DEFINE x == CHOOSE x \in T : TRUE
    <2>1. x \in T
      BY <1>2
    <2>2. h[T] = f[x] + h[T \ {x}]
      BY <1>2 DEF Adds
    <2>3. h[T \ {x}] = g[T \ {x}]
      BY <1>2, <2>1
    <2>4. g[T] = f[x] + g[T \ {x}]
      BY <2>1 DEF IsSum
    <2> QED
      BY <2>2, <2>3, <2>4
  <1> HIDE DEF P
  <1>3. SUBSET D \subseteq P
    BY <1>1, <1>2, SubsetInduction
  <1> QED
    BY <1>3 DEF P

(* SumFunctionOnSet of the community modules. *)
LEMMA SumOfFunction ==
  ASSUME NEW D, IsFiniteSet(D), NEW f, NEW g, IsSum(g, f, D)
  PROVE  SumFunctionOnSet(f, D) = g[D]
  <1> DEFINE h == CHOOSE iter : iter = [s \in SUBSET D |->
                      IF s = {} THEN 0
                      ELSE LET x == CHOOSE x \in s : TRUE IN f[x] + iter[s \ {x}]]
  <1>1. g = [s \in SUBSET D |->
               IF s = {} THEN 0 ELSE LET x == CHOOSE x \in s : TRUE IN f[x] + g[s \ {x}]]
    BY DEF IsSum
  <1>2. h = [s \in SUBSET D |->
               IF s = {} THEN 0 ELSE LET x == CHOOSE x \in s : TRUE IN f[x] + h[s \ {x}]]
    BY <1>1
  <1>3. SumFunctionOnSet(f, D) = h[D]
    BY DEF SumFunctionOnSet, FoldFunctionOnSet, MapThenFoldSet
  <1> HIDE DEF h
  <1>4. Adds(h, f, D)
    BY <1>2 DEF Adds
  <1>5. h[D] = g[D]
    BY <1>4, SumUnique
  <1> QED
    BY <1>3, <1>5

(* MapThenSumSet of the community modules. *)
LEMMA SumOverMap ==
  ASSUME NEW D, IsFiniteSet(D), NEW f, NEW g, IsSum(g, f, D)
  PROVE  MapThenSumSet(LAMBDA x : f[x], D) = g[D]
  <1> DEFINE h == CHOOSE iter : iter = [s \in SUBSET D |->
                      IF s = {} THEN 0
                      ELSE LET x == CHOOSE x \in s : TRUE IN f[x] + iter[s \ {x}]]
  <1>1. g = [s \in SUBSET D |->
               IF s = {} THEN 0 ELSE LET x == CHOOSE x \in s : TRUE IN f[x] + g[s \ {x}]]
    BY DEF IsSum
  <1>2. h = [s \in SUBSET D |->
               IF s = {} THEN 0 ELSE LET x == CHOOSE x \in s : TRUE IN f[x] + h[s \ {x}]]
    BY <1>1
  <1>3. MapThenSumSet(LAMBDA x : f[x], D) = h[D]
    BY DEF MapThenSumSet, MapThenFoldSet
  <1> HIDE DEF h
  <1>4. Adds(h, f, D)
    BY <1>2 DEF Adds
  <1>5. h[D] = g[D]
    BY <1>4, SumUnique
  <1> QED
    BY <1>3, <1>5

(* Numbers that do not count are left out. *)
LEMMA SumOfCounted ==
  ASSUME NEW D, IsFiniteSet(D), NEW f, NEW g, IsSum(g, f, D),
         NEW C, C \subseteq D, NEW e, NEW h, IsSum(h, e, C),
         \A x \in C : e[x] = f[x], \A x \in D \ C : f[x] = 0
  PROVE  g[D] = h[C]
  <1> DEFINE P == {T \in SUBSET D : g[T] = h[T \cap C]}
  <1>1. {} \in P
    <2>1. {} \cap C = {}
      OBVIOUS
    <2> QED
      BY <2>1 DEF IsSum
  <1>2. ASSUME NEW T \in SUBSET D, T # {}, \A x \in T : T \ {x} \in P PROVE T \in P
    <2>1. PICK x \in T : TRUE
      BY <1>2
    <2>2. g[T] = f[x] + g[T \ {x}] /\ g[T \ {x}] = h[(T \ {x}) \cap C]
      BY <1>2, <2>1 DEF IsSum
    <2>3. T \cap C \in SUBSET C /\ (T \ {x}) \cap C \in SUBSET C
      OBVIOUS
    <2>4. h[(T \ {x}) \cap C] \in Int
      BY <2>3 DEF IsSum
    <2>5. CASE x \in C
      <3>1. x \in T \cap C /\ (T \cap C) \ {x} = (T \ {x}) \cap C
        BY <2>5
      <3>2. h[T \cap C] = e[x] + h[(T \ {x}) \cap C]
        BY <2>3, <3>1 DEF IsSum
      <3> QED
        BY <2>2, <2>5, <3>2
    <2>6. CASE x \notin C
      <3>1. T \cap C = (T \ {x}) \cap C
        BY <2>6
      <3> QED
        BY <2>2, <2>4, <2>6, <3>1
    <2> QED
      BY <2>5, <2>6
  <1> HIDE DEF P
  <1>3. D \in P
    BY <1>1, <1>2, SubsetInduction
  <1>4. D \cap C = C
    OBVIOUS
  <1> QED
    BY <1>3, <1>4 DEF P

LEMMA SumOfNaturals ==
  ASSUME NEW D, IsFiniteSet(D), NEW f, NEW g, IsSum(g, f, D), \A x \in D : f[x] \in Nat
  PROVE  \A T \in SUBSET D : g[T] \in Nat
  <1> DEFINE P == {T \in SUBSET D : g[T] \in Nat}
  <1>1. {} \in P
    BY DEF IsSum
  <1>2. ASSUME NEW T \in SUBSET D, T # {}, \A x \in T : T \ {x} \in P PROVE T \in P
    <2>1. PICK x \in T : TRUE
      BY <1>2
    <2>2. g[T] = f[x] + g[T \ {x}] /\ g[T \ {x}] \in Nat /\ f[x] \in Nat
      BY <1>2, <2>1 DEF IsSum
    <2> QED
      BY <2>2
  <1> HIDE DEF P
  <1>3. SUBSET D \subseteq P
    BY <1>1, <1>2, SubsetInduction
  <1> QED
    BY <1>3 DEF P

(* The sum over two sets without a common element. *)
LEMMA SumOfUnion ==
  ASSUME NEW D, IsFiniteSet(D), NEW f, NEW g, IsSum(g, f, D), \A x \in D : f[x] \in Int,
         NEW S \in SUBSET D, NEW U \in SUBSET D, S \cap U = {}
  PROVE  g[S \cup U] = g[S] + g[U]
  <1> DEFINE P == {T \in SUBSET U : g[S \cup T] = g[S] + g[T]}
  <1>1. {} \in P
    <2>1. S \cup {} = S /\ g[S] \in Int
      BY DEF IsSum
    <2> QED
      BY <2>1 DEF IsSum
  <1>2. ASSUME NEW T \in SUBSET U, T # {}, \A x \in T : T \ {x} \in P PROVE T \in P
    <2>1. PICK x \in T : TRUE
      BY <1>2
    <2>2. /\ (S \cup T) \ {x} = S \cup (T \ {x})
          /\ S \cup T \in SUBSET D /\ T \in SUBSET D /\ T \ {x} \in SUBSET D
          /\ x \in S \cup T /\ x \in D
      OBVIOUS
    <2>3. g[S \cup T] = f[x] + g[S \cup (T \ {x})] /\ g[T] = f[x] + g[T \ {x}]
      BY <2>2 DEF IsSum
    <2>4. g[S \cup (T \ {x})] = g[S] + g[T \ {x}]
      BY <1>2, <2>1
    <2>5. f[x] \in Int /\ g[S] \in Int /\ g[T \ {x}] \in Int
      BY <2>2 DEF IsSum
    <2> QED
      BY <2>3, <2>4, <2>5
  <1> HIDE DEF P
  <1>3. U \in P
    <2>1. IsFiniteSet(U)
      BY FS_Subset
    <2> QED
      BY <1>1, <1>2, <2>1, SubsetInduction
  <1> QED
    BY <1>3 DEF P

(* The sum over D is that of the sums over the parts p divides D into. *)
LEMMA SumOfParts ==
  ASSUME NEW D, IsFiniteSet(D), NEW f, NEW g, IsSum(g, f, D), \A x \in D : f[x] \in Int,
         NEW E, IsFiniteSet(E), NEW w, NEW h, IsSum(h, w, E), NEW p \in [D -> E],
         \A e \in E : w[e] = g[{x \in D : p[x] = e}]
  PROVE  h[E] = g[D]
  <1> DEFINE Of(A) == {x \in D : p[x] \in A}
             P == {A \in SUBSET E : h[A] = g[Of(A)]}
  <1>1. {} \in P
    <2>1. Of({}) = {}
      OBVIOUS
    <2> QED
      BY <2>1 DEF IsSum
  <1>2. ASSUME NEW A \in SUBSET E, A # {}, \A e \in A : A \ {e} \in P PROVE A \in P
    <2>1. PICK e \in A : TRUE
      BY <1>2
    <2> DEFINE S == Of(A \ {e})
               U == {x \in D : p[x] = e}
    <2>2. S \in SUBSET D /\ U \in SUBSET D /\ S \cap U = {} /\ Of(A) = S \cup U
      BY <2>1
    <2>3. h[A] = w[e] + h[A \ {e}] /\ h[A \ {e}] = g[S] /\ w[e] = g[U]
      BY <1>2, <2>1 DEF IsSum
    <2> HIDE DEF S, U, Of
    <2>4. g[S \cup U] = g[S] + g[U]
      BY <2>2, SumOfUnion
    <2>5. g[S] \in Int /\ g[U] \in Int
      BY <2>2 DEF IsSum
    <2>6. h[A] = g[Of(A)]
      BY <2>2, <2>3, <2>4, <2>5
    <2> QED
      BY <2>6
  <1>3. E \in P
    <2> HIDE DEF P
    <2> QED
      BY <1>1, <1>2, SubsetInduction
  <1>4. Of(E) = D
    OBVIOUS
  <1> QED
    BY <1>3, <1>4
===============================================================================
