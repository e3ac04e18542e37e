---------------------------- MODULE LedgerProofs ----------------------------
(***************************************************************************)
(* Lemmas about the operators of Ledger, for every list of transactions    *)
(* and every ledger: what the sums and the left-to-right run of            *)
(* HandleTransactions are, that no list of transactions makes money, and   *)
(* what a list says of the transactions in it.  The sums and the runs are  *)
(* folds, whose library definition builds a recursive function; each proof *)
(* about one takes the least set, or the least number, on which the claim  *)
(* fails and finds a smaller one.                                          *)
(***************************************************************************)
EXTENDS Ledger, FiniteSetTheorems, SequenceTheorems, TLAPS

-----------------------------------------------------------------------------
(***************************************************************************)
(* Least elements.  They stand in for induction: what fails somewhere      *)
(* fails at a least place.                                                 *)
(***************************************************************************)

\* A set of naturals that is not empty has a least member.
LEMMA LeastNumber ==
  ASSUME NEW T \in SUBSET Nat, T # {}
  PROVE  \E n \in T : \A m \in T : n <= m
<1>1. PICK n \in T : \A m \in T : ~(<<m, n>> \in OpToRel(<, Nat))
  BY NatLessThanWellFounded, WFMin
<1>2. \A m \in T : ~(m < n)
  BY <1>1 DEF OpToRel
<1> QED
  BY <1>2

\* What holds of 0, and of k whenever it holds of k - 1, holds up to N.
LEMMA CountUp ==
  ASSUME NEW N \in Nat, NEW T, 0 \in T, \A k \in 1..N : k - 1 \in T => k \in T
  PROVE  \A k \in 0..N : k \in T
<1> DEFINE Miss == {k \in 0..N : k \notin T}
<1> SUFFICES ASSUME Miss # {} PROVE FALSE
  OBVIOUS
<1>1. PICK n \in Miss : \A m \in Miss : n <= m
  <2>1. Miss \in SUBSET Nat
    OBVIOUS
  <2> HIDE DEF Miss
  <2> QED
    BY <2>1, LeastNumber
<1>2. n \in 1..N /\ n \notin T
  OBVIOUS
<1>3. n - 1 \in T
  <2>1. n - 1 \in 0..N /\ ~(n <= n - 1)
    BY <1>2
  <2> QED
    BY <1>1, <2>1
<1> QED
  BY <1>2, <1>3

\* Among subsets of a finite set, some member is minimal for inclusion.
LEMMA LeastSubset ==
  ASSUME NEW I, IsFiniteSet(I), NEW T \in SUBSET SUBSET I, T # {}
  PROVE  \E s \in T : \A t \in T : t \subseteq s => t = s
<1>1. T \subseteq FiniteSubsetsOf(I)
  BY FS_FiniteSubsetsOfFinite
<1>2. PICK s \in T : \A t \in T : ~(<<t, s>> \in StrictSubsetOrdering(I))
  BY <1>1, FS_StrictSubsetOrderingWellFounded, WFMin
<1>3. ASSUME NEW t \in T, t \subseteq s, t # s PROVE FALSE
  BY <1>2, <1>3 DEF StrictSubsetOrdering
<1> QED
  BY <1>3

-----------------------------------------------------------------------------
(***************************************************************************)
(* Sums.  SumFunctionOnSet picks the elements in an arbitrary order; the   *)
(* lemmas say that the order does not matter.                              *)
(***************************************************************************)

\* The element the fold takes from a set, and the partial sums it builds.
Pick(s) == CHOOSE x \in s : TRUE

Iter(f, I) ==
  CHOOSE iter : iter = [s \in SUBSET I |->
     IF s = {} THEN 0 ELSE f[Pick(s)] + iter[s \ {Pick(s)}]]

\* The sum over a set is the last of its partial sums.
LEMMA SumIsIter ==
  ASSUME NEW f, NEW I
  PROVE  SumFunctionOnSet(f, I) = Iter(f, I)[I]
BY DEF SumFunctionOnSet, FoldFunctionOnSet, MapThenFoldSet, Iter, Pick

\* Each partial sum adds one element to the sum without it.
LEMMA IterUnfolds ==
  ASSUME NEW f, NEW I, IsFiniteSet(I)
  PROVE  \A s \in SUBSET I : Iter(f, I)[s] =
           IF s = {} THEN 0 ELSE f[Pick(s)] + Iter(f, I)[s \ {Pick(s)}]
<1> DEFINE Small(n) == {s \in SUBSET I : Cardinality(s) <= n}
           Step(g, s) == IF s = {} THEN 0 ELSE f[Pick(s)] + g[s \ {Pick(s)}]
           Upto(n) == \E g : g = [s \in Small(n) |-> Step(g, s)]
<1>1. ASSUME NEW s \in SUBSET I
      PROVE  /\ Cardinality(s) \in Nat
             /\ Cardinality(s) = 0 => s = {}
  BY FS_Subset, FS_CardinalityType, FS_EmptySet
<1>a. ASSUME NEW s \in SUBSET I, s # {}
      PROVE  /\ s \ {Pick(s)} \in SUBSET I
             /\ Cardinality(s \ {Pick(s)}) = Cardinality(s) - 1
  <2>1. IsFiniteSet(s)
    BY FS_Subset
  <2>2. Pick(s) \in s
    BY <1>a DEF Pick
  <2> QED
    BY <2>1, <2>2, FS_RemoveElement
<1>b. ASSUME NEW n \in Nat, NEW s \in Small(n + 1), s # {}
      PROVE  s \ {Pick(s)} \in Small(n)
  BY <1>1, <1>a, <1>b
<1>c. ASSUME NEW n \in Nat PROVE Small(n) \subseteq Small(n + 1)
  BY <1>1
<1>2. Upto(0)
  <2> DEFINE g == [s \in Small(0) |-> 0]
  <2>1. \A s \in Small(0) : s = {}
    BY <1>1
  <2>2. g = [s \in Small(0) |-> Step(g, s)]
    BY <2>1
  <2> QED
    BY <2>2
<1>3. ASSUME NEW n \in Nat, Upto(n) PROVE Upto(n + 1)
  <2>1. PICK g : g = [s \in Small(n) |-> Step(g, s)]
    BY <1>3
  <2> DEFINE h == [s \in Small(n+1) |-> Step(g, s)]
  <2>2. \A s \in Small(n) : h[s] = g[s]
    BY <2>1, <1>c
  <2>3. \A s \in Small(n + 1) : s # {} => s \ {Pick(s)} \in Small(n)
    BY <1>b
  <2> HIDE DEF Small
  <2>4. \A s \in Small(n+1) : Step(g, s) = Step(h, s)
    BY <2>2, <2>3
  <2>5. h = [s \in Small(n + 1) |-> Step(h, s)]
    BY <2>4
  <2> QED
    BY <2>5
<1>4. Upto(Cardinality(I))
  <2> SUFFICES ASSUME ~Upto(Cardinality(I)) PROVE FALSE
    OBVIOUS
  <2> HIDE DEF Upto
  <2> DEFINE T == {n \in Nat : ~Upto(n)}
  <2>1. PICK n \in T : \A m \in T : n <= m
    <3>1. Cardinality(I) \in T
      BY <1>1
    <3> QED
      BY <3>1, LeastNumber
  <2>2. n # 0 /\ n - 1 \in Nat /\ n - 1 \notin T
    BY <1>2, <2>1
  <2>3. Upto((n - 1) + 1)
    BY <1>3, <2>2
  <2> QED
    BY <2>3, <2>1
<1>5. Small(Cardinality(I)) = SUBSET I
  BY FS_Subset
<1>6. \E g : g = [s \in SUBSET I |-> Step(g, s)]
  BY <1>4, <1>5
<1> DEFINE iter == Iter(f, I)
<1>7. iter = [s \in SUBSET I |-> Step(iter, s)]
  BY <1>6 DEF Iter
<1> HIDE DEF iter
<1>8. \A s \in SUBSET I : iter[s] = Step(iter, s)
  BY <1>7
<1> QED
  BY <1>8 DEF iter

\* A partial sum does not depend on the set that is being summed.
LEMMA SameIter ==
  ASSUME NEW f, NEW I, NEW J, IsFiniteSet(I), IsFiniteSet(J)
  PROVE  \A s \in SUBSET (I \cap J) : Iter(f, I)[s] = Iter(f, J)[s]
<1> DEFINE T == {s \in SUBSET (I \cap J) : Iter(f, I)[s] # Iter(f, J)[s]}
<1> SUFFICES ASSUME T # {} PROVE FALSE
  OBVIOUS
<1>1. IsFiniteSet(I \cap J)
  BY FS_Intersection
<1>2. PICK s \in T : \A t \in T : t \subseteq s => t = s
  <2>1. T \in SUBSET SUBSET (I \cap J)
    OBVIOUS
  <2> HIDE DEF T
  <2> QED
    BY <1>1, <2>1, LeastSubset
<1>a. /\ s \in SUBSET I /\ s \in SUBSET J
      /\ Iter(f, I)[s] # Iter(f, J)[s]
  BY <1>2
<1>3. s # {}
  BY <1>a, IterUnfolds
<1>4. Pick(s) \in s
  BY <1>3 DEF Pick
<1>5. s \ {Pick(s)} \in SUBSET (I \cap J) /\ s \ {Pick(s)} \notin T
  BY <1>2, <1>4
<1>6. Iter(f, I)[s \ {Pick(s)}] = Iter(f, J)[s \ {Pick(s)}]
  BY <1>5
<1>7. /\ Iter(f, I)[s] = f[Pick(s)] + Iter(f, I)[s \ {Pick(s)}]
      /\ Iter(f, J)[s] = f[Pick(s)] + Iter(f, J)[s \ {Pick(s)}]
  BY <1>a, <1>3, IterUnfolds
<1> QED
  BY <1>a, <1>6, <1>7

\* The sum over a set is its picked element plus the sum of the rest,
LEMMA SumUnfolds ==
  ASSUME NEW f, NEW I, IsFiniteSet(I)
  PROVE  SumFunctionOnSet(f, I) =
           IF I = {} THEN 0 ELSE f[Pick(I)] + SumFunctionOnSet(f, I \ {Pick(I)})
<1>1. Iter(f, I)[I] = IF I = {} THEN 0 ELSE f[Pick(I)] + Iter(f, I)[I \ {Pick(I)}]
  BY IterUnfolds
<1>2. Iter(f, I)[I \ {Pick(I)}] = Iter(f, I \ {Pick(I)})[I \ {Pick(I)}]
  BY SameIter, FS_RemoveElement
<1> QED
  BY <1>1, <1>2, SumIsIter

\* and so is it for ANY element: the order of the picks does not matter.
LEMMA SumTakesOut ==
  ASSUME NEW f, NEW I, IsFiniteSet(I), \A i \in I : f[i] \in Int
  PROVE  /\ SumFunctionOnSet(f, I) \in Int
         /\ \A x \in I : SumFunctionOnSet(f, I) = f[x] + SumFunctionOnSet(f, I \ {x})
<1> DEFINE S(s) == SumFunctionOnSet(f, s)
           Good(s) == S(s) \in Int /\ \A x \in s : S(s) = f[x] + S(s \ {x})
           T == {s \in SUBSET I : ~Good(s)}
<1> SUFFICES ASSUME T # {} PROVE FALSE
  OBVIOUS
<1>1. PICK s \in T : \A t \in T : t \subseteq s => t = s
  <2>1. T \in SUBSET SUBSET I
    OBVIOUS
  <2> HIDE DEF T
  <2> QED
    BY <2>1, LeastSubset
<1>2. IsFiniteSet(s)
  BY FS_Subset
<1>3. s # {}
  <2> SUFFICES ASSUME s = {} PROVE FALSE
    OBVIOUS
  <2>1. S(s) = 0
    BY <1>2, SumUnfolds
  <2> QED
    BY <2>1
<1> DEFINE p == Pick(s)
<1>4. p \in s /\ s \ {p} \in SUBSET I /\ s \ {p} # s
  BY <1>3 DEF Pick
<1>5. Good(s \ {p})
  BY <1>1, <1>4
<1>6. S(s) = f[p] + S(s \ {p})
  BY <1>2, <1>3, SumUnfolds
<1>7. S(s) \in Int
  BY <1>4, <1>5, <1>6
<1>8. ASSUME NEW x \in s, x # p PROVE S(s) = f[x] + S(s \ {x})
  <2>1. S(s \ {p}) = f[x] + S((s \ {p}) \ {x})
    BY <1>5, <1>8
  <2>2. Good(s \ {x})
    BY <1>1, <1>8
  <2>3. S(s \ {x}) = f[p] + S((s \ {x}) \ {p})
    BY <1>4, <1>8, <2>2
  <2>4. (s \ {p}) \ {x} = (s \ {x}) \ {p}
    OBVIOUS
  <2>5. /\ (s \ {p}) \ {x} \in SUBSET I /\ (s \ {p}) \ {x} # s
        /\ (s \ {p}) \ {x} \subseteq s
    BY <1>4
  <2>6. S((s \ {p}) \ {x}) \in Int
    BY <1>1, <2>5
  <2>7. f[x] \in Int /\ f[p] \in Int
    BY <1>4, <1>8
  <2> DEFINE a == S((s \ {p}) \ {x})
             b == S(s \ {p})
             c == S(s \ {x})
  <2>8. /\ S(s) = f[p] + b
        /\ b = f[x] + a
        /\ c = f[p] + a
        /\ a \in Int
    BY <1>6, <2>1, <2>3, <2>4, <2>6
  <2> HIDE DEF S, p, a, b, c
  <2>9. S(s) = f[x] + c
    BY <2>7, <2>8
  <2> QED
    BY <2>9 DEF c
<1> QED
  BY <1>1, <1>6, <1>7, <1>8

\* Nothing sums to zero.
LEMMA SumOfNothing ==
  ASSUME NEW f
  PROVE  SumFunctionOnSet(f, {}) = 0
BY FS_EmptySet, SumUnfolds

\* Functions that agree on a set have the same sum over it.
LEMMA SumAgrees ==
  ASSUME NEW f, NEW g, NEW I, IsFiniteSet(I), \A i \in I : f[i] \in Int /\ f[i] = g[i]
  PROVE  SumFunctionOnSet(f, I) = SumFunctionOnSet(g, I)
<1> DEFINE F(s) == SumFunctionOnSet(f, s)
           G(s) == SumFunctionOnSet(g, s)
           T == {s \in SUBSET I : F(s) # G(s)}
<1> SUFFICES ASSUME T # {} PROVE FALSE
  OBVIOUS
<1>1. PICK s \in T : \A t \in T : t \subseteq s => t = s
  <2>1. T \in SUBSET SUBSET I
    OBVIOUS
  <2> HIDE DEF T
  <2> QED
    BY <2>1, LeastSubset
<1>2. IsFiniteSet(s) /\ s \in SUBSET I /\ F(s) # G(s)
  BY <1>1, FS_Subset
<1>3. s # {}
  BY <1>2, SumOfNothing
<1>4. PICK x : x \in s
  BY <1>3
<1>5. F(s \ {x}) = G(s \ {x})
  BY <1>1, <1>4
<1>6. F(s) = f[x] + F(s \ {x}) /\ G(s) = g[x] + G(s \ {x})
  BY <1>2, <1>4, SumTakesOut
<1> QED
  BY <1>2, <1>4, <1>5, <1>6

\* Sums over disjoint sets add up.
LEMMA SumOfUnion ==
  ASSUME NEW f, NEW A, NEW B, IsFiniteSet(A), IsFiniteSet(B), A \cap B = {},
         \A i \in A \cup B : f[i] \in Int
  PROVE  SumFunctionOnSet(f, A \cup B) = SumFunctionOnSet(f, A) + SumFunctionOnSet(f, B)
<1> DEFINE S(s) == SumFunctionOnSet(f, s)
           T == {s \in SUBSET A : S(s \cup B) # S(s) + S(B)}
<1> SUFFICES ASSUME T # {} PROVE FALSE
  OBVIOUS
<1>1. PICK s \in T : \A t \in T : t \subseteq s => t = s
  <2>1. T \in SUBSET SUBSET A
    OBVIOUS
  <2> HIDE DEF T
  <2> QED
    BY <2>1, LeastSubset
<1>2. /\ IsFiniteSet(s) /\ s \in SUBSET A /\ S(s \cup B) # S(s) + S(B)
      /\ IsFiniteSet(s \cup B)
  BY <1>1, FS_Subset, FS_Union
<1>3. S(B) \in Int
  BY SumTakesOut
<1>4. s # {}
  <2> SUFFICES ASSUME s = {} PROVE FALSE
    OBVIOUS
  <2>1. S(s) = 0 /\ s \cup B = B
    BY SumOfNothing
  <2> HIDE DEF S
  <2> QED
    BY <1>2, <1>3, <2>1
<1>5. PICK x : x \in s
  BY <1>4
<1>6. S((s \ {x}) \cup B) = S(s \ {x}) + S(B)
  BY <1>1, <1>5
<1>7. (s \cup B) \ {x} = (s \ {x}) \cup B
  BY <1>2, <1>5
<1>8. S(s) = f[x] + S(s \ {x})
  BY <1>2, <1>5, SumTakesOut
<1>9. S(s \cup B) = f[x] + S((s \ {x}) \cup B)
  <2>1. S(s \cup B) = f[x] + S((s \cup B) \ {x})
    BY <1>2, <1>5, SumTakesOut
  <2> QED
    BY <2>1, <1>7
<1>10. S(s \ {x}) \in Int /\ f[x] \in Int
  BY <1>2, <1>5, SumTakesOut, FS_RemoveElement
<1> HIDE DEF S
<1> QED
  BY <1>2, <1>3, <1>6, <1>8, <1>9, <1>10

\* A sum may be taken over the image of its index set, when the index map is
\* one-to-one.
LEMMA SumOfImage ==
  ASSUME NEW f, NEW g, NEW m, NEW I, IsFiniteSet(I),
         \A i, j \in I : m[i] = m[j] => i = j,
         \A i \in I : g[i] \in Int /\ g[i] = f[m[i]]
  PROVE  /\ IsFiniteSet({m[i] : i \in I})
         /\ SumFunctionOnSet(g, I) = SumFunctionOnSet(f, {m[i] : i \in I})
<1> DEFINE M(s) == {m[i] : i \in s}
           F(s) == SumFunctionOnSet(f, M(s))
           G(s) == SumFunctionOnSet(g, s)
           Good(s) == IsFiniteSet(M(s)) /\ G(s) = F(s)
           T == {s \in SUBSET I : ~Good(s)}
<1>0. I \notin T => Good(I)
  OBVIOUS
<1> SUFFICES ASSUME T # {} PROVE FALSE
  BY <1>0
<1>1. PICK s \in T : \A t \in T : t \subseteq s => t = s
  <2>1. T \in SUBSET SUBSET I
    OBVIOUS
  <2> HIDE DEF T
  <2> QED
    BY <2>1, LeastSubset
<1>2. IsFiniteSet(s) /\ s \in SUBSET I /\ ~Good(s)
  BY <1>1, FS_Subset
<1>a. \A t \in SUBSET I : t \subseteq s /\ t # s => Good(t)
  <2> HIDE DEF Good
  <2> QED
    BY <1>1
<1>3. s # {}
  <2> SUFFICES ASSUME s = {} PROVE FALSE
    OBVIOUS
  <2>1. M(s) = {}
    OBVIOUS
  <2> QED
    BY <1>2, <2>1, FS_EmptySet, SumOfNothing
<1>4. PICK x : x \in s
  BY <1>3
<1>5. Good(s \ {x})
  <2>1. s \ {x} \in SUBSET I /\ s \ {x} \subseteq s /\ s \ {x} # s
    BY <1>2, <1>4
  <2> HIDE DEF Good
  <2> QED
    BY <1>a, <2>1
<1>6. M(s) = M(s \ {x}) \cup {m[x]}
  BY <1>4
<1>8. M(s) \ {m[x]} = M(s \ {x})
  BY <1>2, <1>4
<1>b. \A y \in M(s) : f[y] \in Int
  BY <1>2
<1>c. m[x] \in M(s) /\ g[x] = f[m[x]]
  BY <1>2, <1>4
<1> HIDE DEF M
<1>7. IsFiniteSet(M(s))
  <2>1. IsFiniteSet(M(s \ {x}))
    BY <1>5
  <2>2. IsFiniteSet({m[x]})
    BY FS_Singleton
  <2>3. IsFiniteSet(M(s \ {x}) \cup {m[x]})
    BY <2>1, <2>2, FS_Union
  <2> QED
    BY <1>6, <2>3
<1>9. G(s) = g[x] + G(s \ {x})
  BY <1>2, <1>4, SumTakesOut
<1>10. F(s) = f[m[x]] + F(s \ {x})
  <2>1. SumFunctionOnSet(f, M(s)) = f[m[x]] + SumFunctionOnSet(f, M(s) \ {m[x]})
    BY <1>7, <1>b, <1>c, SumTakesOut
  <2> QED
    BY <1>8, <2>1
<1>11. G(s) = F(s)
  BY <1>5, <1>9, <1>10, <1>c
<1> QED
  BY <1>2, <1>7, <1>11

\* A sum of non-negative integers is one,
LEMMA SumIsNatural ==
  ASSUME NEW f, NEW I, IsFiniteSet(I), \A i \in I : f[i] \in Int /\ f[i] >= 0
  PROVE  SumFunctionOnSet(f, I) \in Int /\ SumFunctionOnSet(f, I) >= 0
<1> DEFINE F(s) == SumFunctionOnSet(f, s)
           T == {s \in SUBSET I : ~(F(s) \in Int /\ F(s) >= 0)}
<1> SUFFICES ASSUME T # {} PROVE FALSE
  OBVIOUS
<1>1. PICK s \in T : \A t \in T : t \subseteq s => t = s
  <2>1. T \in SUBSET SUBSET I
    OBVIOUS
  <2> HIDE DEF T
  <2> QED
    BY <2>1, LeastSubset
<1>2. IsFiniteSet(s) /\ s \in SUBSET I /\ ~(F(s) \in Int /\ F(s) >= 0)
  BY <1>1, FS_Subset
<1>3. s # {}
  BY <1>2, SumOfNothing
<1>4. PICK x : x \in s
  BY <1>3
<1>5. F(s \ {x}) \in Int /\ F(s \ {x}) >= 0
  BY <1>1, <1>4
<1>6. F(s) = f[x] + F(s \ {x})
  BY <1>2, <1>4, SumTakesOut
<1> HIDE DEF F
<1> QED
  BY <1>2, <1>4, <1>5, <1>6

\* and a sum of non-positive integers is one.
LEMMA SumIsNotPositive ==
  ASSUME NEW f, NEW I, IsFiniteSet(I), \A i \in I : f[i] \in Int /\ f[i] <= 0
  PROVE  SumFunctionOnSet(f, I) \in Int /\ SumFunctionOnSet(f, I) <= 0
<1> DEFINE F(s) == SumFunctionOnSet(f, s)
           T == {s \in SUBSET I : ~(F(s) \in Int /\ F(s) <= 0)}
<1> SUFFICES ASSUME T # {} PROVE FALSE
  OBVIOUS
<1>1. PICK s \in T : \A t \in T : t \subseteq s => t = s
  <2>1. T \in SUBSET SUBSET I
    OBVIOUS
  <2> HIDE DEF T
  <2> QED
    BY <2>1, LeastSubset
<1>2. IsFiniteSet(s) /\ s \in SUBSET I /\ ~(F(s) \in Int /\ F(s) <= 0)
  BY <1>1, FS_Subset
<1>3. s # {}
  BY <1>2, SumOfNothing
<1>4. PICK x : x \in s
  BY <1>3
<1>5. F(s \ {x}) \in Int /\ F(s \ {x}) <= 0
  BY <1>1, <1>4
<1>6. F(s) = f[x] + F(s \ {x})
  BY <1>2, <1>4, SumTakesOut
<1> HIDE DEF F
<1> QED
  BY <1>2, <1>4, <1>5, <1>6

\* The sum over one element.
LEMMA SumOfOne ==
  ASSUME NEW f, NEW x, f[x] \in Int
  PROVE  SumFunctionOnSet(f, {x}) = f[x]
<1>1. IsFiniteSet({x}) /\ (\A i \in {x} : f[i] \in Int)
  BY FS_Singleton
<1>2. SumFunctionOnSet(f, {x}) = f[x] + SumFunctionOnSet(f, {x} \ {x})
  BY <1>1, SumTakesOut
<1>3. {x} \ {x} = {}
  OBVIOUS
<1> QED
  BY <1>2, <1>3, SumOfNothing

\* A number is an amount, and is not NAN.
LEMMA NumbersAreAmounts ==
  ASSUME NEW a \in Int
  PROVE  a \in Amount /\ a # NAN
BY NanAssumption DEF Amount

\* Where all the terms are numbers, SumOf is their sum;
LEMMA SumOfNumbers ==
  ASSUME NEW f, \A x \in DOMAIN f : f[x] \in Int
  PROVE  SumOf(f) = SumFunctionOnSet(f, DOMAIN f)
<1>1. \A x \in DOMAIN f : f[x] # NAN
  BY NumbersAreAmounts
<1> QED
  BY <1>1 DEF SumOf, SumFunction

\* where they are amounts, it is one.
LEMMA SumIsAmount ==
  ASSUME NEW f, IsFiniteSet(DOMAIN f), \A x \in DOMAIN f : f[x] \in Amount
  PROVE  SumOf(f) \in Amount
<1>1. CASE \E x \in DOMAIN f : f[x] = NAN
  BY <1>1 DEF SumOf, Amount
<1>2. CASE \A x \in DOMAIN f : f[x] # NAN
  <2>1. \A x \in DOMAIN f : f[x] \in Int
    BY <1>2 DEF Amount
  <2>2. SumFunctionOnSet(f, DOMAIN f) \in Int
    BY <2>1, SumTakesOut
  <2> QED
    BY <2>1, <2>2, SumOfNumbers, NumbersAreAmounts
<1> QED
  BY <1>1, <1>2

\* Sums and differences of amounts are amounts.
LEMMA PlusMinus ==
  ASSUME NEW a \in Amount, NEW b \in Amount
  PROVE  /\ Plus(a, b) \in Amount /\ Plus(a, b) = Plus(b, a)
         /\ Minus(a, b) \in Amount
<1>1. CASE NAN \in {a, b}
  BY <1>1 DEF Plus, Minus, Amount
<1>2. CASE NAN \notin {a, b}
  <2>1. a \in Int /\ b \in Int
    BY <1>2 DEF Amount
  <2>2. a + b \in Int /\ a + b = b + a /\ a - b \in Int
    BY <2>1
  <2>3. Plus(a, b) = a + b /\ Plus(b, a) = b + a /\ Minus(a, b) = a - b
    BY <1>2 DEF Plus, Minus
  <2> QED
    BY <2>2, <2>3, NumbersAreAmounts
<1> QED
  BY <1>1, <1>2

\* Of numbers they are the ordinary ones, and so is the comparison.
LEMMA NumberArithmetic ==
  ASSUME NEW a \in Int, NEW b \in Int
  PROVE  /\ Plus(a, b) = a + b
         /\ Minus(a, b) = a - b
         /\ Less(a, b) <=> a < b
<1>1. a # NAN /\ b # NAN
  BY NumbersAreAmounts
<1>2. NAN \notin {a, b}
  BY <1>1
<1> QED
  BY <1>1, <1>2 DEF Plus, Minus, Less

-----------------------------------------------------------------------------
(***************************************************************************)
(* Sequences of lists, and their concatenation.                            *)
(***************************************************************************)

\* Appending gives a list that is not empty,
LEMMA AppendFacts ==
  ASSUME NEW S, NEW e \in Seq(S), NEW x \in S
  PROVE  Append(e, x) \in Seq(S) /\ Append(e, x) # <<>>
<1>1. Append(e, x) \in Seq(S) /\ Len(Append(e, x)) = Len(e) + 1 /\ Len(e) \in Nat
  OBVIOUS
<1>2. Len(<<>>) = 0
  OBVIOUS
<1>3. Len(e) + 1 # 0
  BY <1>1
<1> QED
  BY <1>1, <1>2, <1>3

\* and commutes with prepending another list.
LEMMA AppendAssociates ==
  ASSUME NEW S, NEW a \in Seq(S), NEW e \in Seq(S), NEW x \in S
  PROVE  a \o Append(e, x) = Append(a \o e, x)
<1> DEFINE c == <<x>>
<1>1. c \in Seq(S) /\ Append(e, x) = e \o c
  OBVIOUS
<1>2. Append(a \o e, x) = (a \o e) \o c
  OBVIOUS
<1> HIDE DEF c
<1> QED
  BY <1>1, <1>2, ConcatAssociative

\* The partial concatenations FlattenSeq builds.
Flattening(seqs) ==
  CHOOSE flatten : flatten = [i \in 1..Len(seqs) |->
     IF i = 1 THEN seqs[i] ELSE flatten[i-1] \o seqs[i]]

\* Each of them adds one list to the one before.
LEMMA FlatteningUnfolds ==
  ASSUME NEW seqs, NEW n \in Nat, Len(seqs) = n
  PROVE  \A i \in 1..n : Flattening(seqs)[i] =
           IF i = 1 THEN seqs[i] ELSE Flattening(seqs)[i - 1] \o seqs[i]
<1> DEFINE Step(g, i) == IF i = 1 THEN seqs[i] ELSE g[i-1] \o seqs[i]
           Upto(m) == \E g : g = [i \in 1..m |-> Step(g, i)]
           T == {m \in 0..n : Upto(m)}
<1>1. Upto(0)
  <2> DEFINE g == [i \in 1..0 |-> 0]
  <2>1. g = [i \in 1..0 |-> Step(g, i)]
    OBVIOUS
  <2> QED
    BY <2>1
<1>2. ASSUME NEW m \in 1..n, Upto(m - 1) PROVE Upto(m)
  <2>1. PICK g : g = [i \in 1..(m - 1) |-> Step(g, i)]
    BY <1>2
  <2> DEFINE f == [i \in 1..m |-> Step(g, i)]
  <2> HIDE DEF Step
  <2>2. \A i \in 1..(m - 1) : g[i] = Step(g, i)
    BY <2>1
  <2>3. \A i \in 1..(m - 1) : f[i] = g[i]
    BY <2>2
  <2>4. \A i \in 1..m : i # 1 => i - 1 \in 1..(m - 1)
    OBVIOUS
  <2> HIDE DEF f
  <2>5. \A i \in 1..m : Step(g, i) = Step(f, i)
    BY <2>3, <2>4 DEF Step
  <2>6. f = [i \in 1..m |-> Step(f, i)]
    BY <2>5 DEF f
  <2> QED
    BY <2>6
<1>3. Upto(n)
  <2> HIDE DEF Upto
  <2>1. 0 \in T
    BY <1>1
  <2>2. ASSUME NEW k \in 1..n, k - 1 \in T PROVE k \in T
    BY <1>2, <2>2
  <2> HIDE DEF T
  <2>3. n \in T
    BY <2>1, <2>2, CountUp
  <2> QED
    BY <2>3 DEF T
<1> DEFINE a == Flattening(seqs)
<1>4. a = [i \in 1..n |-> Step(a, i)]
  BY <1>3 DEF Flattening
<1> HIDE DEF a
<1>5. \A i \in 1..n : a[i] = Step(a, i)
  BY <1>4
<1> QED
  BY <1>5 DEF a

\* Two sequences of lists that agree on their first n.
AgreeUpTo(s, t, n) == \A i \in 1..n : t[i] = s[i]

\* One more list at the end is one more list at the end of the concatenation.
LEMMA FlattenGrows ==
  ASSUME NEW s, NEW t, NEW n \in Nat, Len(s) = n, Len(t) = n + 1, AgreeUpTo(s, t, n)
  PROVE  /\ n = 0 => FlattenSeq(s) = s /\ FlattenSeq(t) = t[1]
         /\ n # 0 => FlattenSeq(t) = FlattenSeq(s) \o t[n + 1]
<1>1. n # 0 => FlattenSeq(s) = Flattening(s)[n]
  BY DEF FlattenSeq, Flattening
<1>2. FlattenSeq(t) = Flattening(t)[n + 1]
  <2>1. Len(t) # 0
    OBVIOUS
  <2> QED
    BY <2>1 DEF FlattenSeq, Flattening
<1>3. n = 0 => FlattenSeq(s) = s
  BY DEF FlattenSeq
<1> DEFINE a == Flattening(s)
           c == Flattening(t)
<1>4. \A i \in 1..n : a[i] = IF i = 1 THEN s[i] ELSE a[i - 1] \o s[i]
  BY FlatteningUnfolds
<1>5. \A i \in 1..(n + 1) : c[i] = IF i = 1 THEN t[i] ELSE c[i - 1] \o t[i]
  BY FlatteningUnfolds
<1> HIDE DEF a, c
<1>6. \A k \in 0..n : k # 0 => a[k] = c[k]
  <2> DEFINE T == {k \in 0..n : k # 0 => a[k] = c[k]}
  <2>1. 0 \in T
    OBVIOUS
  <2>2. ASSUME NEW k \in 1..n, k - 1 \in T PROVE k \in T
    <3>1. k \in 1..(n + 1) /\ k \in 0..n
      OBVIOUS
    <3>2. a[k] = IF k = 1 THEN s[k] ELSE a[k - 1] \o s[k]
      BY <1>4
    <3>3. c[k] = IF k = 1 THEN t[k] ELSE c[k - 1] \o t[k]
      BY <1>5, <3>1
    <3>4. k # 1 => a[k - 1] = c[k - 1]
      BY <2>2
    <3>5. t[k] = s[k]
      BY DEF AgreeUpTo
    <3> QED
      BY <3>1, <3>2, <3>3, <3>4, <3>5
  <2>3. \A k \in 0..n : k \in T
    <3> HIDE DEF T
    <3> QED
      BY <2>1, <2>2, CountUp
  <2> QED
    BY <2>3
<1>7. c[n + 1] = IF n = 0 THEN t[1] ELSE c[n] \o t[n + 1]
  <2>1. n + 1 \in 1..(n + 1) /\ (n + 1) - 1 = n /\ (n + 1 = 1 <=> n = 0)
    OBVIOUS
  <2>2. c[n + 1] = IF n + 1 = 1 THEN t[n + 1] ELSE c[(n + 1) - 1] \o t[n + 1]
    BY <1>5, <2>1
  <2> QED
    BY <2>1, <2>2
<1>8. n # 0 => a[n] = c[n]
  BY <1>6
<1> QED
  BY <1>1, <1>2, <1>3, <1>7, <1>8 DEF a, c

-----------------------------------------------------------------------------
(***************************************************************************)
(* HandleTransactions, one transaction at a time.  Run(txs, l, k) is the   *)
(* state (ledger and rejected transactions) after the first k.             *)
(***************************************************************************)

\* The state before the first transaction, and the runs the fold builds.
Nothing(l) == [L |-> l, errTxs |-> <<>>]

Runs(txs, l) ==
  CHOOSE iter : iter = [s \in SUBSET DOMAIN txs |->
     IF s = {} THEN Nothing(l)
     ELSE HandleTransaction(txs[Max(s)], iter[s \ {Max(s)}])]

Run(txs, l, k) == Runs(txs, l)[1..k]

\* HandleTransactions is the run over all of the list.
LEMMA HandleTransactionsIsRuns ==
  ASSUME NEW txs, NEW l
  PROVE  HandleTransactions(txs, l) = Runs(txs, l)[DOMAIN txs]
BY DEF HandleTransactions, FoldLeft, MapThenFoldSet, Runs, Nothing

\* The greatest index of a set of indices exists: the fold takes that one
\* last.
LEMMA MaxOfSet ==
  ASSUME NEW n \in Nat, NEW s \in SUBSET (1..n), s # {}
  PROVE  Max(s) \in s /\ \A y \in s : y <= Max(s)
<1> DEFINE T == {n - y : y \in s}
<1>1. PICK m \in T : \A t \in T : m <= t
  <2>1. T \in SUBSET Nat /\ T # {}
    OBVIOUS
  <2> HIDE DEF T
  <2> QED
    BY <2>1, LeastNumber
<1>2. PICK x \in s : m = n - x
  OBVIOUS
<1>3. ASSUME NEW y \in s PROVE x >= y
  <2>1. n - x <= n - y
    BY <1>1, <1>2
  <2> QED
    BY <2>1
<1> QED
  BY <1>3 DEF Max

\* A run ends with the transaction of greatest index,
LEMMA RunsUnfold ==
  ASSUME NEW txs, NEW l, NEW N \in Nat, DOMAIN txs = 1..N
  PROVE  \A s \in SUBSET (1..N) : Runs(txs, l)[s] =
           IF s = {} THEN Nothing(l)
           ELSE HandleTransaction(txs[Max(s)], Runs(txs, l)[s \ {Max(s)}])
<1> DEFINE I == 1..N
           Small(n) == {s \in SUBSET I : Cardinality(s) <= n}
           Step(g, s) == IF s = {} THEN Nothing(l)
                         ELSE HandleTransaction(txs[Max(s)], g[s \ {Max(s)}])
           Upto(n) == \E g : g = [s \in Small(n) |-> Step(g, s)]
<1>0. IsFiniteSet(I)
  BY FS_Interval
<1>1. ASSUME NEW s \in SUBSET I
      PROVE  /\ IsFiniteSet(s)
             /\ Cardinality(s) \in Nat
             /\ Cardinality(s) = 0 => s = {}
  BY <1>0, FS_Subset, FS_CardinalityType, FS_EmptySet
<1>a. ASSUME NEW s \in SUBSET I, s # {}
      PROVE  /\ s \ {Max(s)} \in SUBSET I
             /\ Cardinality(s \ {Max(s)}) = Cardinality(s) - 1
  BY <1>1, <1>a, MaxOfSet, FS_RemoveElement
<1>b. ASSUME NEW n \in Nat, NEW s \in Small(n + 1), s # {}
      PROVE  s \ {Max(s)} \in Small(n)
  BY <1>1, <1>a, <1>b
<1>c. ASSUME NEW n \in Nat PROVE Small(n) \subseteq Small(n + 1)
  BY <1>1
<1> HIDE DEF I
<1>2. Upto(0)
  <2> DEFINE g == [s \in Small(0) |-> Nothing(l)]
  <2>1. \A s \in Small(0) : s = {}
    BY <1>1
  <2>2. g = [s \in Small(0) |-> Step(g, s)]
    BY <2>1
  <2> QED
    BY <2>2
<1>3. ASSUME NEW n \in Nat, Upto(n) PROVE Upto(n + 1)
  <2>1. PICK g : g = [s \in Small(n) |-> Step(g, s)]
    BY <1>3
  <2> DEFINE h == [s \in Small(n+1) |-> Step(g, s)]
  <2>2. \A s \in Small(n) : h[s] = g[s]
    BY <2>1, <1>c
  <2>3. \A s \in Small(n + 1) : s # {} => s \ {Max(s)} \in Small(n)
    BY <1>b
  <2> HIDE DEF Small
  <2>4. \A s \in Small(n+1) : Step(g, s) = Step(h, s)
    BY <2>2, <2>3
  <2>5. h = [s \in Small(n + 1) |-> Step(h, s)]
    BY <2>4
  <2> QED
    BY <2>5
<1>4. Upto(Cardinality(I))
  <2> SUFFICES ASSUME ~Upto(Cardinality(I)) PROVE FALSE
    OBVIOUS
  <2> HIDE DEF Upto
  <2> DEFINE T == {n \in Nat : ~Upto(n)}
  <2>1. PICK n \in T : \A m \in T : n <= m
    <3>1. Cardinality(I) \in T
      BY <1>1
    <3> QED
      BY <3>1, LeastNumber
  <2>2. n # 0 /\ n - 1 \in Nat /\ n - 1 \notin T
    BY <1>2, <2>1
  <2>3. Upto((n - 1) + 1)
    BY <1>3, <2>2
  <2> QED
    BY <2>3, <2>1
<1>5. Small(Cardinality(I)) = SUBSET I
  BY <1>0, FS_Subset
<1>6. \E g : g = [s \in SUBSET I |-> Step(g, s)]
  BY <1>4, <1>5
<1> DEFINE iter == Runs(txs, l)
<1>7. iter = [s \in SUBSET I |-> Step(iter, s)]
  BY <1>6 DEF Runs, I
<1> HIDE DEF iter
<1>8. \A s \in SUBSET I : iter[s] = Step(iter, s)
  BY <1>7
<1> QED
  BY <1>8 DEF iter, I

\* so the k-th state comes from the one before by the k-th transaction.
LEMMA HandleTransactionsRun ==
  ASSUME NEW txs, NEW l, NEW N \in Nat, DOMAIN txs = 1..N
  PROVE  /\ HandleTransactions(txs, l) = Run(txs, l, N)
         /\ Run(txs, l, 0) = Nothing(l)
         /\ \A k \in 1..N : Run(txs, l, k) = HandleTransaction(txs[k], Run(txs, l, k - 1))
<1>1. HandleTransactions(txs, l) = Run(txs, l, N)
  BY HandleTransactionsIsRuns DEF Run
<1>2. Run(txs, l, 0) = Nothing(l)
  <2>1. 1..0 = {} /\ 1..0 \in SUBSET (1..N)
    OBVIOUS
  <2> QED
    BY <2>1, RunsUnfold DEF Run
<1>3. ASSUME NEW k \in 1..N
      PROVE  Run(txs, l, k) = HandleTransaction(txs[k], Run(txs, l, k - 1))
  <2>1. 1..k \in SUBSET (1..N) /\ k \in 1..k
    OBVIOUS
  <2>2. Max(1..k) = k
    <3>1. Max(1..k) \in 1..k /\ \A y \in 1..k : y <= Max(1..k)
      BY <2>1, MaxOfSet
    <3> QED
      BY <3>1
  <2>3. (1..k) \ {k} = 1..(k-1)
    OBVIOUS
  <2>4. Runs(txs, l)[1..k]
          = HandleTransaction(txs[Max(1..k)], Runs(txs, l)[(1..k) \ {Max(1..k)}])
    BY <2>1, RunsUnfold
  <2> QED
    BY <2>2, <2>3, <2>4 DEF Run
<1> QED
  BY <1>1, <1>2, <1>3

-----------------------------------------------------------------------------
(***************************************************************************)
(* One transaction.  A ledger is sound when it is a finite function that   *)
(* maps an output's name to that very output; a sound ledger stays sound,  *)
(* a valid transaction makes no money, and a coinbase at most what its     *)
(* output says.                                                            *)
(***************************************************************************)

\* A sound ledger.  The name of an output holds the hash of its transaction,
\* and the hash covers the outputs.
LedgerOK(l) ==
  /\ l = [u \in DOMAIN l |-> l[u]]
  /\ IsFiniteSet(DOMAIN l)
  /\ \A u \in DOMAIN l : l[u] = u.PrevTxHash.Outputs[u.Index + 1] /\ l[u].Value \in Amount
  /\ \A u \in DOMAIN l : u = UtxoLite(u.PrevTxHash, u.Index)

\* All the money a ledger holds.
Total(l) == SumFunction([u \in DOMAIN l |-> l[u].Value])

\* The names of a transaction's outputs.
CreatedUtxos(tx) == {UtxoLite(TxHash(tx), i - 1) : i \in DOMAIN tx.Outputs}

\* What the name of an output tells of its transaction.
LEMMA UtxoFields ==
  ASSUME NEW tx, NEW i
  PROVE  /\ UtxoLite(TxHash(tx), i).PrevTxHash.Outputs = tx.Outputs
         /\ UtxoLite(TxHash(tx), i).PrevTxHash = TxHash(tx)
         /\ UtxoLite(TxHash(tx), i).Index = i
BY DEF UtxoLite, TxHash

\* The lists of a transaction are finite.
LEMMA TransactionLists ==
  ASSUME NEW tx, IsTransaction(tx)
  PROVE  /\ Len(tx.Inputs) \in Nat /\ DOMAIN tx.Inputs = 1..Len(tx.Inputs)
         /\ Len(tx.Outputs) \in Nat /\ DOMAIN tx.Outputs = 1..Len(tx.Outputs)
         /\ IsFiniteSet(DOMAIN tx.Inputs) /\ IsFiniteSet(DOMAIN tx.Outputs)
<1>1. /\ Len(tx.Inputs) \in Nat /\ DOMAIN tx.Inputs = 1..Len(tx.Inputs)
      /\ Len(tx.Outputs) \in Nat /\ DOMAIN tx.Outputs = 1..Len(tx.Outputs)
  BY DEF IsTransaction
<1>2. \A n \in Nat : IsFiniteSet(1..n)
  BY FS_Interval
<1> QED
  BY <1>1, <1>2

\* The name of an output says which output it is.
LEMMA CreatedFacts ==
  ASSUME NEW tx, IsTransaction(tx)
  PROVE  /\ IsFiniteSet(CreatedUtxos(tx))
         /\ \A u \in CreatedUtxos(tx) :
              /\ u.Index + 1 \in DOMAIN tx.Outputs
              /\ u = UtxoLite(TxHash(tx), u.Index)
              /\ tx.Outputs[u.Index + 1] = u.PrevTxHash.Outputs[u.Index + 1]
              /\ tx.Outputs[u.Index + 1].Value \in Amount
<1> DEFINE n == Len(tx.Outputs)
           I == DOMAIN tx.Outputs
           m == [i \in I |-> UtxoLite(TxHash(tx), i - 1)]
           K == CreatedUtxos(tx)
<1>1. n \in Nat /\ I = 1..n /\ IsFiniteSet(I)
  BY TransactionLists
<1>2. \A i \in I : tx.Outputs[i].Value \in Amount
  BY DEF IsTransaction
<1>3. ASSUME NEW u \in K
      PROVE  /\ u.Index + 1 \in I
             /\ u = UtxoLite(TxHash(tx), u.Index)
             /\ tx.Outputs[u.Index + 1] = u.PrevTxHash.Outputs[u.Index + 1]
  <2>1. PICK i \in I : u = UtxoLite(TxHash(tx), i - 1)
    BY DEF CreatedUtxos
  <2>2. u.Index = i - 1 /\ u.PrevTxHash.Outputs = tx.Outputs
    BY <2>1, UtxoFields
  <2>3. u.Index + 1 = i
    BY <1>1, <2>2
  <2> QED
    BY <2>1, <2>2, <2>3
<1>4. IsFiniteSet(K)
  <2> DEFINE g == [i \in I |-> 0]
             f == [u \in K |-> 0]
  <2>1. K = {m[i] : i \in I}
    BY DEF CreatedUtxos
  <2>2. \A i, j \in I : m[i] = m[j] => i = j
    BY <1>1, UtxoFields
  <2>3. \A i \in I : g[i] \in Int /\ g[i] = f[m[i]]
    BY <2>1
  <2>4. IsFiniteSet(I)
    BY <1>1
  <2> HIDE DEF m, K, I, g, f
  <2>5. IsFiniteSet(K) /\ SumFunctionOnSet(g, I) = SumFunctionOnSet(f, K)
    BY <2>1, <2>2, <2>3, <2>4, SumOfImage
  <2> QED
    BY <2>5
<1> QED
  BY <1>2, <1>3, <1>4 DEF K, I

\* The outputs have names of their own, so a sum over the names is the sum
\* TotalOutput takes over the outputs.
LEMMA CreatedSum ==
  ASSUME NEW tx, IsTransaction(tx), HasNumbers(tx)
  PROVE  /\ SumFunctionOnSet([u \in CreatedUtxos(tx) |-> tx.Outputs[u.Index + 1].Value],
                             CreatedUtxos(tx)) = TotalOutput(tx)
         /\ TotalOutput(tx) \in Int
         /\ \A u \in CreatedUtxos(tx) : tx.Outputs[u.Index + 1].Value \in Int
<1> DEFINE n == Len(tx.Outputs)
           I == DOMAIN tx.Outputs
           g == [i \in I |-> tx.Outputs[i].Value]
           m == [i \in I |-> UtxoLite(TxHash(tx), i - 1)]
           K == CreatedUtxos(tx)
           f == [u \in K |-> tx.Outputs[u.Index + 1].Value]
<1>1. n \in Nat /\ I = 1..n /\ IsFiniteSet(I)
  BY TransactionLists
<1>2. \A i \in I : tx.Outputs[i].Value \in Int
  BY DEF HasNumbers
<1>3. \A u \in K : tx.Outputs[u.Index + 1].Value \in Int
  BY <1>2, CreatedFacts
<1>4. \A i, j \in I : m[i] = m[j] => i = j
  BY <1>1, UtxoFields
<1>5. {m[i] : i \in I} = K
  BY DEF CreatedUtxos
<1>6. \A i \in I : g[i] \in Int /\ g[i] = f[m[i]]
  <2> SUFFICES ASSUME NEW i \in I PROVE g[i] \in Int /\ g[i] = f[m[i]]
    OBVIOUS
  <2>1. m[i] \in K /\ m[i].Index = i - 1
    BY UtxoFields DEF CreatedUtxos
  <2>2. m[i].Index + 1 = i
    BY <1>1, <2>1
  <2> QED
    BY <1>2, <2>1, <2>2
<1>8. TotalOutput(tx) = SumFunctionOnSet(g, I)
  <2>1. DOMAIN g = I /\ TotalOutput(tx) = SumOf(g)
    BY DEF TotalOutput
  <2>2. \A i \in DOMAIN g : g[i] \in Int
    BY <1>2
  <2> HIDE DEF g, I
  <2> QED
    BY <2>1, <2>2, SumOfNumbers
<1>a. IsFiniteSet(I)
  BY <1>1
<1> HIDE DEF g, m, f, K, I
<1>7. IsFiniteSet(K) /\ SumFunctionOnSet(g, I) = SumFunctionOnSet(f, K)
  BY <1>a, <1>4, <1>5, <1>6, SumOfImage
<1>9. SumFunctionOnSet(g, I) \in Int
  BY <1>a, <1>6, SumTakesOut
<1> QED
  BY <1>3, <1>7, <1>8, <1>9 DEF K, f

\* The amounts of a transaction add up to an amount.
LEMMA TotalsAreAmounts ==
  ASSUME NEW tx, IsTransaction(tx), NEW l, LedgerOK(l)
  PROVE  /\ TotalOutput(tx) \in Amount
         /\ ClaimedUtxos(tx) \subseteq DOMAIN l => TotalInput(tx, l) \in Amount
<1> DEFINE O == DOMAIN tx.Outputs
           g == [i \in O |-> tx.Outputs[i].Value]
           I == DOMAIN tx.Inputs
           f == [i \in I |-> l[CreateUtxoFromInput(tx.Inputs[i])].Value]
<1>1. IsFiniteSet(O) /\ IsFiniteSet(I)
  BY TransactionLists
<1>2. SumOf(g) \in Amount
  <2>1. DOMAIN g = O /\ \A i \in O : g[i] \in Amount
    BY DEF IsTransaction
  <2> HIDE DEF g, O
  <2> QED
    BY <1>1, <2>1, SumIsAmount
<1>3. ASSUME ClaimedUtxos(tx) \subseteq DOMAIN l PROVE SumOf(f) \in Amount
  <2>1. DOMAIN f = I /\ \A i \in I : f[i] \in Amount
    BY <1>3 DEF ClaimedUtxos, LedgerOK
  <2> HIDE DEF f, I
  <2> QED
    BY <1>1, <2>1, SumIsAmount
<1> QED
  BY <1>2, <1>3 DEF TotalOutput, TotalInput

\* TotalInput is a number when the ledger has all the inputs, as numbers.
LEMMA ClaimedFacts ==
  ASSUME NEW tx, IsTransaction(tx), NEW l, LedgerOK(l), HoldsNumbers(l),
         ClaimedUtxos(tx) \subseteq DOMAIN l
  PROVE  TotalInput(tx, l) \in Int
<1> DEFINE I == DOMAIN tx.Inputs
           g == [i \in I |-> l[CreateUtxoFromInput(tx.Inputs[i])].Value]
<1>1. \A i \in I : g[i] \in Int
  BY DEF ClaimedUtxos, HoldsNumbers
<1>2. IsFiniteSet(I)
  BY TransactionLists
<1>3. DOMAIN g = I /\ TotalInput(tx, l) = SumOf(g)
  BY DEF TotalInput
<1> HIDE DEF g, I
<1> QED
  BY <1>1, <1>2, <1>3, SumOfNumbers, SumTakesOut

\* A valid transaction names no output twice, so what it claims is what
\* leaves the ledger.
LEMMA ClaimedSum ==
  ASSUME NEW tx, IsTransaction(tx), NEW l, LedgerOK(l), HoldsNumbers(l),
         IsValidTransaction(tx, l)
  PROVE  /\ IsFiniteSet(ClaimedUtxos(tx))
         /\ TotalInput(tx, l)
              = SumFunctionOnSet([u \in DOMAIN l |-> l[u].Value], ClaimedUtxos(tx))
<1> DEFINE I == DOMAIN tx.Inputs
           g == [i \in I |-> l[CreateUtxoFromInput(tx.Inputs[i])].Value]
           m == [i \in I |-> CreateUtxoFromInput(tx.Inputs[i])]
           f == [u \in DOMAIN l |-> l[u].Value]
           C == ClaimedUtxos(tx)
<1>1. IsFiniteSet(I)
  BY TransactionLists
<1>2. {m[i] : i \in I} = C
  BY DEF ClaimedUtxos
<1>3. \A i, j \in I : m[i] = m[j] => i = j
  BY DEF IsValidTransaction
<1>4. \A i \in I : g[i] \in Int /\ g[i] = f[m[i]]
  BY DEF IsValidTransaction, ClaimedUtxos, HoldsNumbers
<1>5. TotalInput(tx, l) = SumFunctionOnSet(g, I)
  <2>1. DOMAIN g = I /\ TotalInput(tx, l) = SumOf(g)
    BY DEF TotalInput
  <2> HIDE DEF g, m, I, C, f
  <2> QED
    BY <1>4, <2>1, SumOfNumbers
<1> HIDE DEF g, m, I, C, f
<1>6. IsFiniteSet(C) /\ SumFunctionOnSet(g, I) = SumFunctionOnSet(f, C)
  BY <1>1, <1>2, <1>3, <1>4, SumOfImage
<1> QED
  BY <1>5, <1>6 DEF f, C

\* What each name is worth, in a transaction and in a ledger.
Made(tx) == [u \in CreatedUtxos(tx) |-> tx.Outputs[u.Index + 1].Value]

Values(l) == [u \in DOMAIN l |-> l[u].Value]

\* ProcessInputsAndOutputs drops what is claimed, adds what is created, and
\* keeps a ledger sound;
LEMMA Processed ==
  ASSUME NEW tx, IsTransaction(tx), NEW l, LedgerOK(l),
         NEW q, q = ProcessInputsAndOutputs(tx, l)
  PROVE  /\ DOMAIN q = (DOMAIN l \ ClaimedUtxos(tx)) \cup CreatedUtxos(tx)
         /\ \A u \in CreatedUtxos(tx) : q[u] = tx.Outputs[u.Index + 1]
         /\ LedgerOK(q)
<1> DEFINE K == CreatedUtxos(tx)
           A == DOMAIN l \ ClaimedUtxos(tx)
<1>1. q = [u \in A \cup K |-> IF u \in K THEN tx.Outputs[u.Index + 1] ELSE l[u]]
  BY DEF ProcessInputsAndOutputs, CreatedUtxos
<1>2. /\ IsFiniteSet(K)
      /\ \A u \in K : /\ tx.Outputs[u.Index + 1] = u.PrevTxHash.Outputs[u.Index + 1]
                      /\ tx.Outputs[u.Index + 1].Value \in Amount
  BY CreatedFacts
<1>3. \A u \in A : l[u] = u.PrevTxHash.Outputs[u.Index + 1] /\ l[u].Value \in Amount
  BY DEF LedgerOK
<1>4. IsFiniteSet(A)
  BY FS_Subset DEF LedgerOK
<1>5. IsFiniteSet(A \cup K)
  BY <1>2, <1>4, FS_Union
<1> HIDE DEF K, A
<1>6. DOMAIN q = A \cup K
  BY <1>1
<1>7. \A u \in K : q[u] = tx.Outputs[u.Index + 1]
  BY <1>1
<1>8. \A u \in A : q[u] = l[u]
  BY <1>1, <1>2, <1>3
<1>9. q = [u \in DOMAIN q |-> q[u]]
  BY <1>1
<1>10. \A u \in DOMAIN q : q[u] = u.PrevTxHash.Outputs[u.Index + 1] /\ q[u].Value \in Amount
  BY <1>2, <1>3, <1>6, <1>7, <1>8
<1>11. ASSUME NEW u \in K PROVE u = UtxoLite(u.PrevTxHash, u.Index)
  <2>1. u = UtxoLite(TxHash(tx), u.Index)
    BY CreatedFacts DEF K
  <2> QED
    BY <2>1, UtxoFields
<1>12. \A u \in A : u = UtxoLite(u.PrevTxHash, u.Index)
  BY DEF LedgerOK, A
<1>13. LedgerOK(q)
  BY <1>5, <1>6, <1>9, <1>10, <1>11, <1>12 DEF LedgerOK
<1> QED
  BY <1>6, <1>7, <1>8, <1>13 DEF K, A

\* every other output stays as it was.
LEMMA ProcessedKept ==
  ASSUME NEW tx, IsTransaction(tx), NEW l, LedgerOK(l),
         NEW q, q = ProcessInputsAndOutputs(tx, l),
         NEW u \in DOMAIN l, u \notin ClaimedUtxos(tx)
  PROVE  q[u] = l[u]
<1> DEFINE K == CreatedUtxos(tx)
           A == DOMAIN l \ ClaimedUtxos(tx)
<1>1. q = [v \in A \cup K |-> IF v \in K THEN tx.Outputs[v.Index + 1] ELSE l[v]]
  BY DEF ProcessInputsAndOutputs, CreatedUtxos
<1>2. \A v \in K : tx.Outputs[v.Index + 1] = v.PrevTxHash.Outputs[v.Index + 1]
  BY CreatedFacts
<1>3. l[u] = u.PrevTxHash.Outputs[u.Index + 1]
  BY DEF LedgerOK
<1>4. u \in A
  OBVIOUS
<1> HIDE DEF K, A
<1> QED
  BY <1>1, <1>2, <1>3, <1>4

\* Where transaction and ledger hold only numbers, so does what it makes of
\* the ledger.
LEMMA ProcessedNumbers ==
  ASSUME NEW tx, IsTransaction(tx), HasNumbers(tx), NEW l, LedgerOK(l), HoldsNumbers(l)
  PROVE  HoldsNumbers(ProcessInputsAndOutputs(tx, l))
<1> DEFINE q == ProcessInputsAndOutputs(tx, l)
<1>1. DOMAIN q = (DOMAIN l \ ClaimedUtxos(tx)) \cup CreatedUtxos(tx)
  BY Processed
<1>2. \A u \in CreatedUtxos(tx) : q[u] = tx.Outputs[u.Index + 1]
  BY Processed
<1>3. \A u \in DOMAIN l \ ClaimedUtxos(tx) : q[u] = l[u]
  BY ProcessedKept
<1>4. \A u \in CreatedUtxos(tx) : tx.Outputs[u.Index + 1].Value \in Int
  BY CreatedSum
<1> HIDE DEF q
<1>5. \A u \in DOMAIN q : q[u].Value \in Int
  BY <1>1, <1>2, <1>3, <1>4 DEF HoldsNumbers
<1> QED
  BY <1>5 DEF HoldsNumbers, q

\* The total of a sound ledger of numbers is a number.
LEMMA TotalIsInt ==
  ASSUME NEW l, LedgerOK(l), HoldsNumbers(l)
  PROVE  Total(l) \in Int /\ Total(l) = SumFunctionOnSet(Values(l), DOMAIN l)
<1>1. \A u \in DOMAIN l : Values(l)[u] \in Int
  BY DEF HoldsNumbers, Values
<1>2. Total(l) = SumFunctionOnSet(Values(l), DOMAIN l)
  BY DEF Total, SumFunction, Values
<1>3. IsFiniteSet(DOMAIN l)
  BY DEF LedgerOK
<1> QED
  BY <1>1, <1>2, <1>3, SumTakesOut

\* The total afterwards: what was not claimed, plus what was not there
\* already.
LEMMA ProcessedTotal ==
  ASSUME NEW tx, IsTransaction(tx), HasNumbers(tx), NEW l, LedgerOK(l), HoldsNumbers(l),
         NEW q, q = ProcessInputsAndOutputs(tx, l),
         NEW A, NEW K
  PROVE  A = DOMAIN l \ ClaimedUtxos(tx) /\ K = CreatedUtxos(tx) \ A =>
         /\ IsFiniteSet(A) /\ IsFiniteSet(K)
         /\ Total(q) = SumFunctionOnSet(Values(l), A) + SumFunctionOnSet(Made(tx), K)
         /\ SumFunctionOnSet(Values(l), A) \in Int
         /\ SumFunctionOnSet(Made(tx), K) \in Int
<1>0. LedgerOK(q) /\ HoldsNumbers(q)
  BY Processed, ProcessedNumbers
<1>a. DOMAIN q = (DOMAIN l \ ClaimedUtxos(tx)) \cup CreatedUtxos(tx)
  BY Processed
<1>b. \A u \in DOMAIN l \ ClaimedUtxos(tx) : q[u] = l[u]
  BY ProcessedKept
<1>c. \A u \in CreatedUtxos(tx) : q[u] = tx.Outputs[u.Index + 1]
  BY Processed
<1>d. SUFFICES ASSUME A = DOMAIN l \ ClaimedUtxos(tx), K = CreatedUtxos(tx) \ A
      PROVE  /\ IsFiniteSet(A) /\ IsFiniteSet(K)
             /\ Total(q) = SumFunctionOnSet(Values(l), A) + SumFunctionOnSet(Made(tx), K)
             /\ SumFunctionOnSet(Values(l), A) \in Int
             /\ SumFunctionOnSet(Made(tx), K) \in Int
  OBVIOUS
<1>1. /\ DOMAIN q = A \cup K
      /\ LedgerOK(q)
      /\ \A u \in A : q[u] = l[u]
      /\ \A u \in K : q[u] = tx.Outputs[u.Index + 1]
  BY <1>0, <1>a, <1>b, <1>c, <1>d
<1>2. IsFiniteSet(A) /\ IsFiniteSet(K) /\ A \cap K = {}
  <2>1. IsFiniteSet(CreatedUtxos(tx))
    BY CreatedFacts
  <2> QED
    BY <1>d, <2>1, FS_Subset DEF LedgerOK
<1>3. Total(q) = SumFunctionOnSet(Values(q), A \cup K)
  BY <1>0, <1>1, TotalIsInt
<1>4. \A u \in A \cup K : Values(q)[u] \in Int
  BY <1>0, <1>1 DEF Values, HoldsNumbers
<1>5. SumFunctionOnSet(Values(q), A \cup K)
        = SumFunctionOnSet(Values(q), A) + SumFunctionOnSet(Values(q), K)
  BY <1>2, <1>4, SumOfUnion
<1>e. A \subseteq DOMAIN l /\ A \subseteq DOMAIN q /\ K \subseteq DOMAIN q /\ K \subseteq CreatedUtxos(tx)
  BY <1>d, <1>1
<1>6. \A u \in A : Values(q)[u] \in Int /\ Values(q)[u] = Values(l)[u]
  BY <1>1, <1>4, <1>e DEF Values
<1>7. \A u \in K : Values(q)[u] \in Int /\ Values(q)[u] = Made(tx)[u]
  BY <1>1, <1>4, <1>e DEF Values, Made
<1>8. SumFunctionOnSet(Values(q), A) = SumFunctionOnSet(Values(l), A)
  BY <1>2, <1>6, SumAgrees
<1>9. SumFunctionOnSet(Values(q), K) = SumFunctionOnSet(Made(tx), K)
  BY <1>2, <1>7, SumAgrees
<1>10. SumFunctionOnSet(Values(q), A) \in Int
  BY <1>2, <1>6, SumTakesOut
<1>11. SumFunctionOnSet(Values(q), K) \in Int
  BY <1>2, <1>7, SumTakesOut
<1> QED
  BY <1>2, <1>3, <1>5, <1>8, <1>9, <1>10, <1>11

\* A valid transaction makes no money: IsValidTransaction is enough for that.
LEMMA SpendingMakesNothing ==
  ASSUME NEW tx, IsTransaction(tx), HasNumbers(tx), NEW l, LedgerOK(l), HoldsNumbers(l),
         IsValidTransaction(tx, l)
  PROVE  Total(ProcessInputsAndOutputs(tx, l)) <= Total(l)
<1> DEFINE C == ClaimedUtxos(tx)
           A == DOMAIN l \ C
           N == CreatedUtxos(tx)
           K == N \ A
           c == SumFunctionOnSet(Values(l), C)
           a == SumFunctionOnSet(Values(l), A)
           k == SumFunctionOnSet(Made(tx), K)
           r == SumFunctionOnSet(Made(tx), N \cap A)
<1>1. IsFiniteSet(C) /\ C \subseteq DOMAIN l /\ TotalInput(tx, l) = c
  BY ClaimedSum DEF IsValidTransaction, Values
<1>2. /\ IsFiniteSet(A) /\ IsFiniteSet(K)
      /\ Total(ProcessInputsAndOutputs(tx, l)) = a + k
      /\ a \in Int /\ k \in Int
  BY ProcessedTotal
<1>3. Total(l) = a + c /\ c \in Int
  <2>1. \A u \in C \cup A : Values(l)[u] \in Int
    BY <1>1 DEF HoldsNumbers, Values
  <2>2. A \cup C = DOMAIN l /\ A \cap C = {}
    BY <1>1
  <2>3. Total(l) = SumFunctionOnSet(Values(l), A \cup C)
    BY <2>2, TotalIsInt
  <2> HIDE DEF A, C
  <2>4. SumFunctionOnSet(Values(l), A \cup C) = a + c
    BY <1>1, <1>2, <2>1, <2>2, SumOfUnion
  <2>5. c \in Int
    BY <1>1, <2>1, SumTakesOut
  <2> QED
    BY <2>3, <2>4, <2>5
<1>4. /\ IsFiniteSet(N)
      /\ \A u \in N : Made(tx)[u] \in Int /\ Made(tx)[u] >= 0
      /\ TotalOutput(tx) = SumFunctionOnSet(Made(tx), N)
  <2>1. ASSUME NEW u \in N PROVE Made(tx)[u] \in Int /\ Made(tx)[u] >= 0
    <3>1. u.Index + 1 \in DOMAIN tx.Outputs
      BY CreatedFacts
    <3>2. Made(tx)[u] = tx.Outputs[u.Index + 1].Value /\ Made(tx)[u] \in Int
      BY CreatedSum DEF Made
    <3>3. ~Less(Made(tx)[u], 0)
      BY <3>1, <3>2 DEF IsValidTransaction
    <3>4. Made(tx)[u] # NAN /\ 0 # NAN
      BY <3>2, NumbersAreAmounts
    <3>5. ~(Made(tx)[u] < 0)
      BY <3>3, <3>4 DEF Less
    <3> QED
      BY <3>2, <3>5
  <2> QED
    BY <2>1, CreatedFacts, CreatedSum DEF Made
<1>5. N = K \cup (N \cap A) /\ K \cap (N \cap A) = {} /\ N \cap A \subseteq N
  OBVIOUS
<1> HIDE DEF N, K, A, C
<1>6. IsFiniteSet(N \cap A)
  BY <1>4, <1>5, FS_Subset
<1>7. TotalOutput(tx) = k + r
  <2>1. \A u \in K \cup (N \cap A) : Made(tx)[u] \in Int
    BY <1>4, <1>5
  <2> QED
    BY <1>2, <1>4, <1>5, <1>6, <2>1, SumOfUnion
<1>8. r \in Int /\ r >= 0
  <2>1. \A u \in N \cap A : Made(tx)[u] \in Int /\ Made(tx)[u] >= 0
    BY <1>4, <1>5
  <2> QED
    BY <1>6, <2>1, SumIsNatural
<1>9. TotalOutput(tx) <= TotalInput(tx, l)
  <2>1. TotalInput(tx, l) \in Int /\ TotalOutput(tx) \in Int
    BY <1>1, <1>2, <1>3, <1>7, <1>8
  <2>2. ~Less(TotalInput(tx, l), TotalOutput(tx))
    BY DEF IsValidTransaction
  <2> QED
    BY <2>1, <2>2, NumberArithmetic
<1> QED
  BY <1>1, <1>2, <1>3, <1>7, <1>8, <1>9

\* A coinbase makes at most the value of its one output.
LEMMA CoinbaseMakesItsValue ==
  ASSUME NEW tx, IsTransaction(tx), HasNumbers(tx), NEW l, LedgerOK(l), HoldsNumbers(l),
         NEW v \in Nat,
         Len(tx.Inputs) = 0, Len(tx.Outputs) = 1, tx.Outputs[1].Value <= v
  PROVE  Total(ProcessInputsAndOutputs(tx, l)) <= Total(l) + v
<1> DEFINE A == DOMAIN l \ ClaimedUtxos(tx)
           K == CreatedUtxos(tx) \ A
           u == UtxoLite(TxHash(tx), 0)
<1>1. A = DOMAIN l
  <2>1. DOMAIN tx.Inputs = {}
    BY TransactionLists
  <2> QED
    BY <2>1 DEF ClaimedUtxos
<1>2. CreatedUtxos(tx) = {u}
  <2>1. DOMAIN tx.Outputs = {1}
    BY TransactionLists
  <2> QED
    BY <2>1 DEF CreatedUtxos
<1>3. /\ IsFiniteSet(A) /\ IsFiniteSet(K)
      /\ Total(ProcessInputsAndOutputs(tx, l))
           = SumFunctionOnSet(Values(l), A) + SumFunctionOnSet(Made(tx), K)
      /\ SumFunctionOnSet(Values(l), A) \in Int
      /\ SumFunctionOnSet(Made(tx), K) \in Int
  BY ProcessedTotal
<1>4. Total(l) = SumFunctionOnSet(Values(l), A)
  BY <1>1, TotalIsInt
<1>5. SumFunctionOnSet(Made(tx), K) <= v
  <2>1. CASE K = {}
    <3>1. SumFunctionOnSet(Made(tx), K) = 0
      BY <2>1, SumOfNothing
    <3> QED
      BY <3>1
  <2>2. CASE K = {u}
    <3>1. \A x \in CreatedUtxos(tx) : Made(tx)[x] \in Int
      BY CreatedSum DEF Made
    <3>4. Made(tx)[u] = tx.Outputs[1].Value
      <4>1. u.Index + 1 = 1
        BY UtxoFields
      <4> QED
        BY <1>2, <4>1 DEF Made
    <3>5. Made(tx)[u] \in Int
      BY <1>2, <3>1
    <3>6. SumFunctionOnSet(Made(tx), K) = Made(tx)[u]
      BY <2>2, <3>5, SumOfOne
    <3> QED
      BY <3>4, <3>6
  <2> QED
    BY <1>2, <2>1, <2>2
<1> HIDE DEF A, K
<1> QED
  BY <1>3, <1>4, <1>5

-----------------------------------------------------------------------------
(***************************************************************************)
(* Lists of transactions.                                                  *)
(***************************************************************************)

\* A list of transactions, like the Txs of a block.
IsTransactionList(txs) ==
  /\ txs \in Seq(Range(txs))
  /\ \A k \in DOMAIN txs : IsTransaction(txs[k])

\* Its indices are the numbers up to its length.
LEMMA ListDomain ==
  ASSUME NEW txs, IsTransactionList(txs)
  PROVE  /\ Len(txs) \in Nat
         /\ DOMAIN txs = 1..Len(txs)
         /\ IsFiniteSet(DOMAIN txs)
<1>1. Len(txs) \in Nat /\ DOMAIN txs = 1..Len(txs)
  BY DEF IsTransactionList
<1> QED
  BY <1>1, FS_Interval

\* Two lists joined are a list,
LEMMA ListJoins ==
  ASSUME NEW a, IsTransactionList(a), NEW b, IsTransactionList(b)
  PROVE  /\ IsTransactionList(a \o b)
         /\ Len(a \o b) = Len(a) + Len(b)
<1> DEFINE S == Range(a) \cup Range(b)
<1>1. a \in Seq(S) /\ b \in Seq(S)
  BY SeqMonotonic DEF IsTransactionList
<1>2. \A x \in S : IsTransaction(x)
  BY DEF IsTransactionList, Range
<1> HIDE DEF S
<1> DEFINE c == a \o b
<1>3. c \in Seq(S) /\ Len(c) = Len(a) + Len(b)
  BY <1>1, ConcatProperties
<1> HIDE DEF c
<1>4. c \in Seq(Range(c))
  BY <1>3 DEF Range
<1>5. \A k \in DOMAIN c : IsTransaction(c[k])
  BY <1>2, <1>3
<1> QED
  BY <1>3, <1>4, <1>5 DEF IsTransactionList, c

\* and so is a list with one transaction more.
LEMMA ListGrows ==
  ASSUME NEW a, IsTransactionList(a), NEW tx, IsTransaction(tx)
  PROVE  /\ IsTransactionList(Append(a, tx))
         /\ Len(Append(a, tx)) = Len(a) + 1
         /\ Append(a, tx)[Len(a) + 1] = tx
         /\ \A k \in 1..Len(a) : Append(a, tx)[k] = a[k]
         /\ Append(a, tx) = a \o <<tx>>
<1> DEFINE S == Range(a) \cup {tx}
           c == Append(a, tx)
<1>1. a \in Seq(S) /\ tx \in S
  BY SeqMonotonic DEF IsTransactionList
<1>2. \A x \in S : IsTransaction(x)
  BY DEF IsTransactionList, Range
<1> HIDE DEF S
<1>3. /\ c \in Seq(S) /\ Len(c) = Len(a) + 1
      /\ c[Len(a) + 1] = tx
      /\ \A k \in 1..Len(a) : c[k] = a[k]
      /\ c = a \o <<tx>>
  BY <1>1
<1> HIDE DEF c
<1>4. c \in Seq(Range(c))
  BY <1>3 DEF Range
<1>5. \A k \in DOMAIN c : IsTransaction(c[k])
  BY <1>2, <1>3
<1> QED
  BY <1>3, <1>4, <1>5 DEF IsTransactionList, c

\* The state of a run is a ledger and a list of rejects.
IsState(st) == st = [L |-> st.L, errTxs |-> st.errTxs]

\* One transaction either is processed or joins the rejects.
LEMMA HandledFields ==
  ASSUME NEW tx, NEW st, IsState(st)
  PROVE  /\ IsState(HandleTransaction(tx, st))
         /\ IsValidTransaction(tx, st.L) =>
              /\ HandleTransaction(tx, st).L = ProcessInputsAndOutputs(tx, st.L)
              /\ HandleTransaction(tx, st).errTxs = st.errTxs
         /\ ~IsValidTransaction(tx, st.L) =>
              /\ HandleTransaction(tx, st).L = st.L
              /\ HandleTransaction(tx, st).errTxs = Append(st.errTxs, tx)
BY DEF HandleTransaction, IsState

\* Either way the ledger stays sound,
LEMMA HandledLedger ==
  ASSUME NEW tx, IsTransaction(tx), NEW st, IsState(st), LedgerOK(st.L)
  PROVE  LedgerOK(HandleTransaction(tx, st).L)
<1>1. LedgerOK(ProcessInputsAndOutputs(tx, st.L))
  BY Processed
<1> QED
  BY <1>1, HandledFields

\* and gains no money,
LEMMA HandledTotal ==
  ASSUME NEW tx, IsTransaction(tx), HasNumbers(tx),
         NEW st, IsState(st), LedgerOK(st.L), HoldsNumbers(st.L)
  PROVE  /\ HoldsNumbers(HandleTransaction(tx, st).L)
         /\ Total(HandleTransaction(tx, st).L) <= Total(st.L)
<1>1. CASE IsValidTransaction(tx, st.L)
  <2> DEFINE q == ProcessInputsAndOutputs(tx, st.L)
  <2>1. HandleTransaction(tx, st).L = q
    BY <1>1, HandledFields
  <2>2. HoldsNumbers(q)
    BY ProcessedNumbers
  <2>3. Total(q) <= Total(st.L)
    BY <1>1, SpendingMakesNothing
  <2> QED
    BY <2>1, <2>2, <2>3
<1>2. CASE ~IsValidTransaction(tx, st.L)
  BY <1>2, HandledFields, TotalIsInt
<1> QED
  BY <1>1, <1>2

\* and so it is for all the transactions of a list.
LEMMA TransactionsKeepLedger ==
  ASSUME NEW txs, IsTransactionList(txs), NEW l, LedgerOK(l)
  PROVE  LedgerOK(HandleTransactions(txs, l).L)
<1> DEFINE N == Len(txs)
           st(k) == Run(txs, l, k)
           T == {k \in 0..N : IsState(st(k)) /\ LedgerOK(st(k).L)}
<1>1. N \in Nat /\ DOMAIN txs = 1..N
  BY ListDomain
<1>2. /\ HandleTransactions(txs, l) = st(N)
      /\ st(0) = Nothing(l)
      /\ \A k \in 1..N : st(k) = HandleTransaction(txs[k], st(k - 1))
  BY <1>1, HandleTransactionsRun
<1>3. 0 \in T
  <2>1. IsState(st(0)) /\ st(0).L = l
    BY <1>2 DEF IsState, Nothing
  <2> QED
    BY <1>1, <2>1
<1>4. ASSUME NEW k \in 1..N, k - 1 \in T PROVE k \in T
  <2> DEFINE p == st(k - 1)
  <2>1. IsState(p) /\ LedgerOK(p.L)
    BY <1>4
  <2>2. IsTransaction(txs[k]) /\ k \in 0..N
    BY <1>1 DEF IsTransactionList
  <2>3. st(k) = HandleTransaction(txs[k], p)
    BY <1>2
  <2> HIDE DEF p, st
  <2> QED
    BY <2>1, <2>2, <2>3, HandledFields, HandledLedger
<1>5. N \in T
  <2> HIDE DEF T
  <2>1. \A k \in 0..N : k \in T
    BY <1>1, <1>3, <1>4, CountUp
  <2> QED
    BY <1>1, <2>1
<1> QED
  BY <1>2, <1>5

LEMMA TransactionsMakeNothing ==
  ASSUME NEW txs, IsTransactionList(txs), OnlyNumbers(txs),
         NEW l, LedgerOK(l), HoldsNumbers(l)
  PROVE  /\ HoldsNumbers(HandleTransactions(txs, l).L)
         /\ Total(HandleTransactions(txs, l).L) <= Total(l)
<1> DEFINE N == Len(txs)
           st(k) == Run(txs, l, k)
           T == {k \in 0..N : /\ IsState(st(k))
                              /\ LedgerOK(st(k).L)
                              /\ HoldsNumbers(st(k).L)
                              /\ Total(st(k).L) <= Total(l)}
<1>1. N \in Nat /\ DOMAIN txs = 1..N
  BY ListDomain
<1>2. /\ HandleTransactions(txs, l) = st(N)
      /\ st(0) = Nothing(l)
      /\ \A k \in 1..N : st(k) = HandleTransaction(txs[k], st(k - 1))
  BY <1>1, HandleTransactionsRun
<1>3. 0 \in T
  <2>1. IsState(st(0)) /\ st(0).L = l
    BY <1>2 DEF IsState, Nothing
  <2>2. Total(l) <= Total(l)
    BY TotalIsInt
  <2> QED
    BY <1>1, <2>1, <2>2
<1>4. ASSUME NEW k \in 1..N, k - 1 \in T PROVE k \in T
  <2> DEFINE p == st(k - 1)
  <2>1. IsState(p) /\ LedgerOK(p.L) /\ HoldsNumbers(p.L) /\ Total(p.L) <= Total(l)
    BY <1>4
  <2>2. IsTransaction(txs[k]) /\ HasNumbers(txs[k]) /\ k \in 0..N
    BY <1>1 DEF IsTransactionList, OnlyNumbers
  <2>3. st(k) = HandleTransaction(txs[k], p)
    BY <1>2
  <2> HIDE DEF p, st
  <2>4. IsState(st(k)) /\ LedgerOK(st(k).L)
    BY <2>1, <2>2, <2>3, HandledFields, HandledLedger
  <2>5. HoldsNumbers(st(k).L) /\ Total(st(k).L) <= Total(p.L)
    BY <2>1, <2>2, <2>3, HandledTotal
  <2>6. Total(st(k).L) <= Total(l)
    BY <2>1, <2>4, <2>5, TotalIsInt
  <2> QED
    BY <2>2, <2>4, <2>5, <2>6
<1>5. N \in T
  <2> HIDE DEF T
  <2>1. \A k \in 0..N : k \in T
    BY <1>1, <1>3, <1>4, CountUp
  <2> QED
    BY <1>1, <2>1
<1> QED
  BY <1>2, <1>5

\* No rejects at the end: each transaction was valid against the ledger the
\* ones before it left.
LEMMA AllWereValid ==
  ASSUME NEW txs, IsTransactionList(txs), NEW l, HandleTransactions(txs, l).errTxs = <<>>
  PROVE  \A k \in 1..Len(txs) :
           /\ IsValidTransaction(txs[k], Run(txs, l, k - 1).L)
           /\ Run(txs, l, k).L = ProcessInputsAndOutputs(txs[k], Run(txs, l, k - 1).L)
<1> DEFINE N == Len(txs)
           S == Range(txs)
           st(k) == Run(txs, l, k)
           T == {k \in 0..N : IsState(st(k)) /\ st(k).errTxs \in Seq(S)}
           U == {k \in 0..N : st(N - k).errTxs = <<>>}
<1>1. N \in Nat /\ DOMAIN txs = 1..N
  BY ListDomain
<1>2. /\ HandleTransactions(txs, l) = st(N)
      /\ st(0) = Nothing(l)
      /\ \A k \in 1..N : st(k) = HandleTransaction(txs[k], st(k - 1))
  BY <1>1, HandleTransactionsRun
<1>3. \A k \in 1..N : txs[k] \in S
  BY <1>1 DEF Range
<1> HIDE DEF S, st
<1>4. \A k \in 0..N : k \in T
  <2>1. 0 \in T
    <3>1. st(0).errTxs = <<>> /\ IsState(st(0))
      BY <1>2 DEF IsState, Nothing
    <3>2. <<>> \in Seq(S)
      OBVIOUS
    <3>3. 0 \in 0..N
      BY <1>1
    <3>4. st(0).errTxs \in Seq(S)
      BY <3>1, <3>2
    <3> QED
      BY <3>1, <3>3, <3>4
  <2>2. ASSUME NEW k \in 1..N, k - 1 \in T PROVE k \in T
    <3>1. IsState(st(k - 1)) /\ st(k - 1).errTxs \in Seq(S)
      BY <2>2
    <3>2. IsState(st(k))
      BY <1>2, <3>1, HandledFields
    <3>3. \/ st(k).errTxs = st(k - 1).errTxs
          \/ st(k).errTxs = Append(st(k - 1).errTxs, txs[k])
      BY <1>2, <3>1, HandledFields
    <3>4. k \in 0..N
      BY <1>1
    <3>5. st(k).errTxs \in Seq(S)
      BY <1>3, <3>1, <3>3, AppendFacts
    <3> QED
      BY <3>2, <3>4, <3>5
  <2> HIDE DEF T
  <2> QED
    BY <1>1, <2>1, <2>2, CountUp
<1>5. ASSUME NEW k \in 1..N, st(k).errTxs = <<>>
      PROVE  /\ IsValidTransaction(txs[k], st(k - 1).L)
             /\ st(k).L = ProcessInputsAndOutputs(txs[k], st(k - 1).L)
             /\ st(k - 1).errTxs = <<>>
  <2>1. k - 1 \in 0..N
    BY <1>1
  <2>2. IsState(st(k - 1)) /\ st(k - 1).errTxs \in Seq(S)
    BY <1>4, <2>1
  <2>3. Append(st(k - 1).errTxs, txs[k]) # <<>>
    BY <1>3, <2>2, AppendFacts
  <2>4. IsValidTransaction(txs[k], st(k - 1).L)
    BY <1>2, <1>5, <2>2, <2>3, HandledFields
  <2> QED
    BY <1>2, <1>5, <2>2, <2>4, HandledFields
<1>6. \A k \in 0..N : k \in U
  <2>1. 0 \in U
    BY <1>1, <1>2
  <2>2. ASSUME NEW k \in 1..N, k - 1 \in U PROVE k \in U
    <3>1. N - (k - 1) \in 1..N /\ (N - (k - 1)) - 1 = N - k /\ k \in 0..N
      BY <1>1
    <3>2. st(N - (k - 1)).errTxs = <<>>
      BY <2>2
    <3>3. st((N - (k - 1)) - 1).errTxs = <<>>
      BY <1>5, <3>1, <3>2
    <3> QED
      BY <3>1, <3>3
  <2> HIDE DEF U
  <2> QED
    BY <1>1, <2>1, <2>2, CountUp
<1>7. \A k \in 1..N : st(k).errTxs = <<>>
  <2> SUFFICES ASSUME NEW k \in 1..N PROVE st(k).errTxs = <<>>
    OBVIOUS
  <2>1. N - k \in 0..N /\ N - (N - k) = k
    BY <1>1
  <2>2. N - k \in U
    BY <1>6, <2>1
  <2> QED
    BY <2>1, <2>2
<1> QED
  BY <1>5, <1>7 DEF st

\* CalcTxFee, where it is defined, is an amount,
LEMMA FeeIsAmount ==
  ASSUME NEW txs, IsTransactionList(txs), NEW l, LedgerOK(l), FeeIsDefined(txs, l)
  PROVE  CalcTxFee(txs, l) \in Amount
<1> DEFINE I == DOMAIN txs
           f == [k \in I |-> Minus(TotalOutput(txs[k]), TotalInput(txs[k], l))]
<1>1. ASSUME NEW k \in I PROVE f[k] \in Amount
  <2>1. IsTransaction(txs[k])
    BY DEF IsTransactionList
  <2>2. TotalOutput(txs[k]) \in Amount /\ TotalInput(txs[k], l) \in Amount
    BY <2>1, TotalsAreAmounts DEF FeeIsDefined
  <2> QED
    BY <2>2, PlusMinus
<1>2. IsFiniteSet(I)
  BY ListDomain
<1>3. DOMAIN f = I /\ CalcTxFee(txs, l) = SumOf(f)
  BY DEF CalcTxFee
<1> HIDE DEF f, I
<1> QED
  BY <1>1, <1>2, <1>3, SumIsAmount

\* and among numbers never positive: it sums outputs minus inputs.
LEMMA FeeIsNeverPositive ==
  ASSUME NEW txs, IsTransactionList(txs), OnlyNumbers(txs),
         NEW l, LedgerOK(l), HoldsNumbers(l), FeeIsDefined(txs, l)
  PROVE  CalcTxFee(txs, l) \in Int /\ CalcTxFee(txs, l) <= 0
<1> DEFINE I == DOMAIN txs
           f == [k \in I |-> Minus(TotalOutput(txs[k]), TotalInput(txs[k], l))]
<1>1. ASSUME NEW k \in I PROVE f[k] \in Int /\ f[k] <= 0
  <2>1. IsTransaction(txs[k]) /\ HasNumbers(txs[k])
    BY DEF IsTransactionList, OnlyNumbers
  <2>2. TotalOutput(txs[k]) \in Int
    BY <2>1, CreatedSum
  <2>3. TotalInput(txs[k], l) \in Int
    BY <2>1, ClaimedFacts DEF FeeIsDefined
  <2>4. ~Less(TotalInput(txs[k], l), TotalOutput(txs[k]))
    BY DEF FeeIsDefined
  <2>5. f[k] = TotalOutput(txs[k]) - TotalInput(txs[k], l)
    BY <2>2, <2>3, NumberArithmetic
  <2>6. ~(TotalInput(txs[k], l) < TotalOutput(txs[k]))
    BY <2>2, <2>3, <2>4, NumberArithmetic
  <2> QED
    BY <2>2, <2>3, <2>5, <2>6
<1>2. IsFiniteSet(I)
  BY ListDomain
<1>3. DOMAIN f = I /\ CalcTxFee(txs, l) = SumOf(f)
  BY DEF CalcTxFee
<1> HIDE DEF f, I
<1>4. CalcTxFee(txs, l) = SumFunctionOnSet(f, I)
  BY <1>1, <1>3, SumOfNumbers
<1>5. SumFunctionOnSet(f, I) \in Int /\ SumFunctionOnSet(f, I) <= 0
  BY <1>1, <1>2, SumIsNotPositive
<1> QED
  BY <1>4, <1>5

=============================================================================
