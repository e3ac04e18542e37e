--------------------------- MODULE BlockSyncProofs ---------------------------
(***************************************************************************)
(* Theorems about BlockSync, for any peers, blocks, batch size and number  *)
(* of confirmations.                                                       *)
(***************************************************************************)
EXTENDS BlockSyncProperties, FiniteSetTheorems, SequenceTheorems, TLAPS

\* A set of naturals that is not empty has a least member.
LEMMA LeastNumber ==
  ASSUME NEW T \in SUBSET Nat, T # {}
  PROVE  \E n \in T : \A m \in T : n <= m
<1>1. PICK n \in T : \A m \in T : ~(<<m, n>> \in OpToRel(<, Nat))
  BY NatLessThanWellFounded, WFMin
<1>2. \A m \in T : ~(m < n)
  BY <1>1 DEF OpToRel
<1> QED
  BY <1>2

\* What holds of 0, and of k whenever it holds of k - 1, holds up to N.
LEMMA CountUp ==
  ASSUME NEW N \in Nat, NEW T, 0 \in T, \A k \in 1..N : k - 1 \in T => k \in T
  PROVE  \A k \in 0..N : k \in T
<1> DEFINE Miss == {k \in 0..N : k \notin T}
<1> SUFFICES ASSUME Miss # {} PROVE FALSE
  OBVIOUS
<1>1. PICK n \in Miss : \A m \in Miss : n <= m
  <2>1. Miss \in SUBSET Nat
    OBVIOUS
  <2> HIDE DEF Miss
  <2> QED
    BY <2>1, LeastNumber
<1>2. n \in 1..N /\ n \notin T
  OBVIOUS
<1>3. n - 1 \in T
  <2>1. n - 1 \in 0..N /\ ~(n <= n - 1)
    BY <1>2
  <2> QED
    BY <1>1, <2>1
<1> QED
  BY <1>2, <1>3

-----------------------------------------------------------------------------
(***************************************************************************)
(* Paths.  A block is the path to it, and a path one step shorter its      *)
(* parent.                                                                 *)
(***************************************************************************)
UpTo(t, n) == SubSeq(t, 1, n)

\* The first n steps of a path are a path of n steps.
LEMMA UpToFacts ==
  ASSUME NEW S, NEW t \in Seq(S), NEW n \in 0..Len(t)
  PROVE  /\ UpTo(t, n) \in Seq(S)
         /\ Len(UpTo(t, n)) = n
         /\ \A i \in 1..n : UpTo(t, n)[i] = t[i]
<1>1. \A i \in 1..n : t[i] \in S
  OBVIOUS
<1>2. n \in Int /\ 1 \in Int /\ (IF 1 <= n THEN n - 1 + 1 ELSE 0) = n
  OBVIOUS
<1>3. /\ SubSeq(t, 1, n) \in Seq(S)
      /\ Len(SubSeq(t, 1, n)) = IF 1 <= n THEN n - 1 + 1 ELSE 0
      /\ \A i \in 1..n-1+1 : SubSeq(t, 1, n)[i] = t[1 + i - 1]
  BY <1>1, <1>2, SubSeqProperties
<1> QED
  BY <1>2, <1>3 DEF UpTo

\* All of a path; the first m of its first n steps; its parent.
LEMMA UpToAll ==
  ASSUME NEW S, NEW t \in Seq(S)
  PROVE  UpTo(t, Len(t)) = t /\ UpTo(t, 0) = <<>>
BY SubSeqFull, SubSeqEmpty DEF UpTo

\* Steps of a beginning of a path are steps of the path.
LEMMA UpToUpTo ==
  ASSUME NEW S, NEW t \in Seq(S), NEW n \in 0..Len(t), NEW m \in 0..n
  PROVE  UpTo(UpTo(t, n), m) = UpTo(t, m)
<1>1. UpTo(t, n) \in Seq(S) /\ Len(UpTo(t, n)) = n /\ \A i \in 1..n : UpTo(t, n)[i] = t[i]
  BY UpToFacts
<1>2. m \in 0..Len(UpTo(t, n)) /\ m \in 0..Len(t)
  BY <1>1
<1>3. /\ UpTo(UpTo(t, n), m) \in Seq(S)
      /\ Len(UpTo(UpTo(t, n), m)) = m
      /\ \A i \in 1..m : UpTo(UpTo(t, n), m)[i] = UpTo(t, n)[i]
  BY <1>1, <1>2, UpToFacts
<1>4. /\ UpTo(t, m) \in Seq(S)
      /\ Len(UpTo(t, m)) = m
      /\ \A i \in 1..m : UpTo(t, m)[i] = t[i]
  BY <1>2, UpToFacts
<1>5. \A i \in 1..m : UpTo(UpTo(t, n), m)[i] = UpTo(t, m)[i]
  BY <1>1, <1>3, <1>4
<1> QED
  BY <1>3, <1>4, <1>5, SeqEqual

\* The block under the n-th on a path is the one before it.
LEMMA FrontOfUpTo ==
  ASSUME NEW S, NEW t \in Seq(S), NEW n \in 1..Len(t)
  PROVE  Front(UpTo(t, n)) = UpTo(t, n - 1)
<1>1. n \in 0..Len(t) /\ n - 1 \in 0..n
  OBVIOUS
<1>2. Len(UpTo(t, n)) = n
  BY <1>1, UpToFacts
<1>3. UpTo(UpTo(t, n), n - 1) = UpTo(t, n - 1)
  BY <1>1, UpToUpTo
<1> QED
  BY <1>2, <1>3 DEF Front, UpTo

-----------------------------------------------------------------------------
(***************************************************************************)
(* GetBlocks, one block at a time from the tail down.  Visited(way, hash,  *)
(* number, k) is the state after the first k blocks of the way.            *)
(***************************************************************************)
Unvisited == [dq |-> <<>>, synced |-> TRUE, done |-> FALSE]

Visits(way, hash, number) ==
  CHOOSE iter : iter = [s \in SUBSET DOMAIN way |->
     IF s = {} THEN Unvisited
     ELSE Visit(iter[s \ {Max(s)}], way[Max(s)], hash, number)]

Visited(way, hash, number, k) == Visits(way, hash, number)[1..k]

VisitAll(way, hash, number) ==
  FoldLeft(LAMBDA st, b : Visit(st, b, hash, number), Unvisited, way)

\* The fold is the last of these states.
LEMMA VisitAllIsVisits ==
  ASSUME NEW way, NEW hash, NEW number
  PROVE  VisitAll(way, hash, number) = Visits(way, hash, number)[DOMAIN way]
BY DEF VisitAll, FoldLeft, MapThenFoldSet, Visits, Unvisited

\* The greatest index of a set of indices exists: the fold takes that one
\* last.
LEMMA MaxOfSet ==
  ASSUME NEW n \in Nat, NEW s \in SUBSET (1..n), s # {}
  PROVE  Max(s) \in s /\ \A y \in s : y <= Max(s)
<1> DEFINE T == {n - y : y \in s}
<1>1. PICK m \in T : \A t \in T : m <= t
  <2>a. \A y \in s : n - y \in Nat
    OBVIOUS
  <2>1. T \in SUBSET Nat /\ T # {}
    BY <2>a
  <2> HIDE DEF T
  <2> QED
    BY <2>1, LeastNumber
<1>2. PICK x \in s : m = n - x
  OBVIOUS
<1>3. ASSUME NEW y \in s PROVE x >= y
  <2>1. n - x <= n - y
    BY <1>1, <1>2
  <2> QED
    BY <2>1
<1> QED
  BY <1>3 DEF Max

\* A state comes from the one without the block of greatest index,
LEMMA VisitsUnfold ==
  ASSUME NEW way, NEW hash, NEW number, NEW N \in Nat, DOMAIN way = 1..N
  PROVE  \A s \in SUBSET (1..N) : Visits(way, hash, number)[s] =
           IF s = {} THEN Unvisited
           ELSE Visit(Visits(way, hash, number)[s \ {Max(s)}], way[Max(s)], hash, number)
<1> DEFINE I == 1..N
           Small(n) == {s \in SUBSET I : Cardinality(s) <= n}
           Step(g, s) == IF s = {} THEN Unvisited
                         ELSE Visit(g[s \ {Max(s)}], way[Max(s)], hash, number)
           Upto(n) == \E g : g = [s \in Small(n) |-> Step(g, s)]
<1>0. IsFiniteSet(I)
  BY FS_Interval
<1>1. ASSUME NEW s \in SUBSET I
      PROVE  /\ IsFiniteSet(s)
             /\ Cardinality(s) \in Nat
             /\ Cardinality(s) = 0 => s = {}
  BY <1>0, FS_Subset, FS_CardinalityType, FS_EmptySet
<1>a. ASSUME NEW s \in SUBSET I, s # {}
      PROVE  /\ s \ {Max(s)} \in SUBSET I
             /\ Cardinality(s \ {Max(s)}) = Cardinality(s) - 1
  BY <1>1, <1>a, MaxOfSet, FS_RemoveElement
<1>b. ASSUME NEW n \in Nat, NEW s \in Small(n + 1), s # {}
      PROVE  s \ {Max(s)} \in Small(n)
  BY <1>1, <1>a, <1>b
<1>c. ASSUME NEW n \in Nat PROVE Small(n) \subseteq Small(n + 1)
  BY <1>1
<1> HIDE DEF I
<1>2. Upto(0)
  <2> DEFINE g == [s \in Small(0) |-> Unvisited]
  <2>1. \A s \in Small(0) : s = {}
    BY <1>1
  <2>2. g = [s \in Small(0) |-> Step(g, s)]
    BY <2>1
  <2> QED
    BY <2>2
<1>3. ASSUME NEW n \in Nat, Upto(n) PROVE Upto(n + 1)
  <2>1. PICK g : g = [s \in Small(n) |-> Step(g, s)]
    BY <1>3
  <2> DEFINE h == [s \in Small(n+1) |-> Step(g, s)]
  <2>2. \A s \in Small(n) : h[s] = g[s]
    BY <2>1, <1>c
  <2>3. \A s \in Small(n + 1) : s # {} => s \ {Max(s)} \in Small(n)
    BY <1>b
  <2> HIDE DEF Small
  <2>4. \A s \in Small(n+1) : Step(g, s) = Step(h, s)
    BY <2>2, <2>3
  <2>5. h = [s \in Small(n + 1) |-> Step(h, s)]
    BY <2>4
  <2> QED
    BY <2>5
<1>4. Upto(Cardinality(I))
  <2> SUFFICES ASSUME ~Upto(Cardinality(I)) PROVE FALSE
    OBVIOUS
  <2> HIDE DEF Upto
  <2> DEFINE T == {n \in Nat : ~Upto(n)}
  <2>1. PICK n \in T : \A m \in T : n <= m
    <3>1. Cardinality(I) \in T
      BY <1>1
    <3> QED
      BY <3>1, LeastNumber
  <2>2. n # 0 /\ n - 1 \in Nat /\ n - 1 \notin T
    BY <1>2, <2>1
  <2>3. Upto((n - 1) + 1)
    BY <1>3, <2>2
  <2> QED
    BY <2>3, <2>1
<1>5. Small(Cardinality(I)) = SUBSET I
  BY <1>0, FS_Subset
<1>6. \E g : g = [s \in SUBSET I |-> Step(g, s)]
  BY <1>4, <1>5
<1> DEFINE iter == Visits(way, hash, number)
<1>7. iter = [s \in SUBSET I |-> Step(iter, s)]
  BY <1>6 DEF Visits, I
<1> HIDE DEF iter
<1>8. \A s \in SUBSET I : iter[s] = Step(iter, s)
  BY <1>7
<1> QED
  BY <1>8 DEF iter, I

\* so the k-th state comes from the one before by a visit to the k-th block.
VisitsInTurn(way, hash, number, n) ==
  /\ VisitAll(way, hash, number) = Visited(way, hash, number, n)
  /\ Visited(way, hash, number, 0) = Unvisited
  /\ \A k \in 1..n :
       Visited(way, hash, number, k)
         = Visit(Visited(way, hash, number, k - 1), way[k], hash, number)

\* A state comes from the one before by one visit; the fold is the last.
LEMMA VisitAllVisits ==
  ASSUME NEW way, NEW hash, NEW number, NEW N \in Nat, DOMAIN way = 1..N
  PROVE  VisitsInTurn(way, hash, number, N)
<1>1. VisitAll(way, hash, number) = Visited(way, hash, number, N)
  BY VisitAllIsVisits DEF Visited
<1>2. Visited(way, hash, number, 0) = Unvisited
  <2>1. 1..0 = {} /\ 1..0 \in SUBSET (1..N)
    OBVIOUS
  <2> QED
    BY <2>1, VisitsUnfold DEF Visited
<1>3. ASSUME NEW k \in 1..N
      PROVE  Visited(way, hash, number, k)
               = Visit(Visited(way, hash, number, k - 1), way[k], hash, number)
  <2>1. 1..k \in SUBSET (1..N) /\ k \in 1..k
    OBVIOUS
  <2>2. Max(1..k) = k
    <3>1. Max(1..k) \in 1..k /\ \A y \in 1..k : y <= Max(1..k)
      BY <2>1, MaxOfSet
    <3> QED
      BY <3>1
  <2>3. (1..k) \ {k} = 1..(k-1)
    OBVIOUS
  <2>4. Visits(way, hash, number)[1..k]
          = Visit(Visits(way, hash, number)[(1..k) \ {Max(1..k)}], way[Max(1..k)], hash, number)
    BY <2>1, VisitsUnfold
  <2> QED
    BY <2>2, <2>3, <2>4 DEF Visited
<1> QED
  BY <1>1, <1>2, <1>3 DEF VisitsInTurn

\* The deque after one more block at its front.
Pushed(s, b, number) == <<b>> \o (IF Len(s) = number THEN Front(s) ELSE s)

\* A block pushed to the front comes first, the others follow, and what is more
\* than number falls out at the back.
LEMMA PushedFront ==
  ASSUME NEW T, NEW s \in Seq(T), NEW b \in T, NEW number \in Nat \ {0},
         Len(s) <= number, NEW r, r = Pushed(s, b, number)
  PROVE  /\ r \in Seq(T)
         /\ Len(r) = IF Len(s) = number THEN number ELSE Len(s) + 1
         /\ r[1] = b
         /\ \A j \in 1..Len(r)-1 : r[j + 1] = s[j]
<1> DEFINE kept == IF Len(s) = number THEN Front(s) ELSE s
<1>1. /\ kept \in Seq(T)
      /\ Len(kept) = IF Len(s) = number THEN number - 1 ELSE Len(s)
      /\ \A j \in 1..Len(kept) : kept[j] = s[j]
  <2>1. CASE Len(s) = number
    <3>1. Len(s) - 1 \in 0..Len(s)
      BY <2>1
    <3>2. Front(s) = UpTo(s, Len(s) - 1)
      BY DEF Front, UpTo
    <3> QED
      BY <2>1, <3>1, <3>2, UpToFacts
  <2>2. CASE Len(s) # number
    BY <2>2
  <2> QED
    BY <2>1, <2>2
<1>2. r = <<b>> \o kept
  BY DEF Pushed
<1> HIDE DEF kept
<1> DEFINE one == <<b>>
<1>3. one \in Seq(T) /\ Len(one) = 1 /\ one[1] = b
  OBVIOUS
<1>a. r = one \o kept
  BY <1>2
<1> HIDE DEF one
<1>4. /\ r \in Seq(T)
      /\ Len(r) = 1 + Len(kept)
      /\ \A i \in 1..Len(r) : r[i] = IF i <= 1 THEN one[i] ELSE kept[i - 1]
  <2>1. /\ one \o kept \in Seq(T)
        /\ Len(one \o kept) = Len(one) + Len(kept)
        /\ \A i \in 1..Len(one) + Len(kept) :
             (one \o kept)[i] = IF i <= Len(one) THEN one[i] ELSE kept[i - Len(one)]
    BY <1>1, <1>3, ConcatProperties
  <2> QED
    BY <1>3, <1>a, <2>1
<1>5. Len(s) \in Nat /\ Len(kept) \in Nat
  BY <1>1
<1>6. ASSUME NEW j \in 1..Len(r)-1 PROVE r[j + 1] = s[j]
  <2>1. j + 1 \in 1..Len(r) /\ ~(j + 1 <= 1) /\ j + 1 - 1 = j /\ j \in 1..Len(kept)
    BY <1>4, <1>5
  <2> QED
    BY <1>1, <1>3, <1>4, <2>1
<1>7. r[1] = b
  <2>1. 1 \in 1..Len(r) /\ 1 <= 1
    BY <1>4, <1>5
  <2> QED
    BY <1>3, <1>4, <2>1
<1>8. r \in Seq(T) /\ Len(r) = 1 + Len(kept)
  BY <1>4
<1>9. Len(kept) = IF Len(s) = number THEN number - 1 ELSE Len(s)
  BY <1>1
<1>10. Len(r) = IF Len(s) = number THEN number ELSE Len(s) + 1
  BY <1>5, <1>8, <1>9
<1> QED
  BY <1>6, <1>7, <1>8, <1>10

\* The way GetBlocks goes: from the tail down to the genesis block.
LEMMA WayDown ==
  ASSUME NEW S, NEW t \in Seq(S), NEW way, way = Reverse(PathTo(t))
  PROVE  /\ DOMAIN way = 1..Len(t) + 1
         /\ \A k \in 1..Len(t) + 1 : way[k] = UpTo(t, Len(t) + 1 - k)
<1> DEFINE H == Len(t)
<1>1. H \in Nat
  OBVIOUS
<1>2. PathTo(t) = [k \in 1..H + 1 |-> UpTo(t, k - 1)]
  BY DEF PathTo, Height, UpTo
<1> HIDE DEF H
<1>3. \A k \in 1..H + 1 : UpTo(t, k - 1) \in Seq(S)
  BY <1>1, UpToFacts DEF H
<1>4. PathTo(t) \in Seq(Seq(S)) /\ Len(PathTo(t)) = H + 1
  <2>1. PathTo(t) \in [1..H + 1 -> Seq(S)]
    BY <1>2, <1>3
  <2>2. H + 1 \in Nat
    BY <1>1
  <2> QED
    BY <2>1, <2>2, IsASeq, LenProperties
<1> DEFINE path == PathTo(t)
<1>a. way = [i \in 1..Len(path) |-> path[(Len(path) - i) + 1]]
  BY DEF Reverse
<1>b. Len(path) = H + 1
  BY <1>4
<1>c. ASSUME NEW x \in 1..H + 1 PROVE path[x] = UpTo(t, x - 1)
  BY <1>2
<1> HIDE DEF path
<1>5. way = [k \in 1..H + 1 |-> path[(H + 1 - k) + 1]]
  BY <1>1, <1>a, <1>b
<1>6. ASSUME NEW k \in 1..H + 1 PROVE way[k] = UpTo(t, H + 1 - k)
  <2>1. (H + 1 - k) + 1 \in 1..H + 1 /\ (H + 1 - k) + 1 - 1 = H + 1 - k
    BY <1>1
  <2>2. path[(H + 1 - k) + 1] = UpTo(t, (H + 1 - k) + 1 - 1)
    BY <1>1, <1>c, <2>1
  <2> QED
    BY <1>5, <2>1, <2>2
<1> QED
  BY <1>5, <1>6 DEF H

\* What GetBlocks has after k blocks that the client does not know: the lowest
\* of them, up to the size of the deque.
Lowest(number, k) == IF k <= number THEN k ELSE number

Found(t, number, k) ==
  [dq     |-> [j \in 1..Lowest(number, k) |-> UpTo(t, Len(t) - k + j)],
   synced |-> k <= number,
   done   |-> k >= Len(t)]

\* One block more.
LEMMA FoundGrows ==
  ASSUME NEW S, NEW t \in Seq(S), NEW hash, NEW number \in Nat \ {0},
         NEW k \in 1..Len(t), UpTo(t, Len(t) + 1 - k) # hash
  PROVE  Visit(Found(t, number, k - 1), UpTo(t, Len(t) + 1 - k), hash, number)
           = Found(t, number, k)
<1> DEFINE H == Len(t)
           b == UpTo(t, H + 1 - k)
           st == Found(t, number, k - 1)
           s == st.dq
           r == Pushed(s, b, number)
<1>1. H \in Nat /\ k \in 1..H /\ k - 1 \in Nat /\ k \in Nat
  OBVIOUS
<1>2. b \in Seq(S) /\ Len(b) = H + 1 - k
  <2>1. H + 1 - k \in 0..H
    BY <1>1
  <2> QED
    BY <2>1, UpToFacts
<1>3. /\ s \in Seq(Seq(S))
      /\ Len(s) = Lowest(number, k - 1)
      /\ \A j \in 1..Len(s) : s[j] = UpTo(t, H - (k - 1) + j)
  <2>1. s = [j \in 1..Lowest(number, k - 1) |-> UpTo(t, H - (k - 1) + j)]
    BY DEF Found
  <2>2. Lowest(number, k - 1) \in Nat /\ Lowest(number, k - 1) <= k - 1
    BY <1>1 DEF Lowest
  <2>3. \A j \in 1..Lowest(number, k - 1) : H - (k - 1) + j \in 0..H
    BY <1>1, <2>2
  <2> HIDE DEF s, H
  <2>4. \A j \in 1..Lowest(number, k - 1) : UpTo(t, H - (k - 1) + j) \in Seq(S)
    BY <2>3, UpToFacts DEF H
  <2>5. s \in [1..Lowest(number, k - 1) -> Seq(S)]
    BY <2>1, <2>4
  <2>6. s \in Seq(Seq(S)) /\ Len(s) = Lowest(number, k - 1)
    BY <2>2, <2>5, IsASeq, LenProperties
  <2> QED
    BY <2>1, <2>6
<1>4. ~st.done /\ (st.synced <=> k - 1 <= number)
  <2>1. st.done = (k - 1 >= H) /\ st.synced = (k - 1 <= number)
    BY DEF Found
  <2>2. ~(k - 1 >= H)
    BY <1>1
  <2> QED
    BY <2>1, <2>2
<1>5. Visit(st, b, hash, number)
        = [dq     |-> r,
           synced |-> st.synced /\ Len(s) < number,
           done   |-> Height(b) <= 1]
  BY <1>4 DEF Visit, Pushed
<1> HIDE DEF H, b, st, s, r
<1>6. Len(s) \in Nat /\ Len(s) <= number
  BY <1>1, <1>3 DEF Lowest
<1>7. /\ r \in Seq(Seq(S))
      /\ Len(r) = IF Len(s) = number THEN number ELSE Len(s) + 1
      /\ r[1] = b
      /\ \A j \in 1..Len(r)-1 : r[j + 1] = s[j]
  <2>1. r = Pushed(s, b, number)
    BY DEF r
  <2> DEFINE T == Seq(S)
  <2>2. b \in T /\ s \in Seq(T) /\ Len(s) <= number
    BY <1>2, <1>3, <1>6
  <2> HIDE DEF T
  <2>3. /\ r \in Seq(T)
        /\ Len(r) = IF Len(s) = number THEN number ELSE Len(s) + 1
        /\ r[1] = b
        /\ \A j \in 1..Len(r)-1 : r[j + 1] = s[j]
    <3>1. number \in Nat \ {0}
      OBVIOUS
    <3>2. \A x \in Seq(T), y \in T :
            Len(x) <= number =>
              /\ Pushed(x, y, number) \in Seq(T)
              /\ Len(Pushed(x, y, number)) = IF Len(x) = number THEN number ELSE Len(x) + 1
              /\ Pushed(x, y, number)[1] = y
              /\ \A j \in 1..Len(Pushed(x, y, number))-1 : Pushed(x, y, number)[j + 1] = x[j]
      BY <3>1, PushedFront
    <3> QED
      BY <2>1, <2>2, <3>2
  <2> QED
    BY <2>3 DEF T
<1>8. Len(r) = Lowest(number, k)
  BY <1>1, <1>3, <1>7 DEF Lowest
<1>9. ASSUME NEW j \in 1..Len(r) PROVE r[j] = UpTo(t, H - k + j)
  <2>1. CASE j = 1
    <3>1. H - k + 1 = H + 1 - k
      BY <1>1
    <3> QED
      BY <1>7, <2>1, <3>1 DEF b
  <2>2. CASE j # 1
    <3>1. j - 1 \in 1..Len(r)-1 /\ j - 1 \in 1..Len(s) /\ (j - 1) + 1 = j
      BY <1>6, <1>7, <2>2
    <3>2. H - (k - 1) + (j - 1) = H - k + j
      BY <1>1, <3>1
    <3>3. r[(j - 1) + 1] = s[j - 1] /\ s[j - 1] = UpTo(t, H - (k - 1) + (j - 1))
      BY <1>3, <1>7, <3>1
    <3> QED
      BY <3>1, <3>2, <3>3
  <2> QED
    BY <2>1, <2>2
<1>10. r = [j \in 1..Lowest(number, k) |-> UpTo(t, H - k + j)]
  <2>1. r \in [1..Len(r) -> Seq(S)]
    BY <1>7, LenProperties
  <2> QED
    BY <1>8, <1>9, <2>1
<1>11. st.synced /\ Len(s) < number <=> k <= number
  <2>1. k - 1 <= number /\ Lowest(number, k - 1) < number <=> k <= number
    BY <1>1 DEF Lowest
  <2> QED
    BY <1>3, <1>4, <2>1
<1>12. Height(b) <= 1 <=> k >= H
  BY <1>1, <1>2 DEF Height
<1>13. Found(t, number, k)
         = [dq     |-> r,
            synced |-> st.synced /\ Len(s) < number,
            done   |-> Height(b) <= 1]
  <2>1. /\ (st.synced /\ Len(s) < number) = (k <= number)
        /\ (Height(b) <= 1) = (k >= H)
    BY <1>11, <1>12
  <2> QED
    BY <1>10, <2>1 DEF Found, H
<1> QED
  BY <1>5, <1>13 DEF H, b, st

\* What the client knows of a branch, if it sends this hash.
Known(t, hash) == IF IsPrefix(hash, t) THEN Height(hash) ELSE 0

\* The known part is the longest beginning of the branch that can be the hash.
LEMMA KnownFacts ==
  ASSUME NEW S, NEW t \in Seq(S), NEW R, NEW hash \in Seq(R)
  PROVE  /\ Known(t, hash) \in 0..Len(t)
         /\ Known(t, hash) # 0 => UpTo(t, Known(t, hash)) = hash
         /\ \A n \in 0..Len(t) : n > Known(t, hash) => UpTo(t, n) # hash
<1>1. Len(t) \in Nat /\ Len(hash) \in Nat /\ SubSeq(hash, 1, Len(hash)) = hash
  BY SubSeqFull
<1>2. IsPrefix(hash, t) <=> Len(hash) <= Len(t) /\ hash = UpTo(t, Len(hash))
  BY <1>1 DEF IsPrefix, UpTo
<1>3. ASSUME NEW n \in 0..Len(t), UpTo(t, n) = hash PROVE n <= Known(t, hash)
  <2>1. Len(hash) = n
    BY <1>3, UpToFacts
  <2> QED
    BY <1>1, <1>2, <1>3, <2>1 DEF Known, Height
<1>4. Known(t, hash) \in 0..Len(t)
  BY <1>1, <1>2 DEF Known, Height
<1>5. Known(t, hash) # 0 => UpTo(t, Known(t, hash)) = hash
  BY <1>2 DEF Known, Height
<1>6. ASSUME NEW n \in 0..Len(t), n > Known(t, hash) PROVE UpTo(t, n) # hash
  BY <1>3, <1>4, <1>6
<1> QED
  BY <1>4, <1>5, <1>6

\* The states of GetBlocks on its way.
LEMMA WayVisits ==
  ASSUME NEW S, NEW t \in Seq(S), NEW hash, NEW number
  PROVE  VisitsInTurn(Reverse(PathTo(t)), hash, number, Len(t) + 1)
<1> DEFINE H == Len(t)
           way == Reverse(PathTo(t))
<1>1. H + 1 \in Nat /\ DOMAIN way = 1..H + 1
  BY WayDown
<1> HIDE DEF way, H
<1>2. VisitsInTurn(way, hash, number, H + 1)
  BY <1>1, VisitAllVisits
<1> QED
  BY <1>2 DEF way, H

\* Down to the block that the client knows, GetBlocks takes each block.
LEMMA VisitsFind ==
  ASSUME NEW S, NEW t \in Seq(S), t # GENESIS, NEW R, NEW hash \in Seq(R),
         NEW number \in Nat \ {0}, NEW way, way = Reverse(PathTo(t)),
         NEW k \in 0..Len(t) - Known(t, hash)
  PROVE  Visited(way, hash, number, k) = Found(t, number, k)
<1> DEFINE H == Len(t)
           K == H - Known(t, hash)
           At(i) == Visited(way, hash, number, i)
           T == {i \in 0..K : At(i) = Found(t, number, i)}
<1>1. H \in Nat /\ H > 0
  BY DEF GENESIS
<1>2. K \in Nat /\ K <= H
  BY <1>1, KnownFacts
<1>3. H + 1 \in Nat /\ DOMAIN way = 1..H + 1
  BY <1>1, WayDown
<1>4. /\ At(0) = Unvisited
      /\ \A i \in 1..H + 1 : At(i) = Visit(At(i - 1), way[i], hash, number)
  BY WayVisits DEF VisitsInTurn
<1>5. Found(t, number, 0) = Unvisited
  <2>1. Lowest(number, 0) = 0 /\ 0 <= number /\ ~(0 >= H)
    BY <1>1 DEF Lowest
  <2>2. [j \in 1..0 |-> UpTo(t, Len(t) - 0 + j)] = <<>>
    OBVIOUS
  <2>3. (0 <= number) = TRUE /\ (0 >= Len(t)) = FALSE
    BY <2>1
  <2>4. Found(t, number, 0)
          = [dq |-> [j \in 1..0 |-> UpTo(t, Len(t) - 0 + j)], synced |-> 0 <= number,
             done |-> 0 >= Len(t)]
    BY <2>1 DEF Found
  <2> QED
    BY <2>2, <2>3, <2>4 DEF Unvisited
<1>6. ASSUME NEW i \in 1..K, At(i - 1) = Found(t, number, i - 1)
      PROVE  At(i) = Found(t, number, i)
  <2>1. i \in 1..H + 1 /\ i \in 1..H
    BY <1>1, <1>2
  <2>2. way[i] = UpTo(t, H + 1 - i)
    BY <2>1, WayDown
  <2>3. UpTo(t, H + 1 - i) # hash
    <3>1. H + 1 - i \in 0..Len(t) /\ H + 1 - i > Known(t, hash)
      BY <1>1, <1>2, KnownFacts
    <3> QED
      BY <3>1, KnownFacts
  <2>4. Visit(Found(t, number, i - 1), UpTo(t, H + 1 - i), hash, number) = Found(t, number, i)
    BY <2>1, <2>3, FoundGrows
  <2>5. At(i) = Visit(At(i - 1), way[i], hash, number)
    BY <1>4, <2>1
  <2> QED
    BY <1>6, <2>2, <2>4, <2>5
<1>7. 0 \in T
  BY <1>2, <1>4, <1>5
<1>8. \A i \in 1..K : i - 1 \in T => i \in T
  BY <1>2, <1>6
<1> HIDE DEF T
<1>9. \A i \in 0..K : i \in T
  BY <1>2, <1>7, <1>8, CountUp
<1> QED
  BY <1>9 DEF T

\* From there on nothing changes any more.
LEMMA VisitsEnd ==
  ASSUME NEW S, NEW t \in Seq(S), t # GENESIS, NEW R, NEW hash \in Seq(R),
         NEW number \in Nat \ {0}, NEW K, K = Len(t) - Known(t, hash)
  PROVE  /\ GetBlocks(t, hash, number).dq = Found(t, number, K).dq
         /\ GetBlocks(t, hash, number).synced = Found(t, number, K).synced
<1> DEFINE H == Len(t)
           way == Reverse(PathTo(t))
           At(i) == Visited(way, hash, number, i)
           Final == [Found(t, number, K) EXCEPT !.done = TRUE]
           T == {i \in 0..H + 1 : i <= K \/ At(i) = Final}
<1>1. H \in Nat /\ H > 0
  BY DEF GENESIS
<1>2. K \in Nat /\ K <= H /\ Known(t, hash) = H - K
  BY <1>1, KnownFacts
<1>3. H + 1 \in Nat /\ DOMAIN way = 1..H + 1 /\ \A i \in 1..H + 1 : way[i] = UpTo(t, H + 1 - i)
  BY <1>1, WayDown
<1>4. /\ VisitAll(way, hash, number) = At(H + 1)
      /\ \A i \in 1..H + 1 : At(i) = Visit(At(i - 1), way[i], hash, number)
  BY WayVisits DEF VisitsInTurn
<1>5. At(K) = Found(t, number, K)
  <2>1. K \in 0..Len(t) - Known(t, hash)
    BY <1>2
  <2> HIDE DEF H
  <2> QED
    BY <2>1, VisitsFind
<1>6. ASSUME NEW i \in 1..H + 1, i = K + 1 PROVE At(i) = Final
  <2>1. way[i] = UpTo(t, Known(t, hash)) /\ i - 1 = K
    <3>1. H + 1 - i = Known(t, hash)
      <4>1. H \in Int /\ K \in Int
        BY <1>1, <1>2
      <4>2. Known(t, hash) = H - K
        BY <1>2
      <4>3. i = K + 1
        BY <1>6
      <4>4. \A a, c \in Int : a + 1 - (c + 1) = a - c
        OBVIOUS
      <4> HIDE DEF H
      <4> QED
        BY <4>1, <4>2, <4>3, <4>4, Zenon
    <3> QED
      BY <1>2, <1>3, <1>6, <3>1
  <2>2. Found(t, number, K).done \/ way[i] = hash
    <3>1. CASE Known(t, hash) = 0
      <4>1. K >= Len(t)
        BY <1>1, <3>1
      <4> QED
        BY <4>1 DEF Found
    <3>2. CASE Known(t, hash) # 0
      BY <2>1, <3>2, KnownFacts
    <3> QED
      BY <3>1, <3>2
  <2>3. At(i) = Visit(Found(t, number, K), way[i], hash, number)
    BY <1>4, <1>5, <2>1
  <2> QED
    BY <2>2, <2>3 DEF Visit
<1>7. Final.done /\ [Final EXCEPT !.done = TRUE] = Final
  BY DEF Found
<1>8. ASSUME NEW i \in 1..H + 1, At(i - 1) = Final PROVE At(i) = Final
  <2>1. At(i) = Visit(Final, way[i], hash, number)
    BY <1>4, <1>8
  <2> HIDE DEF Final
  <2> QED
    BY <1>7, <2>1 DEF Visit
<1>9. 0 \in T
  BY <1>1, <1>2
<1>10. \A i \in 1..H + 1 : i - 1 \in T => i \in T
  <2> SUFFICES ASSUME NEW i \in 1..H + 1, i - 1 \in T PROVE i <= K \/ At(i) = Final
    OBVIOUS
  <2>1. i - 1 <= K \/ At(i - 1) = Final
    OBVIOUS
  <2>2. i <= K \/ i = K + 1 \/ At(i - 1) = Final
    BY <1>1, <1>2, <2>1
  <2> QED
    BY <1>6, <1>8, <2>2
<1> HIDE DEF T
<1>11. H + 1 \in T
  <2>1. \A i \in 0..H + 1 : i \in T
    BY <1>3, <1>9, <1>10, CountUp
  <2> QED
    BY <1>1, <2>1
<1>12. At(H + 1) = Final
  <2>1. ~(H + 1 <= K)
    BY <1>1, <1>2
  <2>2. H + 1 <= K \/ At(H + 1) = Final
    BY <1>11 DEF T
  <2> QED
    BY <2>1, <2>2
<1>13. GetBlocks(t, hash, number) = VisitAll(way, hash, number)
  BY DEF GetBlocks, VisitAll, Unvisited
<1>14. Final.dq = Found(t, number, K).dq /\ Final.synced = Found(t, number, K).synced
  BY DEF Found
<1> QED
  BY <1>4, <1>12, <1>13, <1>14

\* So the reply is made of the lowest blocks that the client does not know, and
\* says whether these are all.
LEMMA BlocksSent ==
  ASSUME NEW S, NEW t \in Seq(S), t # GENESIS, NEW R, NEW hash \in Seq(R),
         NEW number \in Nat \ {0}, NEW K, K = Len(t) - Known(t, hash)
  PROVE  /\ GetBlocks(t, hash, number).dq
              = [j \in 1..Lowest(number, K) |-> UpTo(t, Known(t, hash) + j)]
         /\ GetBlocks(t, hash, number).synced = (K <= number)
<1>1. \A j \in Int : Len(t) - K + j = Known(t, hash) + j
  BY KnownFacts
<1>2. \A j \in 1..Lowest(number, K) : Len(t) - K + j = Known(t, hash) + j
  BY <1>1
<1>3. /\ GetBlocks(t, hash, number).dq = Found(t, number, K).dq
      /\ GetBlocks(t, hash, number).synced = Found(t, number, K).synced
  BY VisitsEnd
<1>4. /\ Found(t, number, K).dq = [j \in 1..Lowest(number, K) |-> UpTo(t, Len(t) - K + j)]
      /\ Found(t, number, K).synced = (K <= number)
  BY DEF Found
<1>5. [j \in 1..Lowest(number, K) |-> UpTo(t, Len(t) - K + j)]
        = [j \in 1..Lowest(number, K) |-> UpTo(t, Known(t, hash) + j)]
  BY <1>2
<1>6. Found(t, number, K).dq = [j \in 1..Lowest(number, K) |-> UpTo(t, Known(t, hash) + j)]
  BY <1>4, <1>5
<1> QED
  BY <1>3, <1>4, <1>6

\* A peer that has the genesis block only sends it to whoever is ahead.
LEMMA GenesisSent ==
  ASSUME NEW S, NEW t \in Seq(S), Len(t) = 0, NEW hash, NEW number \in Nat \ {0}
  PROVE  /\ GetBlocks(t, hash, number).dq = IF hash = t THEN <<>> ELSE <<t>>
         /\ GetBlocks(t, hash, number).synced = TRUE
<1> DEFINE way == Reverse(PathTo(t))
<1>0. t = <<>>
  OBVIOUS
<1>1. 1 \in 1..Len(t) + 1 /\ Len(t) + 1 = 1
  OBVIOUS
<1>2. way[1] = t
  <2>1. way[1] = UpTo(t, Len(t) + 1 - 1)
    <3>1. \A k \in 1..Len(t) + 1 : way[k] = UpTo(t, Len(t) + 1 - k)
      BY WayDown
    <3> HIDE DEF way
    <3> QED
      BY <1>1, <3>1
  <2>2. Len(t) + 1 - 1 = 0
    BY <1>1
  <2>3. UpTo(t, 0) = t
    BY <1>0, UpToAll
  <2> QED
    BY <2>1, <2>2, <2>3
<1>3. /\ VisitAll(way, hash, number) = Visited(way, hash, number, Len(t) + 1)
      /\ Visited(way, hash, number, 0) = Unvisited
      /\ \A k \in 1..Len(t) + 1 :
           Visited(way, hash, number, k)
             = Visit(Visited(way, hash, number, k - 1), way[k], hash, number)
  <2>1. VisitsInTurn(way, hash, number, Len(t) + 1)
    BY WayVisits
  <2> HIDE DEF way
  <2> QED
    BY <2>1 DEF VisitsInTurn
<1>4. VisitAll(way, hash, number) = Visit(Unvisited, t, hash, number)
  <2>1. Visited(way, hash, number, 1)
          = Visit(Visited(way, hash, number, 1 - 1), way[1], hash, number)
    BY <1>1, <1>3
  <2> QED
    BY <1>2, <1>3, <2>1
<1>5. GetBlocks(t, hash, number) = Visit(Unvisited, t, hash, number)
  BY <1>4 DEF GetBlocks, VisitAll, Unvisited
<1>6. CASE hash = t
  <2>1. Visit(Unvisited, t, hash, number) = [Unvisited EXCEPT !.done = TRUE]
    BY <1>6 DEF Visit
  <2> QED
    BY <1>5, <1>6, <2>1 DEF Unvisited
<1>7. CASE hash # t
  <2>1. ~Unvisited.done /\ Unvisited.dq = <<>> /\ Unvisited.synced = TRUE
    BY DEF Unvisited
  <2>2. /\ Visit(Unvisited, t, hash, number).dq
             = <<t>> \o (IF Len(<<>>) = number THEN Front(<<>>) ELSE <<>>)
        /\ Visit(Unvisited, t, hash, number).synced = (TRUE /\ Len(<<>>) < number)
    BY <1>7, <2>1 DEF Visit
  <2>3. Len(<<>>) = 0 /\ Len(<<>>) # number /\ Len(<<>>) < number
    OBVIOUS
  <2>4. <<t>> \o <<>> = <<t>>
    OBVIOUS
  <2>5. Visit(Unvisited, t, hash, number).dq = <<t>>
    BY <2>2, <2>3, <2>4
  <2>6. Visit(Unvisited, t, hash, number).synced = TRUE
    BY <2>2, <2>3
  <2> QED
    BY <1>5, <1>7, <2>5, <2>6
<1> QED
  BY <1>6, <1>7

\* GetBlocks does what the comment above it says, for branches of any length.
THEOREM RepliesFollow ==
  ASSUME NEW S, NEW t \in Seq(S), NEW R, NEW hash \in Seq(R), NEW number \in Nat \ {0},
         NEW all, all = Following(t, hash)
  PROVE  /\ GetBlocks(t, hash, number).synced = (Len(all) <= number)
         /\ GetBlocks(t, hash, number).dq
              = SubSeq(all, 1, IF Len(all) <= number THEN Len(all) ELSE number)
<1>1. CASE t = GENESIS /\ hash # GENESIS
  <2>1. all = <<GENESIS>>
    BY <1>1 DEF Following
  <2>2. Len(all) = 1 /\ all \in Seq({GENESIS}) /\ Len(all) <= number
    BY <2>1
  <2>3. SubSeq(all, 1, Len(all)) = all
    BY <2>2, SubSeqFull
  <2>4. Len(t) = 0 /\ hash # t
    BY <1>1 DEF GENESIS
  <2>5. GetBlocks(t, hash, number).dq = <<t>> /\ GetBlocks(t, hash, number).synced = TRUE
    BY <2>4, GenesisSent
  <2>6. (IF Len(all) <= number THEN Len(all) ELSE number) = Len(all)
    BY <2>2
  <2> QED
    BY <1>1, <2>1, <2>2, <2>3, <2>5, <2>6
<1>2. CASE t = GENESIS /\ hash = GENESIS
  <2>1. Len(t) = 0 /\ Len(hash) = 0
    BY <1>2 DEF GENESIS
  <2>2. all = [k \in 1..(Height(t) - Known(t, hash)) |-> SubSeq(t, 1, Known(t, hash) + k)]
    BY <1>2 DEF Following, Known
  <2>3. Height(t) - Known(t, hash) = 0
    BY <2>1 DEF Known, Height
  <2>4. all = <<>>
    BY <2>2, <2>3
  <2>5. Len(all) = 0 /\ Len(all) <= number
    BY <2>4
  <2>6. SubSeq(all, 1, Len(all)) = <<>>
    BY <2>5, SubSeqEmpty
  <2> QED
    BY <1>2, <2>1, <2>5, <2>6, GenesisSent
<1>3. CASE t # GENESIS
  <2> DEFINE K == Len(t) - Known(t, hash)
             m == Lowest(number, K)
  <2>1. K \in Nat /\ m \in 0..K /\ m = (IF K <= number THEN K ELSE number)
    BY KnownFacts DEF Lowest
  <2>2. \A k \in 1..K : Known(t, hash) + k \in 0..Len(t)
    BY KnownFacts
  <2>3. \A k \in 1..K : UpTo(t, Known(t, hash) + k) \in Seq(S)
    BY <2>2, UpToFacts
  <2>4. all = [k \in 1..K |-> UpTo(t, Known(t, hash) + k)]
    BY <1>3 DEF Following, Known, Height, UpTo
  <2>5. /\ GetBlocks(t, hash, number).dq = [j \in 1..m |-> UpTo(t, Known(t, hash) + j)]
        /\ GetBlocks(t, hash, number).synced = (K <= number)
    BY <1>3, BlocksSent
  <2> HIDE DEF K, m
  <2>6. all \in Seq(Seq(S)) /\ Len(all) = K
    <3>1. all \in [1..K -> Seq(S)]
      BY <2>3, <2>4
    <3> QED
      BY <2>1, <3>1, IsASeq, LenProperties
  <2>7. UpTo(all, m) = [j \in 1..m |-> UpTo(t, Known(t, hash) + j)]
    <3> DEFINE T == Seq(S)
    <3>1. all \in Seq(T) /\ m \in 0..Len(all)
      BY <2>1, <2>6
    <3> HIDE DEF T
    <3>2. /\ UpTo(all, m) \in Seq(T)
          /\ Len(UpTo(all, m)) = m
          /\ \A i \in 1..m : UpTo(all, m)[i] = all[i]
      BY <3>1, UpToFacts
    <3>3. UpTo(all, m) \in [1..m -> T]
      BY <3>2, LenProperties
    <3>4. \A i \in 1..m : UpTo(all, m)[i] = UpTo(t, Known(t, hash) + i)
      BY <2>1, <2>4, <3>2
    <3> QED
      BY <3>3, <3>4
  <2> QED
    BY <2>1, <2>5, <2>6, <2>7 DEF UpTo
<1> QED
  BY <1>1, <1>2, <1>3

-----------------------------------------------------------------------------
(***************************************************************************)
(* Trees of blocks.                                                        *)
(***************************************************************************)

\* A set that has the parents of its blocks has all blocks on the way to one.
LEMMA PrefixesIn ==
  ASSUME NEW C, \A c \in C \ {GENESIS} : Front(c) \in C,
         NEW S, NEW b \in Seq(S), NEW n \in 0..Len(b), UpTo(b, n) \in C,
         NEW m \in 0..n
  PROVE  UpTo(b, m) \in C
<1> DEFINE T == {k \in 0..n : UpTo(b, n - k) \in C}
<1>1. n \in Nat /\ n <= Len(b)
  OBVIOUS
<1>2. 0 \in T
  BY <1>1
<1>3. ASSUME NEW k \in 1..n, UpTo(b, n - (k - 1)) \in C PROVE UpTo(b, n - k) \in C
  <2> DEFINE i == n - (k - 1)
  <2>1. i \in 1..Len(b) /\ i \in 0..Len(b) /\ i - 1 = n - k
    BY <1>1
  <2> HIDE DEF i
  <2>2. Len(UpTo(b, i)) = i
    BY <2>1, UpToFacts
  <2>3. UpTo(b, i) # GENESIS
    BY <2>1, <2>2 DEF GENESIS
  <2>4. Front(UpTo(b, i)) = UpTo(b, i - 1)
    BY <2>1, FrontOfUpTo
  <2>5. UpTo(b, i) \in C
    BY <1>3 DEF i
  <2>6. Front(UpTo(b, i)) \in C
    BY <2>3, <2>5
  <2> QED
    BY <2>1, <2>4, <2>6
<1>4. \A k \in 1..n : k - 1 \in T => k \in T
  BY <1>1, <1>3
<1> HIDE DEF T
<1>5. \A k \in 0..n : k \in T
  BY <1>1, <1>2, <1>4, CountUp
<1>6. n - m \in 0..n /\ n - (n - m) = m
  BY <1>1
<1>7. n - m \in T
  BY <1>5, <1>6
<1> QED
  BY <1>6, <1>7 DEF T

\* Blocks are paths, and the blocks on the way to one are blocks.
LEMMA BlockFacts ==
  ASSUME NEW b \in Block
  PROVE  /\ b \in Seq(Range(b))
         /\ Len(b) \in Nat
         /\ \A n \in 0..Len(b) : UpTo(b, n) \in Block
<1>1. b \in Seq(Range(b)) /\ \A c \in Block \ {GENESIS} : Front(c) \in Block
  BY SyncAssumption DEF SyncAssumption
<1>2. Len(b) \in Nat /\ UpTo(b, Len(b)) = b
  BY <1>1, UpToAll
<1>3. Len(b) \in 0..Len(b)
  BY <1>2
<1>4. ASSUME NEW n \in 0..Len(b) PROVE UpTo(b, n) \in Block
  BY <1>1, <1>2, <1>3, PrefixesIn
<1> QED
  BY <1>1, <1>2, <1>4

\* A tree of blocks with one of the highest as its tail.
TreeOK(ch, tl) ==
  /\ ch \subseteq Block
  /\ GENESIS \in ch
  /\ \A b \in ch \ {GENESIS} : Front(b) \in ch
  /\ tl \in ch
  /\ \A b \in ch : Len(b) <= Len(tl)

\* No block on the way to b is deep enough for the next one to be taken.
Hopeless(ch, tl, b) ==
  \A n \in 0..Len(b) : UpTo(b, n) \in ch => Len(tl) - n > CONFIRMATION

\* A branch is given up exactly when it is hopeless: the highest block of it in
\* the tree is the one that CHOOSE takes.
LEMMA GivenUpMeans ==
  ASSUME TreeOK(chain, tail), NEW b \in Block
  PROVE  GivenUp(b) <=> Hopeless(chain, tail, b)
<1> DEFINE On(n) == UpTo(b, n) \in chain
           Top(n) == On(n) /\ \A m \in n+1..Len(b) : ~On(m)
           T == {k \in 0..Len(b) : On(Len(b) - k)}
<1>1. Len(b) \in Nat /\ UpTo(b, 0) = GENESIS /\ b \in Seq(Range(b))
  BY BlockFacts, UpToAll DEF GENESIS
<1>2. Len(b) \in T
  BY <1>1 DEF TreeOK
<1>3. PICK k \in T : \A j \in T : k <= j
  <2>1. T \in SUBSET Nat /\ T # {}
    BY <1>1, <1>2
  <2> HIDE DEF T
  <2> QED
    BY <2>1, LeastNumber
<1>4. \E n \in 0..Len(b) : Top(n)
  <2>1. Len(b) - k \in 0..Len(b) /\ On(Len(b) - k)
    BY <1>1
  <2>2. ASSUME NEW m \in Len(b) - k + 1..Len(b), On(m) PROVE FALSE
    <3>1. Len(b) - m \in 0..Len(b) /\ Len(b) - (Len(b) - m) = m /\ ~(k <= Len(b) - m)
      BY <1>1
    <3>2. Len(b) - m \in T
      BY <2>2, <3>1
    <3> QED
      BY <1>3, <3>1, <3>2
  <2> QED
    BY <2>1, <2>2
<1> DEFINE n == CHOOSE i \in 0..Len(b) : Top(i)
<1>5. n \in 0..Len(b) /\ Top(n)
  BY <1>4
<1>6. KnownPart(b) = UpTo(b, n)
  BY DEF KnownPart, Height, UpTo
<1> HIDE DEF n
<1>7. Len(KnownPart(b)) = n
  BY <1>1, <1>5, <1>6, UpToFacts
<1>8. Len(tail) \in Nat /\ CONFIRMATION \in Nat
  BY BlockFacts, SyncAssumption DEF TreeOK, SyncAssumption
<1>9. ASSUME Len(tail) - n > CONFIRMATION, NEW i \in 0..Len(b), On(i)
      PROVE  Len(tail) - i > CONFIRMATION
  <2>1. ~(i \in n+1..Len(b))
    BY <1>5, <1>9
  <2>2. i <= n
    BY <1>1, <1>5, <2>1
  <2> QED
    BY <1>5, <1>8, <1>9, <2>2
<1>10. GivenUp(b) <=> Len(tail) - n > CONFIRMATION
  BY <1>7 DEF GivenUp, Height
<1>11. Hopeless(chain, tail, b) => Len(tail) - n > CONFIRMATION
  BY <1>5 DEF Hopeless
<1>12. Len(tail) - n > CONFIRMATION => Hopeless(chain, tail, b)
  BY <1>9 DEF Hopeless
<1> QED
  BY <1>10, <1>11, <1>12

\* A block that is not on top of its parent's tree cannot end the hope for it.
LEMMA HopelessStays ==
  ASSUME NEW ch, NEW tl, TreeOK(ch, tl), NEW b \in Block, Hopeless(ch, tl, b),
         NEW c \in Block, Front(c) \in ch, c \notin ch, Len(tl) - Len(Front(c)) <= CONFIRMATION,
         NEW tm, Len(tm) \in Nat, Len(tl) <= Len(tm)
  PROVE  Hopeless(ch \cup {c}, tm, b)
<1>1. Len(tl) \in Nat /\ CONFIRMATION \in Nat /\ Len(b) \in Nat /\ b \in Seq(Range(b))
  BY BlockFacts, SyncAssumption DEF TreeOK, SyncAssumption
<1>2. ASSUME NEW n \in 0..Len(b), UpTo(b, n) = c PROVE FALSE
  <2>1. n # 0
    BY <1>1, <1>2, UpToAll DEF TreeOK, GENESIS
  <2>2. n \in 1..Len(b) /\ n - 1 \in 0..Len(b)
    BY <1>1, <2>1
  <2>3. Front(c) = UpTo(b, n - 1)
    BY <1>1, <1>2, <2>2, FrontOfUpTo
  <2>4. Len(Front(c)) = n - 1
    <3>1. Len(UpTo(b, n - 1)) = n - 1
      BY <1>1, <2>2, UpToFacts
    <3> QED
      BY <2>3, <3>1
  <2>5. Len(tl) - (n - 1) > CONFIRMATION
    BY <2>2, <2>3 DEF Hopeless
  <2> QED
    BY <1>1, <2>2, <2>4, <2>5
<1>3. ASSUME NEW n \in 0..Len(b), UpTo(b, n) \in ch PROVE Len(tm) - n > CONFIRMATION
  <2>1. Len(tl) - n > CONFIRMATION
    BY <1>3 DEF Hopeless
  <2> QED
    BY <1>1, <2>1
<1> QED
  BY <1>2, <1>3 DEF Hopeless

-----------------------------------------------------------------------------
(***************************************************************************)
(* The list of peers.                                                      *)
(***************************************************************************)
ListOK(l) == l \in Seq(Peers) /\ IsInjective(l)

\* A list without repetitions is no longer than there are peers.
LEMMA ListFits ==
  ASSUME NEW l, ListOK(l)
  PROVE  /\ Len(l) \in 0..Cardinality(Peers)
         /\ Cardinality(Peers) \in Nat
         /\ Range(l) \subseteq Peers
<1>1. l \in [1..Len(l) -> Peers] /\ Len(l) \in Nat
  BY DEF ListOK
<1>2. l \in Injection(1..Len(l), Peers)
  BY <1>1 DEF ListOK, Injection
<1>3. IsFiniteSet(Peers) /\ Cardinality(Peers) \in Nat
  BY SyncAssumption, FS_CardinalityType DEF SyncAssumption
<1>4. Cardinality(1..Len(l)) <= Cardinality(Peers)
  BY <1>2, <1>3, FS_Injection
<1>5. Cardinality(1..Len(l)) = Len(l)
  <2>1. 1 \in Int /\ Len(l) \in Int
    BY <1>1
  <2>2. Cardinality(1..Len(l)) = IF 1 > Len(l) THEN 0 ELSE Len(l) - 1 + 1
    BY <2>1, FS_Interval
  <2> QED
    BY <1>1, <2>2
<1>6. Range(l) \subseteq Peers
  BY <1>1 DEF Range
<1> QED
  BY <1>1, <1>3, <1>4, <1>5, <1>6

\* The list at the start has no repetitions.
LEMMA ListMade == ListOK(SetToSeq(Peers))
<1>1. IsFiniteSet(Peers) /\ Cardinality(Peers) \in Nat
  BY SyncAssumption, FS_CardinalityType DEF SyncAssumption
<1>2. ExistsBijection(1..Cardinality(Peers), Peers)
  BY <1>1, FS_CardinalityType
<1>3. \E f \in [1..Cardinality(Peers) -> Peers] : IsInjective(f)
  BY <1>2 DEF ExistsBijection, Bijection, Injection
<1>4. /\ SetToSeq(Peers) \in [1..Cardinality(Peers) -> Peers]
      /\ IsInjective(SetToSeq(Peers))
  BY <1>3 DEF SetToSeq
<1> QED
  BY <1>1, <1>4, IsASeq DEF ListOK

\* A peer that is not on the list can be appended,
LEMMA ListGrows ==
  ASSUME NEW l, ListOK(l), NEW p \in Peers, ~Contains(l, p)
  PROVE  ListOK(Append(l, p))
<1>1. l \in Seq(Peers) /\ Len(l) \in Nat /\ DOMAIN l = 1..Len(l)
  BY DEF ListOK
<1>2. /\ Append(l, p) \in Seq(Peers)
      /\ Len(Append(l, p)) = Len(l) + 1
      /\ \A i \in 1..Len(l) : Append(l, p)[i] = l[i]
      /\ Append(l, p)[Len(l) + 1] = p
  BY <1>1, AppendProperties
<1> DEFINE q == Append(l, p)
<1>3. DOMAIN q = 1..Len(l) + 1
  BY <1>2
<1> HIDE DEF q
<1>4. ASSUME NEW i \in 1..Len(l) + 1, NEW j \in 1..Len(l) + 1, q[i] = q[j], i < j PROVE FALSE
  <2>1. i \in 1..Len(l)
    BY <1>1, <1>4
  <2>2. q[i] = l[i] /\ l[i] # p
    BY <1>2, <2>1 DEF Contains, q
  <2>3. CASE j = Len(l) + 1
    BY <1>2, <1>4, <2>2, <2>3 DEF q
  <2>4. CASE j # Len(l) + 1
    <3>1. j \in 1..Len(l) /\ i # j
      BY <1>1, <1>4, <2>4
    <3>2. q[j] = l[j]
      BY <1>2, <3>1 DEF q
    <3> QED
      BY <1>1, <1>4, <2>1, <2>2, <3>1, <3>2 DEF ListOK, IsInjective
  <2> QED
    BY <2>3, <2>4
<1>5. \A i, j \in DOMAIN q : q[i] = q[j] => i = j
  <2> SUFFICES ASSUME NEW i \in 1..Len(l) + 1, NEW j \in 1..Len(l) + 1, q[i] = q[j] PROVE i = j
    BY <1>3
  <2>1. i < j \/ j < i \/ i = j
    BY <1>1
  <2> QED
    BY <1>4, <2>1
<1> QED
  BY <1>2, <1>5 DEF ListOK, IsInjective, q

\* and any peer be taken off it.
LEMMA ListShrinks ==
  ASSUME NEW l, ListOK(l), NEW p
  PROVE  ListOK(RemoveFirst(l, p))
<1>1. l \in Seq(Peers) /\ Len(l) \in Nat /\ DOMAIN l = 1..Len(l)
  BY DEF ListOK
<1>2. CASE ~\E i \in 1..Len(l) : l[i] = p
  BY <1>2 DEF RemoveFirst
<1>3. CASE \E i \in 1..Len(l) : l[i] = p
  <2> DEFINE I == {i \in 1..Len(l) : l[i] = p}
             n == Min(I)
  <2>1. RemoveFirst(l, p) = RemoveAt(l, n)
    BY <1>3 DEF RemoveFirst, SelectInSeq
  <2>2. n \in 1..Len(l)
    <3>1. I \in SUBSET Nat /\ I # {}
      BY <1>1, <1>3
    <3> HIDE DEF I
    <3>2. \E i \in I : \A j \in I : i <= j
      BY <3>1, LeastNumber
    <3>3. n \in I
      BY <3>2 DEF Min
    <3> QED
      BY <3>3 DEF I
  <2> HIDE DEF n
  <2> DEFINE a == SubSeq(l, 1, n - 1)
             c == SubSeq(l, n + 1, Len(l))
             q == a \o c
  <2>3. a \in Seq(Peers) /\ Len(a) = n - 1 /\ \A i \in 1..n - 1 : a[i] = l[i]
    <3>1. n - 1 \in 0..Len(l)
      BY <1>1, <2>2
    <3> QED
      BY <1>1, <3>1, UpToFacts DEF UpTo
  <2>4. c \in Seq(Peers) /\ Len(c) = Len(l) - n /\ \A i \in 1..Len(l) - n : c[i] = l[n + i]
    <3>1. n + 1 \in Int /\ Len(l) \in Int /\ \A i \in n + 1..Len(l) : l[i] \in Peers
      BY <1>1, <2>2
    <3>2. /\ SubSeq(l, n + 1, Len(l)) \in Seq(Peers)
          /\ Len(SubSeq(l, n + 1, Len(l)))
               = IF n + 1 <= Len(l) THEN Len(l) - (n + 1) + 1 ELSE 0
          /\ \A i \in 1..Len(l) - (n + 1) + 1 :
               SubSeq(l, n + 1, Len(l))[i] = l[n + 1 + i - 1]
      BY <3>1, SubSeqProperties
    <3>3. ~(n + 1 <= Len(l)) => Len(l) - n = 0
      <4>1. n \in Int /\ n <= Len(l) /\ Len(l) \in Int
        BY <1>1, <2>2
      <4> HIDE DEF I
      <4> QED
        BY <4>1
    <3>4. Len(l) - (n + 1) + 1 = Len(l) - n
      BY <1>1, <2>2
    <3>5. \A i \in 1..Len(l) - n : n + 1 + i - 1 = n + i
      BY <1>1, <2>2
    <3>6. Len(c) = Len(l) - n
      BY <3>2, <3>3, <3>4
    <3>7. \A i \in 1..Len(l) - n : c[i] = l[n + i]
      BY <3>2, <3>4, <3>5
    <3> QED
      BY <3>2, <3>6, <3>7
  <2> HIDE DEF a, c
  <2>5. /\ q \in Seq(Peers)
        /\ Len(q) = Len(a) + Len(c)
        /\ \A i \in 1..Len(a) + Len(c) : q[i] = IF i <= Len(a) THEN a[i] ELSE c[i - Len(a)]
    BY <2>3, <2>4, ConcatProperties
  <2> HIDE DEF q
  <2>6. Len(q) = Len(l) - 1 /\ DOMAIN q = 1..Len(l) - 1
    BY <1>1, <2>2, <2>3, <2>4, <2>5
  <2> DEFINE at(i) == IF i < n THEN i ELSE i + 1
  <2>7. ASSUME NEW i \in 1..Len(l) - 1 PROVE at(i) \in 1..Len(l) /\ q[i] = l[at(i)]
    <3>1. CASE i < n
      <4>1. i \in 1..Len(a) + Len(c) /\ i <= Len(a) /\ i \in 1..n - 1 /\ i \in 1..Len(l)
        BY <1>1, <2>2, <2>3, <2>4, <3>1
      <4>2. q[i] = a[i] /\ a[i] = l[i]
        BY <2>3, <2>5, <4>1
      <4> QED
        BY <3>1, <4>1, <4>2
    <3>2. CASE ~(i < n)
      <4>1. i \in 1..Len(a) + Len(c) /\ ~(i <= Len(a)) /\ i - Len(a) \in 1..Len(l) - n
        BY <1>1, <2>2, <2>3, <2>4, <3>2
      <4>2. q[i] = c[i - Len(a)] /\ c[i - Len(a)] = l[n + (i - Len(a))]
        BY <2>4, <2>5, <4>1
      <4>3. n + (i - Len(a)) = i + 1
        BY <1>1, <2>2, <2>3
      <4> QED
        BY <1>1, <2>2, <3>2, <4>2, <4>3
    <3> QED
      BY <3>1, <3>2
  <2>8. \A i, j \in 1..Len(l) - 1 : at(i) = at(j) => i = j
    BY <1>1, <2>2
  <2> HIDE DEF at
  <2>9. \A i, j \in 1..Len(l) - 1 : q[i] = q[j] => at(i) = at(j)
    BY <1>1, <2>7 DEF ListOK, IsInjective
  <2>10. IsInjective(q)
    BY <2>6, <2>8, <2>9 DEF IsInjective
  <2> QED
    BY <2>1, <2>5, <2>10 DEF RemoveAt, ListOK, q, a, c
<1> QED
  BY <1>2, <1>3

-----------------------------------------------------------------------------
(***************************************************************************)
(* What is left of a reply.                                                *)
(***************************************************************************)

\* The blocks left to be added follow the first h blocks of the peer's branch,
\* which the node has, unless it can take none of that branch; the last reply
\* reaches up to the end of it.
Above(ch, tl, t, reply, synced, h) ==
  /\ h + Len(reply) <= Len(t)
  /\ \A j \in 1..Len(reply) : reply[j] = UpTo(t, h + j)
  /\ UpTo(t, h) \in ch \/ Hopeless(ch, tl, t)
  /\ synced => h + Len(reply) = Len(t)

Replied(ch, tl, t, reply, synced) ==
  \/ Len(t) = 0 /\ (reply = <<>> \/ reply = <<GENESIS>>)
  \/ \E h \in 0..Len(t) : Above(ch, tl, t, reply, synced, h)

\* Of a whole batch that follows the block the peer was asked about, what has
\* been added and what is left make up BATCH blocks.
Rising(ch, tl, t, reply, synced, from) ==
  ~synced /\ IsPrefix(from, t) =>
    /\ Len(reply) <= BATCH
    /\ Above(ch, tl, t, reply, synced, Len(from) + (BATCH - Len(reply)))

\* A reply is like that at first.
LEMMA RepliedAtFirst ==
  ASSUME NEW ch, NEW tl, TreeOK(ch, tl), NEW t \in Block, NEW hash \in ch,
         NEW number \in Nat \ {0}
  PROVE  /\ GetBlocks(t, hash, number).dq \in Seq(Block)
         /\ GetBlocks(t, hash, number).synced \in BOOLEAN
         /\ Replied(ch, tl, t, GetBlocks(t, hash, number).dq, GetBlocks(t, hash, number).synced)
         /\ number = BATCH =>
              Rising(ch, tl, t, GetBlocks(t, hash, number).dq,
                     GetBlocks(t, hash, number).synced, hash)
<1>1. /\ t \in Seq(Range(t)) /\ Len(t) \in Nat
      /\ \A n \in 0..Len(t) : UpTo(t, n) \in Block
  BY BlockFacts
<1>2. hash \in Block /\ hash \in Seq(Range(hash))
  BY BlockFacts DEF TreeOK
<1>3. CASE Len(t) = 0
  <2> DEFINE reply == GetBlocks(t, hash, number)
  <2>1. /\ reply.dq = IF hash = t THEN <<>> ELSE <<t>>
        /\ reply.synced = TRUE
    BY <1>1, <1>3, GenesisSent
  <2>2. t = GENESIS
    BY <1>1, <1>3 DEF GENESIS
  <2> HIDE DEF reply
  <2>3. reply.dq = <<>> \/ reply.dq = <<GENESIS>>
    BY <2>1, <2>2
  <2>4. <<>> \in Seq(Block) /\ <<t>> \in Seq(Block)
    OBVIOUS
  <2>5. reply.dq \in Seq(Block)
    BY <2>1, <2>4
  <2>6. Replied(ch, tl, t, reply.dq, reply.synced)
    BY <1>3, <2>3 DEF Replied
  <2>7. Rising(ch, tl, t, reply.dq, reply.synced, hash)
    BY <2>1 DEF Rising
  <2> QED
    BY <2>1, <2>5, <2>6, <2>7 DEF reply
<1>4. CASE Len(t) # 0
  <2> DEFINE h == Known(t, hash)
             K == Len(t) - h
             m == Lowest(number, K)
             reply == GetBlocks(t, hash, number)
  <2>1. t # GENESIS
    BY <1>4 DEF GENESIS
  <2>2. h \in 0..Len(t) /\ (h # 0 => UpTo(t, h) = hash)
    BY <1>1, <1>2, KnownFacts
  <2>3. K \in Nat /\ K <= Len(t)
    BY <1>1, <2>2
  <2>4. /\ reply.dq = [j \in 1..m |-> UpTo(t, h + j)]
        /\ reply.synced = (K <= number)
    BY <1>1, <1>2, <2>1, BlocksSent
  <2> HIDE DEF reply, h
  <2>5. m \in 0..K /\ (K <= number => m = K)
    BY <2>3 DEF Lowest
  <2> HIDE DEF m
  <2>6. \A j \in 1..m : h + j \in 0..Len(t)
    BY <1>1, <2>2, <2>5
  <2>7. \A j \in 1..m : UpTo(t, h + j) \in Block
    BY <1>1, <2>6
  <2>8. reply.dq \in [1..m -> Block]
    BY <2>4, <2>7
  <2>9. m \in Nat
    BY <2>3, <2>5
  <2>10. reply.dq \in Seq(Block) /\ Len(reply.dq) = m
    BY <2>8, <2>9, IsASeq, LenProperties
  <2>11. UpTo(t, h) \in ch
    <3>1. CASE h = 0
      <4>1. UpTo(t, 0) = GENESIS
        BY <1>1, UpToAll DEF GENESIS
      <4> QED
        BY <3>1, <4>1 DEF TreeOK
    <3>2. CASE h # 0
      BY <2>2, <3>2
    <3> QED
      BY <3>1, <3>2
  <2>12. h + m <= Len(t) /\ (K <= number => h + m = Len(t))
    BY <1>1, <2>2, <2>5
  <2>13. \A j \in 1..m : reply.dq[j] = UpTo(t, h + j)
    BY <2>4
  <2>14. Above(ch, tl, t, reply.dq, reply.synced, h)
    BY <2>4, <2>10, <2>11, <2>12, <2>13 DEF Above
  <2>15. Replied(ch, tl, t, reply.dq, reply.synced)
    BY <2>2, <2>14 DEF Replied
  <2>16. reply.synced \in BOOLEAN
    BY <2>4
  <2>17. number = BATCH => Rising(ch, tl, t, reply.dq, reply.synced, hash)
    <3>1. SUFFICES ASSUME number = BATCH, ~reply.synced, IsPrefix(hash, t)
                   PROVE  /\ Len(reply.dq) <= BATCH
                          /\ Above(ch, tl, t, reply.dq, reply.synced,
                                   Len(hash) + (BATCH - Len(reply.dq)))
      BY DEF Rising
    <3>2. h = Len(hash)
      BY <3>1 DEF h, Known, Height
    <3>3. m = BATCH
      BY <2>4, <3>1 DEF m, Lowest
    <3>4. Len(hash) + (BATCH - Len(reply.dq)) = h
      BY <2>2, <2>9, <2>10, <3>2, <3>3
    <3> QED
      BY <2>9, <2>10, <2>14, <3>3, <3>4
  <2> QED
    BY <2>10, <2>15, <2>16, <2>17 DEF reply
<1> QED
  BY <1>3, <1>4

\* It stays so when a block is added from elsewhere.
LEMMA RepliedStays ==
  ASSUME NEW ch, NEW tl, TreeOK(ch, tl), NEW t \in Block, NEW reply, NEW synced, NEW from,
         NEW c \in Block, Front(c) \in ch, c \notin ch, Len(tl) - Len(Front(c)) <= CONFIRMATION,
         NEW tm, Len(tm) \in Nat, Len(tl) <= Len(tm)
  PROVE  /\ Replied(ch, tl, t, reply, synced) => Replied(ch \cup {c}, tm, t, reply, synced)
         /\ Rising(ch, tl, t, reply, synced, from)
              => Rising(ch \cup {c}, tm, t, reply, synced, from)
<1>1. Hopeless(ch, tl, t) => Hopeless(ch \cup {c}, tm, t)
  BY HopelessStays
<1>2. ASSUME NEW h, Above(ch, tl, t, reply, synced, h)
      PROVE  Above(ch \cup {c}, tm, t, reply, synced, h)
  BY <1>1, <1>2 DEF Above
<1> QED
  BY <1>2 DEF Replied, Rising

\* A node that adds a block keeps a tree.
LEMMA TreeGrows ==
  ASSUME TreeOK(chain, tail), NEW b \in Block, Acceptable(b), AddBlock(b)
  PROVE  /\ TreeOK(chain', tail')
         /\ Len(tail') \in Nat
         /\ Len(tail) <= Len(tail')
<1>1. Len(b) \in Nat /\ Len(tail) \in Nat /\ \A c \in chain : Len(c) \in Nat
  BY BlockFacts DEF TreeOK
<1>2. chain' = chain \cup {b} /\ tail' = IF Len(b) > Len(tail) THEN b ELSE tail
  BY DEF AddBlock, Height
<1>3. Front(b) \in chain
  BY DEF Acceptable
<1>4. Len(tail') \in Nat /\ Len(tail) <= Len(tail') /\ Len(b) <= Len(tail')
  BY <1>1, <1>2
<1>5. \A c \in chain : Len(c) <= Len(tail')
  BY <1>1, <1>4 DEF TreeOK
<1>6. tail' \in chain'
  BY <1>2 DEF TreeOK
<1>7. \A c \in chain' : Len(c) <= Len(tail')
  BY <1>2, <1>4, <1>5
<1>8. \A c \in chain' \ {GENESIS} : Front(c) \in chain'
  BY <1>2, <1>3 DEF TreeOK
<1>9. chain' \subseteq Block /\ GENESIS \in chain'
  BY <1>2 DEF TreeOK
<1> QED
  BY <1>4, <1>6, <1>7, <1>8, <1>9 DEF TreeOK

\* When the first block of a reply has been handed to HandleNewBlock, the node
\* has it, or can take no block of that branch.
LEMMA AboveNext ==
  ASSUME TreeOK(chain, tail), NEW t \in Block, NEW reply \in Seq(Block), reply # <<>>,
         NEW synced, HandleNewBlock(Head(reply)),
         NEW h \in 0..Len(t), Above(chain, tail, t, reply, synced, h)
  PROVE  /\ h + 1 \in 0..Len(t)
         /\ Above(chain', tail', t, Tail(reply), synced, h + 1)
<1> DEFINE b == Head(reply)
           rest == Tail(reply)
<1>1. /\ b \in Block /\ b = reply[1]
      /\ rest \in Seq(Block)
      /\ Len(reply) \in Nat /\ Len(reply) >= 1 /\ Len(rest) = Len(reply) - 1
      /\ \A j \in 1..Len(rest) : rest[j] = reply[j + 1]
  <2>1. Len(reply) \in Nat /\ Len(reply) # 0
    BY EmptySeq
  <2>2. /\ b \in Block
        /\ rest \in Seq(Block)
        /\ Len(rest) = Len(reply) - 1
        /\ \A j \in 1..Len(rest) : rest[j] = reply[j + 1]
    BY HeadTailProperties
  <2> QED
    BY <2>1, <2>2
<1> HIDE DEF b, rest
<1>2. /\ t \in Seq(Range(t)) /\ Len(t) \in Nat /\ Len(tail) \in Nat /\ CONFIRMATION \in Nat
      /\ \A n \in 0..Len(t) : UpTo(t, n) \in Block
  BY BlockFacts, SyncAssumption DEF TreeOK, SyncAssumption
<1>3. /\ h + 1 \in 0..Len(t) /\ h + 1 \in 1..Len(t) /\ h + 1 - 1 = h /\ 1 \in 1..Len(reply)
      /\ h \in Nat
  BY <1>1, <1>2 DEF Above
<1>4. b = UpTo(t, h + 1)
  BY <1>1, <1>3 DEF Above
<1>5. Front(b) = UpTo(t, h) /\ Len(Front(b)) = h
  <2>1. Front(UpTo(t, h + 1)) = UpTo(t, h + 1 - 1)
    BY <1>2, <1>3, FrontOfUpTo
  <2>2. Len(UpTo(t, h)) = h
    BY <1>2, UpToFacts
  <2> QED
    BY <1>3, <1>4, <2>1, <2>2
<1>6. h + 1 + Len(rest) = h + Len(reply)
  BY <1>1, <1>3
<1>7. ASSUME NEW j \in 1..Len(rest) PROVE rest[j] = UpTo(t, h + 1 + j)
  <2>1. j + 1 \in 1..Len(reply) /\ h + (j + 1) = h + 1 + j
    BY <1>1, <1>3
  <2>2. reply[j + 1] = UpTo(t, h + (j + 1))
    BY <2>1 DEF Above
  <2> QED
    BY <1>1, <2>1, <2>2
<1>8. h + Len(reply) <= Len(t) /\ (synced => h + Len(reply) = Len(t))
  BY DEF Above
<1>9. UpTo(t, h + 1) \in chain' \/ Hopeless(chain', tail', t)
        => Above(chain', tail', t, rest, synced, h + 1)
  BY <1>6, <1>7, <1>8 DEF Above
<1>10. UpTo(t, h + 1) \in chain' \/ Hopeless(chain', tail', t)
  <2>1. CASE Acceptable(b)
    <3>1. AddBlock(b)
      BY <2>1 DEF HandleNewBlock, b
    <3>2. b \in chain'
      BY <3>1 DEF AddBlock
    <3> QED
      BY <1>4, <3>2
  <2>2. CASE ~Acceptable(b)
    <3>1. chain' = chain /\ tail' = tail
      BY <2>2 DEF HandleNewBlock, b
    <3>2. b \in chain \/ Front(b) \notin chain \/ Len(tail) - h > CONFIRMATION
      BY <1>2, <1>3, <1>5, <2>2 DEF Acceptable, Height
    <3>3. CASE b \in chain
      BY <1>4, <3>1, <3>3
    <3>4. CASE Hopeless(chain, tail, t)
      BY <3>1, <3>4
    <3>5. CASE b \notin chain /\ ~Hopeless(chain, tail, t)
      <4>1. UpTo(t, h) \in chain
        BY <3>5 DEF Above
      <4>2. Len(tail) - h > CONFIRMATION
        BY <1>5, <3>2, <3>5, <4>1
      <4>3. ASSUME NEW n \in 0..Len(t), UpTo(t, n) \in chain PROVE Len(tail) - n > CONFIRMATION
        <5>1. ~(h + 1 <= n)
          <6>1. SUFFICES ASSUME h + 1 <= n PROVE FALSE
            OBVIOUS
          <6>2. h + 1 \in 0..n
            BY <1>3, <6>1
          <6>3. \A c \in chain \ {GENESIS} : Front(c) \in chain
            BY DEF TreeOK
          <6>4. UpTo(t, h + 1) \in chain
            BY <1>2, <4>3, <6>2, <6>3, PrefixesIn
          <6> QED
            BY <1>4, <3>5, <6>4
        <5>2. n <= h
          BY <1>3, <5>1
        <5> QED
          BY <1>2, <1>3, <4>2, <5>2
      <4>4. Hopeless(chain, tail, t)
        BY <4>3 DEF Hopeless
      <4> QED
        BY <3>5, <4>4
    <3> QED
      BY <3>3, <3>4, <3>5
  <2> QED
    BY <2>1, <2>2
<1> QED
  BY <1>3, <1>9, <1>10 DEF rest

\* So what is left of the reply still is what a reply leaves.
LEMMA RepliedNext ==
  ASSUME TreeOK(chain, tail), NEW t \in Block, NEW reply \in Seq(Block), reply # <<>>,
         NEW synced, NEW from \in Block, HandleNewBlock(Head(reply))
  PROVE  /\ Replied(chain, tail, t, reply, synced)
              => Replied(chain', tail', t, Tail(reply), synced)
         /\ Rising(chain, tail, t, reply, synced, from)
              => Rising(chain', tail', t, Tail(reply), synced, from)
<1> DEFINE rest == Tail(reply)
<1>1. /\ Len(reply) \in Nat /\ Len(reply) # 0
      /\ rest \in Seq(Block) /\ Len(rest) = Len(reply) - 1
  BY EmptySeq, HeadTailProperties
<1>2. Len(t) \in Nat /\ Len(from) \in Nat /\ BATCH \in Nat
  BY BlockFacts, SyncAssumption DEF SyncAssumption
<1>3. ASSUME NEW h \in 0..Len(t), Above(chain, tail, t, reply, synced, h)
      PROVE  h + 1 \in 0..Len(t) /\ Above(chain', tail', t, rest, synced, h + 1)
  BY <1>3, AboveNext
<1> HIDE DEF rest
<1>4. ASSUME Len(t) = 0, reply = <<>> \/ reply = <<GENESIS>>
      PROVE  Replied(chain', tail', t, rest, synced)
  <2>1. Len(reply) = 1
    BY <1>1, <1>4
  <2>2. rest = <<>>
    BY <1>1, <2>1, EmptySeq
  <2> QED
    BY <1>4, <2>2 DEF Replied
<1>5. ASSUME Rising(chain, tail, t, reply, synced, from), ~synced, IsPrefix(from, t)
      PROVE  /\ Len(rest) <= BATCH
             /\ Above(chain', tail', t, rest, synced, Len(from) + (BATCH - Len(rest)))
  <2> DEFINE h == Len(from) + (BATCH - Len(reply))
  <2>1. Len(reply) <= BATCH /\ Above(chain, tail, t, reply, synced, h)
    BY <1>5 DEF Rising
  <2>2. h \in 0..Len(t)
    BY <1>1, <1>2, <2>1 DEF Above
  <2>3. h + 1 = Len(from) + (BATCH - Len(rest))
    BY <1>1, <1>2
  <2> HIDE DEF h
  <2> QED
    BY <1>1, <1>2, <1>3, <2>1, <2>2, <2>3
<1> QED
  BY <1>3, <1>4, <1>5 DEF Replied, Rising, rest

-----------------------------------------------------------------------------
(***************************************************************************)
(* The invariant.                                                          *)
(***************************************************************************)
SyncState ==
  [pc     : {"idle", "pick", "rlock", "locked", "call", "add"},
   i      : 0..Cardinality(Peers),
   tail   : Block,
   peer   : Peers \cup {NOBODY},
   reply  : Seq(Block),
   synced : BOOLEAN,
   served : Block]

\* The locals of SyncToLatest: where they are used, the number of the peer is
\* below the number of peers, and the peer is one.
SyncOK ==
  /\ sync \in SyncState
  /\ sync.tail \in chain
  /\ sync.pc \in {"rlock", "locked", "call", "add"} => sync.i < Cardinality(Peers)
  /\ sync.pc = "call" => sync.peer \in Peers
  /\ sync.pc # "add" => sync.reply = <<>>

ReplyOK ==
  sync.pc = "add" =>
    /\ Replied(chain, tail, sync.served, sync.reply, sync.synced)
    /\ Rising(chain, tail, sync.served, sync.reply, sync.synced, sync.tail)

OthersOK ==
  /\ best \in [Peers -> Block]
  /\ ready \subseteq Peers
  /\ writer \in Peers \cup {NOBODY}
  /\ syncing \in BOOLEAN
  /\ crashed \in BOOLEAN

SyncInv ==
  /\ TreeOK(chain, tail)
  /\ ListOK(listed)
  /\ OthersOK
  /\ SyncOK
  /\ ReplyOK

\* There are finitely many peers.
LEMMA PeersCounted == Cardinality(Peers) \in Nat
BY SyncAssumption, FS_CardinalityType DEF SyncAssumption

\* A sync that has ended has locals of the right types.
LEMMA RestingFacts ==
  /\ Resting \in SyncState
  /\ Resting.tail = GENESIS /\ Resting.pc = "idle" /\ Resting.reply = <<>>
<1>1. /\ GENESIS \in Block
      /\ Resting = [pc |-> "idle", i |-> 0, tail |-> GENESIS, peer |-> NOBODY,
                    reply |-> <<>>, synced |-> FALSE, served |-> GENESIS]
  BY SyncAssumption DEF SyncAssumption, Resting
<1>2. 0 \in 0..Cardinality(Peers) /\ <<>> \in Seq(Block)
  BY PeersCounted
<1> HIDE DEF GENESIS
<1> QED
  BY <1>1, <1>2 DEF SyncState

\* At first the node has the genesis block and rests.
LEMMA SyncInvHolds == Init => SyncInv
<1> SUFFICES ASSUME Init PROVE SyncInv
  OBVIOUS
<1>1. TreeOK(chain, tail)
  BY SyncAssumption DEF Init, TreeOK, SyncAssumption
<1>2. ListOK(listed)
  BY ListMade DEF Init
<1>3. OthersOK
  BY DEF Init, OthersOK
<1>4. SyncOK /\ ReplyOK
  BY RestingFacts DEF Init, SyncOK, ReplyOK
<1> QED
  BY <1>1, <1>2, <1>3, <1>4 DEF SyncInv

\* What each action leaves alone.
LEMMA Unmoved ==
  ASSUME SyncInv
  PROVE  /\ UNCHANGED <<chain, tail>> => TreeOK(chain', tail')
         /\ UNCHANGED listed => ListOK(listed')
         /\ UNCHANGED <<best, ready, writer, syncing, crashed>> => OthersOK'
         /\ UNCHANGED <<chain, tail, sync>> => SyncOK' /\ ReplyOK'
<1>1. UNCHANGED <<chain, tail>> => TreeOK(chain', tail')
  BY DEF SyncInv
<1>2. UNCHANGED listed => ListOK(listed')
  BY DEF SyncInv
<1>3. UNCHANGED <<best, ready, writer, syncing, crashed>> => OthersOK'
  BY DEF SyncInv, OthersOK
<1>4. UNCHANGED <<chain, tail, sync>> => SyncOK' /\ ReplyOK'
  BY DEF SyncInv, SyncOK, ReplyOK
<1> QED
  BY <1>1, <1>2, <1>3, <1>4

\* An action that only moves the sync keeps the invariant if it moves it to
\* a state that is in order.
LEMMA SyncMoves ==
  ASSUME SyncInv, UNCHANGED <<chain, tail, peerVars>>,
         syncing' \in BOOLEAN, crashed' \in BOOLEAN, SyncOK', ReplyOK'
  PROVE  SyncInv'
<1>1. UNCHANGED <<chain, tail>> /\ UNCHANGED listed /\ UNCHANGED <<best, ready, writer>>
  BY DEF peerVars
<1>2. TreeOK(chain', tail') /\ ListOK(listed')
  BY <1>1, Unmoved
<1>3. OthersOK'
  BY <1>1 DEF SyncInv, OthersOK
<1> QED
  BY <1>2, <1>3 DEF SyncInv

\* The steps of a sync that only change where it is.
LEMMA SyncStepsInOrder ==
  ASSUME SyncInv, SyncStarts \/ SyncPicks \/ SyncRLocks \/ SyncGetsPeer
  PROVE  SyncOK' /\ ReplyOK' /\ syncing' \in BOOLEAN /\ crashed' \in BOOLEAN
<1>1. /\ sync \in SyncState /\ SyncOK /\ ReplyOK /\ syncing \in BOOLEAN /\ crashed \in BOOLEAN
      /\ tail \in chain /\ tail \in Block /\ sync.tail \in chain
  BY DEF SyncInv, SyncOK, OthersOK, TreeOK
<1>2. /\ Len(listed) \in 0..Cardinality(Peers)
      /\ Cardinality(Peers) \in Nat
      /\ \A k \in 1..Len(listed) : listed[k] \in Peers
  <2>1. ListOK(listed)
    BY DEF SyncInv
  <2>2. listed \in Seq(Peers)
    BY <2>1 DEF ListOK
  <2>3. \A k \in 1..Len(listed) : listed[k] \in Peers
    BY <2>2
  <2> QED
    BY <2>1, <2>3, ListFits
<1>3. CASE SyncStarts
  <2>1. CASE sync' = sync
    <3>1. UNCHANGED <<chain, tail, sync>>
      BY <1>3, <2>1 DEF SyncStarts
    <3> QED
      BY <1>1, <1>3, <3>1, Unmoved DEF SyncStarts
  <2>2. CASE sync' = [Resting EXCEPT !.pc = "pick", !.tail = tail]
    <3>1. sync' \in SyncState
      BY <1>1, <2>2, RestingFacts DEF SyncState
    <3>2. sync'.pc = "pick" /\ sync'.tail = tail /\ sync'.reply = <<>>
      BY <2>2, RestingFacts DEF SyncState
    <3>3. chain' = chain
      BY <1>3 DEF SyncStarts
    <3>4. SyncOK' /\ ReplyOK'
      BY <1>1, <3>1, <3>2, <3>3 DEF SyncOK, ReplyOK
    <3> QED
      BY <1>1, <1>3, <3>4 DEF SyncStarts
  <2> QED
    BY <1>3, <2>1, <2>2 DEF SyncStarts
<1>4. CASE SyncPicks
  <2>1. CASE listed = <<>>
    <3>1. UNCHANGED <<chain, tail, sync>> /\ crashed' = TRUE /\ syncing' = syncing
      BY <1>4, <2>1 DEF SyncPicks
    <3> QED
      BY <1>1, <3>1, Unmoved
  <2>2. CASE listed # <<>>
    <3>1. /\ UNCHANGED <<chain, tail, syncing, crashed>>
          /\ sync' = [sync EXCEPT !.pc = "rlock", !.i = @ % Len(listed)]
          /\ sync.pc = "pick"
      BY <1>4, <2>2 DEF SyncPicks
    <3>2. Len(listed) \in Nat \ {0}
      <4>1. listed \in Seq(Peers)
        BY DEF SyncInv, ListOK
      <4> QED
        BY <2>2, <4>1, EmptySeq
    <3>3. sync.i \in Nat
      BY <1>1, <1>2 DEF SyncState
    <3> DEFINE i == sync.i % Len(listed)
    <3>4. i \in 0..Cardinality(Peers) /\ i < Cardinality(Peers)
      <4>1. i \in 0..Len(listed) - 1
        BY <3>2, <3>3
      <4> HIDE DEF i
      <4> QED
        BY <1>2, <4>1
    <3>5. sync' = [sync EXCEPT !.pc = "rlock", !.i = i]
      BY <3>1
    <3> HIDE DEF i
    <3>6. /\ sync' \in SyncState /\ sync'.pc = "rlock" /\ sync'.i = i
          /\ sync'.tail = sync.tail /\ sync'.reply = sync.reply
      BY <1>1, <3>4, <3>5 DEF SyncState
    <3>7. SyncOK' /\ ReplyOK'
      BY <1>1, <3>1, <3>4, <3>6 DEF SyncOK, ReplyOK
    <3> QED
      BY <1>1, <3>1, <3>7
  <2> QED
    BY <2>1, <2>2
<1>5. ASSUME NEW to \in {"locked", "pick"}, sync' = [sync EXCEPT !.pc = to],
             sync.pc \in {"rlock", "locked"}, UNCHANGED <<chain, tail, syncing, crashed>>
      PROVE  SyncOK' /\ ReplyOK' /\ syncing' \in BOOLEAN /\ crashed' \in BOOLEAN
  <2>1. /\ sync' \in SyncState /\ sync'.pc = to /\ sync'.i = sync.i
        /\ sync'.tail = sync.tail /\ sync'.reply = sync.reply
    BY <1>1, <1>5 DEF SyncState
  <2>2. SyncOK' /\ ReplyOK'
    BY <1>1, <1>5, <2>1 DEF SyncOK, ReplyOK
  <2> QED
    BY <1>1, <1>5, <2>2
<1>6. CASE SyncRLocks
  <2>1. sync' = [sync EXCEPT !.pc = "locked"] /\ sync.pc = "rlock"
    BY <1>6 DEF SyncRLocks, SyncGoes
  <2>2. UNCHANGED <<chain, tail, syncing, crashed>>
    BY <1>6 DEF SyncRLocks
  <2> QED
    BY <1>5, <2>1, <2>2
<1>7. CASE SyncGetsPeer
  <2>1. sync.pc = "locked" /\ UNCHANGED <<chain, tail, syncing>>
    BY <1>7 DEF SyncGetsPeer
  <2>2. CASE /\ sync.i < Len(listed)
             /\ sync' = [sync EXCEPT !.pc = "call", !.peer = listed[sync.i + 1]]
             /\ UNCHANGED crashed
    <3>1. sync.i \in Nat
      BY <1>1, <1>2 DEF SyncState
    <3>2. listed[sync.i + 1] \in Peers
      BY <1>2, <2>2, <3>1
    <3>3. /\ sync' \in SyncState /\ sync'.pc = "call" /\ sync'.i = sync.i
          /\ sync'.tail = sync.tail /\ sync'.reply = sync.reply
          /\ sync'.peer = listed[sync.i + 1]
      BY <1>1, <2>2, <3>2 DEF SyncState
    <3>4. SyncOK' /\ ReplyOK'
      BY <1>1, <2>1, <3>2, <3>3 DEF SyncOK, ReplyOK
    <3> QED
      BY <1>1, <2>1, <2>2, <3>4
  <2>3. CASE SyncGoes("locked", "pick") /\ UNCHANGED crashed
    <3>1. UNCHANGED <<chain, tail, syncing, crashed>>
      BY <2>1, <2>3
    <3>2. sync' = [sync EXCEPT !.pc = "pick"] /\ sync.pc = "locked"
      BY <2>3 DEF SyncGoes
    <3> QED
      BY <1>5, <3>1, <3>2
  <2>4. CASE crashed' = TRUE /\ UNCHANGED sync
    <3>1. UNCHANGED <<chain, tail, sync>>
      BY <2>1, <2>4
    <3> QED
      BY <1>1, <2>1, <2>4, <3>1, Unmoved
  <2> QED
    BY <1>7, <2>2, <2>3, <2>4 DEF SyncGetsPeer
<1> QED
  BY <1>3, <1>4, <1>6, <1>7

\* The answer, the failure, and the end of a sync or of one round of it.
LEMMA RepliesInOrder ==
  ASSUME SyncInv, SyncAnswered \/ SyncFails \/ SyncGoesOn \/ SyncEnds
  PROVE  SyncOK' /\ ReplyOK' /\ syncing' \in BOOLEAN /\ crashed' \in BOOLEAN
<1>1. /\ sync \in SyncState /\ SyncOK /\ syncing \in BOOLEAN /\ crashed \in BOOLEAN
      /\ tail \in chain /\ tail \in Block /\ sync.tail \in chain /\ GENESIS \in chain
      /\ TreeOK(chain, tail)
  BY DEF SyncInv, SyncOK, OthersOK, TreeOK
<1>2. UNCHANGED <<chain, tail>> /\ syncing' \in BOOLEAN /\ crashed' \in BOOLEAN
  BY <1>1 DEF SyncAnswered, SyncFails, SyncGoesOn, SyncEnds
<1>3. CASE SyncAnswered
  <2> DEFINE t == best[sync.peer]
             reply == GetBlocks(t, sync.tail, BATCH)
  <2>1. /\ sync.pc = "call"
        /\ sync' = [sync EXCEPT !.pc = "add", !.reply = reply.dq, !.synced = reply.synced,
                                !.served = t]
    BY <1>3 DEF SyncAnswered
  <2>2. t \in Block /\ BATCH \in Nat \ {0}
    BY <1>1, <2>1, SyncAssumption DEF SyncInv, SyncOK, OthersOK, SyncAssumption
  <2> HIDE DEF t
  <2>3. /\ reply.dq \in Seq(Block)
        /\ reply.synced \in BOOLEAN
        /\ Replied(chain, tail, t, reply.dq, reply.synced)
        /\ Rising(chain, tail, t, reply.dq, reply.synced, sync.tail)
    BY <1>1, <2>2, RepliedAtFirst
  <2> HIDE DEF reply
  <2>4. /\ sync' \in SyncState /\ sync'.pc = "add" /\ sync'.i = sync.i
        /\ sync'.tail = sync.tail /\ sync'.reply = reply.dq
        /\ sync'.synced = reply.synced /\ sync'.served = t
    BY <1>1, <2>1, <2>2, <2>3 DEF SyncState
  <2>5. SyncOK'
    BY <1>1, <1>2, <2>1, <2>4 DEF SyncOK
  <2>6. ReplyOK'
    BY <1>2, <2>3, <2>4 DEF ReplyOK
  <2> QED
    BY <1>2, <2>5, <2>6
<1>4. CASE sync' = Resting
  <2>1. SyncOK' /\ ReplyOK'
    BY <1>1, <1>2, <1>4, RestingFacts DEF SyncOK, ReplyOK
  <2> QED
    BY <1>2, <2>1
<1>5. CASE SyncGoesOn
  <2>1. /\ sync' = [Resting EXCEPT !.pc = "pick", !.tail = tail, !.i = sync.i + 1]
        /\ sync.pc = "add"
    BY <1>5 DEF SyncGoesOn
  <2>2. sync.i + 1 \in 0..Cardinality(Peers)
    <3>1. sync.i \in 0..Cardinality(Peers) /\ sync.i < Cardinality(Peers)
      BY <1>1, <2>1 DEF SyncOK, SyncState
    <3> QED
      BY <3>1, PeersCounted
  <2>3. /\ sync' \in SyncState /\ sync'.pc = "pick" /\ sync'.tail = tail /\ sync'.reply = <<>>
    BY <1>1, <2>1, <2>2, RestingFacts DEF SyncState
  <2>4. SyncOK' /\ ReplyOK'
    BY <1>1, <1>2, <2>3 DEF SyncOK, ReplyOK
  <2> QED
    BY <1>2, <2>4
<1> QED
  BY <1>3, <1>4, <1>5 DEF SyncFails, SyncEnds

\* SetBlockInternal with the next block of the reply.
LEMMA AddsInOrder ==
  ASSUME SyncInv, SyncAdds
  PROVE  SyncInv'
<1>1. /\ sync \in SyncState /\ SyncOK /\ ReplyOK /\ TreeOK(chain, tail)
      /\ sync.served \in Block /\ sync.reply \in Seq(Block)
  BY DEF SyncInv, SyncOK, SyncState
<1>2. /\ sync.pc = "add" /\ sync.reply # <<>> /\ HandleNewBlock(Head(sync.reply))
      /\ sync' = [sync EXCEPT !.reply = Tail(@)]
      /\ UNCHANGED <<best, listed, ready, writer, syncing, crashed>>
  BY DEF SyncAdds, peerVars
<1>3. Head(sync.reply) \in Block /\ Tail(sync.reply) \in Seq(Block)
  BY <1>1, <1>2, HeadTailProperties
<1>4. TreeOK(chain', tail') /\ chain \subseteq chain'
  <2>1. CASE Acceptable(Head(sync.reply))
    <3>1. AddBlock(Head(sync.reply))
      BY <1>2, <2>1 DEF HandleNewBlock
    <3> QED
      BY <1>1, <1>3, <2>1, <3>1, TreeGrows DEF AddBlock
  <2>2. CASE ~Acceptable(Head(sync.reply))
    BY <1>1, <1>2, <2>2 DEF HandleNewBlock
  <2> QED
    BY <2>1, <2>2
<1>5. /\ sync' \in SyncState /\ sync'.pc = "add" /\ sync'.i = sync.i /\ sync'.tail = sync.tail
      /\ sync'.reply = Tail(sync.reply) /\ sync'.synced = sync.synced
      /\ sync'.served = sync.served
  BY <1>1, <1>2, <1>3 DEF SyncState
<1>6. SyncOK'
  BY <1>1, <1>2, <1>4, <1>5 DEF SyncOK
<1>7. /\ Replied(chain', tail', sync.served, Tail(sync.reply), sync.synced)
      /\ Rising(chain', tail', sync.served, Tail(sync.reply), sync.synced, sync.tail)
  <2>1. /\ Replied(chain, tail, sync.served, sync.reply, sync.synced)
        /\ Rising(chain, tail, sync.served, sync.reply, sync.synced, sync.tail)
    BY <1>1, <1>2 DEF ReplyOK
  <2>2. sync.tail \in Block
    BY <1>1 DEF SyncState
  <2> QED
    BY <1>1, <1>2, <2>1, <2>2, RepliedNext
<1>8. ReplyOK'
  BY <1>5, <1>7 DEF ReplyOK
<1>9. ListOK(listed') /\ OthersOK'
  BY <1>2, Unmoved
<1> QED
  BY <1>4, <1>6, <1>8, <1>9 DEF SyncInv

\* A block from elsewhere.
LEMMA HearingInOrder ==
  ASSUME SyncInv, NEW b \in Block, NodeHears(b)
  PROVE  SyncInv'
<1>1. /\ Acceptable(b) /\ AddBlock(b)
      /\ UNCHANGED <<best, listed, ready, writer, sync, syncing, crashed>>
  BY DEF NodeHears, peerVars
<1>2. TreeOK(chain, tail) /\ SyncOK /\ ReplyOK /\ sync.served \in Block
  BY DEF SyncInv, SyncOK, SyncState
<1>3. /\ TreeOK(chain', tail') /\ Len(tail') \in Nat /\ Len(tail) <= Len(tail')
      /\ chain' = chain \cup {b}
  BY <1>1, <1>2, TreeGrows DEF AddBlock
<1>4. SyncOK'
  BY <1>1, <1>2, <1>3 DEF SyncOK
<1>5. ReplyOK'
  <2>1. SUFFICES ASSUME sync.pc = "add"
                 PROVE  /\ Replied(chain', tail', sync.served, sync.reply, sync.synced)
                        /\ Rising(chain', tail', sync.served, sync.reply, sync.synced,
                                  sync.tail)
    BY <1>1 DEF ReplyOK
  <2>2. /\ Replied(chain, tail, sync.served, sync.reply, sync.synced)
        /\ Rising(chain, tail, sync.served, sync.reply, sync.synced, sync.tail)
    BY <1>2, <2>1 DEF ReplyOK
  <2>3. Front(b) \in chain /\ b \notin chain /\ Len(tail) - Len(Front(b)) <= CONFIRMATION
    BY <1>1 DEF Acceptable, Height
  <2>4. /\ Replied(chain \cup {b}, tail', sync.served, sync.reply, sync.synced)
        /\ Rising(chain \cup {b}, tail', sync.served, sync.reply, sync.synced, sync.tail)
    BY <1>2, <1>3, <2>2, <2>3, RepliedStays
  <2> QED
    BY <1>3, <2>4
<1>6. ListOK(listed') /\ OthersOK'
  BY <1>1, Unmoved
<1> QED
  BY <1>3, <1>4, <1>5, <1>6 DEF SyncInv

\* Peers, connections and the list.
LEMMA PeersInOrder ==
  ASSUME SyncInv,
         \/ \E p \in Peers, b \in Block : PeerAdvances(p, b)
         \/ \E p \in Peers : ConnectionChanges(p) \/ WriterAsks(p)
         \/ WriterChangesList
  PROVE  SyncInv'
<1>1. UNCHANGED <<chain, tail, sync>> /\ UNCHANGED <<syncing, crashed>>
  BY DEF PeerAdvances, ConnectionChanges, WriterAsks, WriterChangesList
<1>2. TreeOK(chain', tail') /\ SyncOK' /\ ReplyOK'
  BY <1>1, Unmoved
<1>3. OthersOK /\ ListOK(listed)
  BY DEF SyncInv
<1>4. OthersOK'
  <2>1. best' \in [Peers -> Block]
    BY <1>3 DEF OthersOK, PeerAdvances, ConnectionChanges, WriterAsks, WriterChangesList
  <2>2. ready' \subseteq Peers
    BY <1>3 DEF OthersOK, PeerAdvances, ConnectionChanges, WriterAsks, WriterChangesList
  <2>3. writer' \in Peers \cup {NOBODY}
    BY <1>3 DEF OthersOK, PeerAdvances, ConnectionChanges, WriterAsks, WriterChangesList
  <2> QED
    BY <1>1, <1>3, <2>1, <2>2, <2>3 DEF OthersOK
<1>5. ListOK(listed')
  <2>1. CASE listed' = listed
    BY <1>3, <2>1
  <2>2. CASE WriterChangesList
    <3>1. writer \in Peers
      BY <1>3, <2>2 DEF OthersOK, WriterChangesList, NoWriter
    <3>2. CASE Contains(listed, writer)
      <4>1. listed' = RemoveFirst(listed, writer)
        BY <2>2, <3>2 DEF WriterChangesList
      <4> QED
        BY <1>3, <4>1, ListShrinks
    <3>3. CASE ~Contains(listed, writer)
      <4>1. listed' = Append(listed, writer)
        BY <2>2, <3>3 DEF WriterChangesList
      <4> QED
        BY <1>3, <3>1, <3>3, <4>1, ListGrows
    <3> QED
      BY <3>2, <3>3
  <2> QED
    BY <2>1, <2>2 DEF PeerAdvances, ConnectionChanges, WriterAsks
<1> QED
  BY <1>2, <1>4, <1>5 DEF SyncInv

\* Every step keeps the invariant.
LEMMA SyncInvKept == SyncInv /\ [Next]_vars => SyncInv'
<1> SUFFICES ASSUME SyncInv, [Next]_vars PROVE SyncInv'
  OBVIOUS
<1>1. CASE SyncStarts \/ SyncPicks \/ SyncRLocks \/ SyncGetsPeer
  <2>1. UNCHANGED <<chain, tail, peerVars>>
    BY <1>1 DEF SyncStarts, SyncPicks, SyncRLocks, SyncGetsPeer
  <2> QED
    BY <1>1, <2>1, SyncStepsInOrder, SyncMoves
<1>2. CASE SyncAnswered \/ SyncFails \/ SyncGoesOn \/ SyncEnds
  <2>1. UNCHANGED <<chain, tail, peerVars>>
    BY <1>2 DEF SyncAnswered, SyncFails, SyncGoesOn, SyncEnds
  <2> QED
    BY <1>2, <2>1, RepliesInOrder, SyncMoves
<1>3. CASE SyncAdds
  BY <1>3, AddsInOrder
<1>4. CASE \E b \in Block : NodeHears(b)
  BY <1>4, HearingInOrder
<1>5. CASE \/ \E p \in Peers, b \in Block : PeerAdvances(p, b)
           \/ \E p \in Peers : ConnectionChanges(p) \/ WriterAsks(p)
           \/ WriterChangesList
  BY <1>5, PeersInOrder
<1>6. CASE UNCHANGED vars
  <2>1. /\ UNCHANGED <<chain, tail>> /\ UNCHANGED listed /\ UNCHANGED <<chain, tail, sync>>
        /\ UNCHANGED <<best, ready, writer, syncing, crashed>>
    BY <1>6 DEF vars, peerVars
  <2>2. TreeOK(chain', tail') /\ ListOK(listed') /\ OthersOK' /\ SyncOK' /\ ReplyOK'
    BY <2>1, Unmoved
  <2> QED
    BY <2>2 DEF SyncInv
<1> QED
  BY <1>1, <1>2, <1>3, <1>4, <1>5, <1>6 DEF Next, SyncStep

\* SyncInv is an invariant.
LEMMA SyncInvAlways == Spec => []SyncInv
<1>1. Init => SyncInv
  BY SyncInvHolds
<1>2. SyncInv /\ [Next]_vars => SyncInv'
  BY SyncInvKept
<1> QED
  BY <1>1, <1>2, PTL DEF Spec

-----------------------------------------------------------------------------
(***************************************************************************)
(* What a sync promises, for every set of peers and blocks.                *)
(***************************************************************************)

\* The locals of SyncToLatest, the peer list and the block tree have their
\* types at every time: the node's blocks are a tree with a highest block as its
\* tail, whatever a sync, SetBlock handlers and the miner add and in whatever
\* order, and no peer is listed twice.
THEOREM TypesAreCorrect == Spec => []TypeOK
<1>1. SyncInv => TypeOK
  <2> SUFFICES ASSUME SyncInv PROVE TypeOK
    OBVIOUS
  <2>1. /\ chain \subseteq Block /\ GENESIS \in chain
        /\ \A b \in chain \ {GENESIS} : Front(b) \in chain
        /\ tail \in chain
        /\ \A b \in chain : Height(b) <= Height(tail)
    BY DEF SyncInv, TreeOK, Height
  <2>2. Range(listed) \subseteq Peers /\ IsInjective(listed)
    BY ListFits DEF SyncInv, ListOK
  <2>3. /\ sync.pc \in {"idle", "pick", "rlock", "locked", "call", "add"}
        /\ sync.i \in 0..Cardinality(Peers)
        /\ sync.tail \in chain
    BY DEF SyncInv, SyncOK, SyncState
  <2>4. /\ best \in [Peers -> Block]
        /\ ready \subseteq Peers
        /\ writer \in Peers \cup {NOBODY}
        /\ {syncing, crashed} \subseteq BOOLEAN
    BY DEF SyncInv, OthersOK
  <2> QED
    BY <2>1, <2>2, <2>3, <2>4 DEF TypeOK
<1> QED
  BY <1>1, SyncInvAlways, PTL

\* GetBlocks, asked for what follows the tail that the client holds, sends the
\* blocks that follow it, lowest first, and says synced exactly if nothing was
\* left out.  (RepliesFollow says it of branches and batches of any length.)
THEOREM BatchesFollow == Spec => []BatchFollows
<1>1. SyncInv => BatchFollows
  <2> SUFFICES ASSUME SyncInv, NEW t \in Tall, NEW number \in 1..3,
                      NEW all, all = Following(t, sync.tail),
                      NEW reply, reply = GetBlocks(t, sync.tail, number)
               PROVE  /\ reply.synced = (Len(all) <= number)
                      /\ reply.dq = SubSeq(all, 1, IF Len(all) <= number THEN Len(all) ELSE number)
    BY DEF BatchFollows
  <2>1. sync.tail \in Block
    BY DEF SyncInv, SyncOK, SyncState
  <2>2. sync.tail \in Seq(Range(sync.tail))
    BY <2>1, BlockFacts
  <2>3. PICK n \in 0..4 : t \in [1..n -> 1..2]
    BY DEF Tall
  <2>4. t \in Seq(1..2)
    BY <2>3, IsASeq
  <2>5. number \in Nat \ {0}
    OBVIOUS
  <2> QED
    BY <2>2, <2>4, <2>5, RepliesFollow
<1> QED
  BY <1>1, SyncInvAlways, PTL

\* When a peer has said that there is no more and its blocks have been handed to
\* HandleNewBlock, the node is as high as the peer was when it answered, or has
\* given up that branch.
THEOREM CaughtUpAtTheEnd == Spec => []CaughtUp
<1>1. SyncInv => CaughtUp
  <2> SUFFICES ASSUME SyncInv, sync.pc = "add", sync.reply = <<>>, sync.synced
               PROVE  Len(tail) >= Len(sync.served) \/ GivenUp(sync.served)
    BY DEF CaughtUp, Height
  <2> DEFINE t == sync.served
  <2>1. /\ Replied(chain, tail, t, <<>>, sync.synced) /\ t \in Block /\ TreeOK(chain, tail)
    BY DEF SyncInv, ReplyOK, SyncOK, SyncState
  <2> HIDE DEF t
  <2>2. /\ t \in Seq(Range(t)) /\ Len(t) \in Nat /\ Len(tail) \in Nat
        /\ \A b \in chain : Len(b) <= Len(tail)
    BY <2>1, BlockFacts DEF TreeOK
  <2>3. CASE Len(t) = 0
    BY <2>2, <2>3 DEF t
  <2>4. ASSUME NEW h \in 0..Len(t), Above(chain, tail, t, <<>>, sync.synced, h)
        PROVE  Len(tail) >= Len(t) \/ Hopeless(chain, tail, t)
    <3>1. h + Len(<<>>) = Len(t)
      BY <2>4 DEF Above
    <3>2. h = Len(t)
      BY <2>2, <3>1
    <3>3. UpTo(t, h) = t
      BY <2>2, <3>2, UpToAll
    <3>4. t \in chain \/ Hopeless(chain, tail, t)
      BY <2>4, <3>3 DEF Above
    <3> QED
      BY <2>2, <3>4
  <2>5. Hopeless(chain, tail, t) => GivenUp(t)
    BY <2>1, GivenUpMeans
  <2> QED
    BY <2>1, <2>3, <2>4, <2>5 DEF Replied, t
<1> QED
  BY <1>1, SyncInvAlways, PTL

\* No block of a reply comes before its parent: for each block that GetBlocks
\* sent, the parent stands before it in what is left of the reply, or is in the
\* node's tree, or that branch is given up.
THEOREM NoneIsOrphan == Spec => []NoOrphans
<1>1. SyncInv => NoOrphans
  <2> SUFFICES ASSUME SyncInv, NEW j \in DOMAIN sync.reply, NEW b, b = sync.reply[j],
                      b # GENESIS
               PROVE  \/ \E i \in 1..j-1 : sync.reply[i] = Front(b)
                      \/ Front(b) \in chain
                      \/ GivenUp(b)
    BY DEF NoOrphans
  <2> DEFINE t == sync.served
             reply == sync.reply
  <2>1. TreeOK(chain, tail) /\ t \in Block /\ reply \in Seq(Block)
    BY DEF SyncInv, SyncOK, SyncState
  <2>2. j \in 1..Len(reply) /\ b = reply[j]
    BY <2>1
  <2>3. Replied(chain, tail, t, reply, sync.synced)
    <3>1. reply # <<>>
      BY <2>2
    <3>2. ReplyOK /\ (sync.pc # "add" => sync.reply = <<>>)
      BY DEF SyncInv, SyncOK
    <3> QED
      BY <3>1, <3>2 DEF ReplyOK
  <2> HIDE DEF t, reply
  <2>4. t \in Seq(Range(t)) /\ Len(t) \in Nat /\ Len(reply) \in Nat /\ b \in Block
    <3>1. t \in Seq(Range(t)) /\ Len(t) \in Nat
      BY <2>1, BlockFacts
    <3>2. Len(reply) \in Nat /\ b \in Block
      BY <2>1, <2>2
    <3> QED
      BY <3>1, <3>2
  <2>5. ~(Len(t) = 0 /\ (reply = <<>> \/ reply = <<GENESIS>>))
    <3>1. CASE reply = <<>>
      <4>1. Len(reply) = 0
        BY <3>1
      <4> QED
        BY <2>2, <4>1
    <3>2. CASE reply = <<GENESIS>>
      <4>1. \A i \in 1..Len(<<GENESIS>>) : <<GENESIS>>[i] = GENESIS
        OBVIOUS
      <4> QED
        BY <2>2, <3>2, <4>1
    <3> QED
      BY <3>1, <3>2
  <2>6. PICK h \in 0..Len(t) : Above(chain, tail, t, reply, sync.synced, h)
    BY <2>3, <2>5 DEF Replied
  <2>7. h + j \in 0..Len(t) /\ h + j \in 1..Len(t) /\ h \in Nat
    BY <2>2, <2>4, <2>6 DEF Above
  <2>8. b = UpTo(t, h + j)
    BY <2>2, <2>6 DEF Above
  <2>9. Front(b) = UpTo(t, h + j - 1)
    <3>1. PICK n : n = h + j
      OBVIOUS
    <3>2. n \in 1..Len(t) /\ b = UpTo(t, n)
      BY <2>7, <2>8, <3>1
    <3>3. Front(UpTo(t, n)) = UpTo(t, n - 1)
      BY <2>4, <3>2, FrontOfUpTo
    <3>4. Front(b) = UpTo(t, n - 1)
      BY <3>2, <3>3
    <3>5. n \in Nat /\ h \in Nat /\ j \in Nat
      BY <2>2, <2>4, <2>7, <3>1
    <3>6. n - 1 = h + j - 1
      BY <3>1, <3>5
    <3> QED
      BY <3>4, <3>6
  <2>10. CASE j # 1
    <3>1. j - 1 \in 1..Len(reply) /\ j - 1 \in 1..j-1 /\ h + (j - 1) = h + j - 1
      BY <2>2, <2>4, <2>7, <2>10
    <3>2. reply[j - 1] = UpTo(t, h + j - 1)
      BY <2>6, <3>1 DEF Above
    <3> QED
      BY <2>9, <3>1, <3>2 DEF reply
  <2>11. CASE j = 1
    <3>1. Front(b) = UpTo(t, h)
      BY <2>7, <2>9, <2>11
    <3>2. CASE UpTo(t, h) \in chain
      BY <3>1, <3>2
    <3>3. CASE Hopeless(chain, tail, t)
      <4>1. ASSUME NEW n \in 0..Len(b), UpTo(b, n) \in chain PROVE Len(tail) - n > CONFIRMATION
        <5>1. Len(b) = h + j
          BY <2>4, <2>7, <2>8, UpToFacts
        <5>2. n \in 0..Len(t) /\ n \in 0..h + j
          BY <2>4, <2>7, <5>1
        <5>3. UpTo(b, n) = UpTo(t, n)
          BY <2>4, <2>7, <2>8, <5>2, UpToUpTo
        <5> QED
          BY <3>3, <4>1, <5>2, <5>3 DEF Hopeless
      <4>2. Hopeless(chain, tail, b)
        BY <4>1 DEF Hopeless
      <4> QED
        BY <2>1, <2>4, <4>2, GivenUpMeans
    <3> QED
      BY <2>6, <3>2, <3>3 DEF Above
  <2> QED
    BY <2>10, <2>11
<1> QED
  BY <1>1, SyncInvAlways, PTL

\* A round with a peer that has the tail the round began with on its chain brings
\* the node a whole batch further up, or the node has given that branch up; it is
\* higher than at the round's beginning in either case.
THEOREM EveryRoundGoesUp == Spec => []RoundsGoUp
<1>1. SyncInv => RoundsGoUp
  <2> SUFFICES ASSUME SyncInv, sync.pc = "add", sync.reply = <<>>, ~sync.synced,
                      IsPrefix(sync.tail, sync.served)
               PROVE  /\ Len(tail) > Len(sync.tail)
                      /\ Len(tail) >= Len(sync.tail) + BATCH \/ GivenUp(sync.served)
    BY DEF RoundsGoUp, Height
  <2> DEFINE t == sync.served
             h == Len(sync.tail) + BATCH
  <2>1. /\ TreeOK(chain, tail) /\ t \in Block /\ sync.tail \in chain /\ sync.tail \in Block
        /\ Rising(chain, tail, t, <<>>, sync.synced, sync.tail)
    BY DEF SyncInv, ReplyOK, SyncOK, SyncState
  <2>2. /\ t \in Seq(Range(t)) /\ Len(t) \in Nat /\ Len(tail) \in Nat
        /\ \A b \in chain : Len(b) <= Len(tail)
        /\ sync.tail \in Seq(Range(sync.tail)) /\ Len(sync.tail) \in Nat
        /\ BATCH \in Nat \ {0} /\ CONFIRMATION \in Nat
    BY <2>1, BlockFacts, SyncAssumption DEF TreeOK, SyncAssumption
  <2>3. Above(chain, tail, t, <<>>, sync.synced, h)
    <3>1. Above(chain, tail, t, <<>>, sync.synced, Len(sync.tail) + (BATCH - Len(<<>>)))
      BY <2>1 DEF Rising
    <3>2. Len(sync.tail) + (BATCH - Len(<<>>)) = h
      BY <2>2
    <3> QED
      BY <3>1, <3>2
  <2>4. h \in 1..Len(t) /\ h \in 0..Len(t) /\ Len(sync.tail) \in 0..Len(t) /\ Len(sync.tail) < h
    <3>1. h + Len(<<>>) <= Len(t)
      BY <2>3 DEF Above
    <3> QED
      BY <2>2, <3>1
  <2> HIDE DEF t, h
  <2>5. CASE UpTo(t, h) \in chain
    <3>1. Len(UpTo(t, h)) = h
      BY <2>2, <2>4, UpToFacts
    <3>2. h <= Len(tail)
      BY <2>2, <2>5, <3>1
    <3> QED
      BY <2>2, <2>4, <3>2 DEF h
  <2>6. CASE Hopeless(chain, tail, t)
    <3>1. UpTo(t, Len(sync.tail)) = sync.tail
      <4>1. SubSeq(sync.tail, 1, Len(sync.tail)) = sync.tail
        BY <2>2, SubSeqFull
      <4> QED
        BY <4>1 DEF IsPrefix, UpTo, t
    <3>2. Len(tail) - Len(sync.tail) > CONFIRMATION
      BY <2>1, <2>4, <2>6, <3>1 DEF Hopeless
    <3>3. GivenUp(t)
      BY <2>1, <2>6, GivenUpMeans
    <3> QED
      BY <2>2, <3>2, <3>3 DEF t
  <2> QED
    BY <2>3, <2>5, <2>6 DEF Above
<1> QED
  BY <1>1, SyncInvAlways, PTL

-----------------------------------------------------------------------------
(***************************************************************************)
(* The node's blocks implement BlockTree, whoever adds to them.            *)
(***************************************************************************)
LEMMA TreeAtFirst == Init => Tree!Init
BY DEF Init, Tree!Init, GENESIS, Height

\* To add an acceptable block is to grow the tree.
LEMMA AddingGrows ==
  ASSUME TreeOK(chain, tail), NEW b \in Block, Acceptable(b), AddBlock(b)
  PROVE  Tree!Next
<1> DEFINE p == Front(b)
<1>1. /\ b \notin chain /\ p \in chain /\ b # GENESIS
      /\ chain' = chain \cup {b} /\ tail' = IF Len(b) > Len(tail) THEN b ELSE tail
  BY DEF Acceptable, AddBlock, TreeOK, Height
<1>2. /\ Len(b) \in Nat /\ Len(tail) \in Nat /\ \A c \in chain : Len(c) \in Nat
      /\ \A c \in chain : Len(c) <= Len(tail)
      /\ tail \in chain
  BY BlockFacts DEF TreeOK
<1>3. Len(b) = Len(p) + 1
  <2>1. b \in Seq(Range(b)) /\ Len(b) \in Nat /\ UpTo(b, Len(b)) = b
    BY BlockFacts, UpToAll
  <2>2. Len(b) # 0
    BY <1>1, <2>1, EmptySeq DEF GENESIS
  <2>3. Len(b) \in 1..Len(b) /\ Len(b) - 1 \in 0..Len(b)
    BY <2>1, <2>2
  <2>4. p = UpTo(b, Len(b) - 1)
    BY <2>1, <2>3, FrontOfUpTo
  <2>5. Len(p) = Len(b) - 1
    BY <2>1, <2>3, <2>4, UpToFacts
  <2> QED
    BY <2>1, <2>5
<1> HIDE DEF p
<1>4. /\ Tree!Blocks = chain
      /\ Tree!Blocks' = chain'
  BY DEF Tree!Blocks
<1>5. Tree!Grow(b, p)
  <2>1. [c \in chain |-> Height(c)]' =
          [c \in chain \cup {b} |-> IF c = b THEN Height(p) + 1 ELSE Height(c)]
    BY <1>1, <1>3 DEF Height
  <2>2. [c \in chain \ {GENESIS} |-> Front(c)]' =
          [c \in (chain \ {GENESIS}) \cup {b} |-> IF c = b THEN p ELSE Front(c)]
    BY <1>1 DEF p
  <2>3. /\ tail' \in chain \cup {b}
        /\ \A c \in chain \cup {b} : Len(c) <= Len(tail')
        /\ tail' # tail => Len(tail') > Len(tail)
    BY <1>1, <1>2
  <2> QED
    BY <1>1, <1>2, <2>1, <2>2, <2>3 DEF Tree!Grow, Tree!Blocks, Height
<1> QED
  BY <1>1, <1>4, <1>5 DEF Tree!Next

\* Every step grows the tree by a block or leaves it alone.
LEMMA TreeStep == SyncInv /\ [Next]_vars => [Tree!Next]_(Tree!vars)
<1> SUFFICES ASSUME SyncInv, [Next]_vars PROVE Tree!Next \/ UNCHANGED <<chain, tail>>
  BY DEF Tree!vars
<1>1. TreeOK(chain, tail) /\ sync.reply \in Seq(Block)
  BY DEF SyncInv, SyncOK, SyncState
<1>2. CASE SyncAdds
  <2>1. sync.reply # <<>> /\ HandleNewBlock(Head(sync.reply))
    BY <1>2 DEF SyncAdds
  <2>2. Head(sync.reply) \in Block
    BY <1>1, <2>1, HeadTailProperties
  <2> QED
    BY <1>1, <2>1, <2>2, AddingGrows DEF HandleNewBlock
<1>3. CASE \E b \in Block : NodeHears(b)
  BY <1>1, <1>3, AddingGrows DEF NodeHears
<1>4. CASE UNCHANGED <<chain, tail>>
  BY <1>4
<1> QED
  BY <1>2, <1>3, <1>4
     DEF Next, SyncStep, SyncStarts, SyncPicks, SyncRLocks, SyncGetsPeer, SyncAnswered,
         SyncFails, SyncGoesOn, SyncEnds, PeerAdvances, ConnectionChanges, WriterAsks,
         WriterChangesList, vars

\* What a node promises of its blocks holds however they reach it: from syncs,
\* SetBlock handlers and its miner.
THEOREM SyncKeepsTree == Spec => ImplementsBlockTree
<1>1. SyncInv /\ [Next]_vars => [Tree!Next]_(Tree!vars)
  BY TreeStep
<1> QED
  BY <1>1, TreeAtFirst, SyncInvAlways, PTL DEF Spec, ImplementsBlockTree, Tree!Spec
=============================================================================
