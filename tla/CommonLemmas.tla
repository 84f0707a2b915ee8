----------------------------- MODULE CommonLemmas -----------------------------
(***************************************************************************)
(* Facts that the proofs of several components rest on: the least number   *)
(* of a set and the number of a given rank in it, sequences that are       *)
(* joined, and the solution of a definition by recursion.                  *)
(***************************************************************************)
EXTENDS Integers, Sequences, FiniteSets, FiniteSetTheorems, WellFoundedInduction, TLAPS

-----------------------------------------------------------------------------
(* Numbers *)

\* A set of natural numbers that is not empty has a least one.
LEMMA LeastNumber ==
    ASSUME NEW T, T \subseteq Nat, T # {}
    PROVE  \E x \in T : \A y \in T : x <= y
<1>1. PICK x \in T : \A y \in T : <<y, x>> \notin OpToRel(<, Nat)
  BY NatLessThanWellFounded, WFMin
<1>2. ASSUME NEW y \in T
      PROVE  x <= y
  <2>1. <<y, x>> \in Nat \X Nat
    OBVIOUS
  <2>2. ~(y < x)
    BY <1>1, <2>1 DEF OpToRel
  <2> QED
    BY <2>2
<1> QED
  BY <1>2

\* A finite set of positive numbers has an element of every rank.
LEMMA RankReached ==
    ASSUME NEW n \in Nat, NEW I \in SUBSET (1 .. n), NEW k \in 1 .. Cardinality(I)
    PROVE  \E i \in I : Cardinality({j \in I : j <= i}) = k
<1> DEFINE Below(m) == {j \in I : j <= m}
           Enough   == {m \in Nat : Cardinality(Below(m)) >= k}
<1>0. \A j \in I : j \in Nat /\ 1 <= j /\ j <= n
  OBVIOUS
<1>1. IsFiniteSet(I)
  BY FS_Interval, FS_Subset, n \in Int, 1 \in Int
<1>2. Cardinality(I) \in Nat
  BY <1>1, FS_CardinalityType
<1>3. ASSUME NEW m \in Nat
      PROVE  IsFiniteSet(Below(m)) /\ Cardinality(Below(m)) \in Nat
  <2>1. Below(m) \in SUBSET I
    OBVIOUS
  <2> HIDE DEF Below
  <2> QED
    BY <1>1, <2>1, FS_Subset, FS_CardinalityType
<1>4. n \in Enough
  <2>1. Below(n) = I
    BY <1>0
  <2> QED
    BY <1>2, <2>1
<1>5. PICK m \in Nat : /\ Cardinality(Below(m)) >= k
                      /\ \A l \in Nat : Cardinality(Below(l)) >= k => m <= l
  <2>1. Enough \subseteq Nat /\ Enough # {}
    BY <1>4
  <2>2. \E m \in Enough : \A l \in Enough : m <= l
    <3> HIDE DEF Enough
    <3> QED
      BY <2>1, LeastNumber
  <2> QED
    BY <2>2
<1>6. m # 0
  <2>1. \A j \in I : ~(j <= 0)
    BY <1>0
  <2>2. Below(0) = {}
    BY <2>1
  <2> HIDE DEF Below
  <2>3. Cardinality(Below(0)) = 0
    BY <2>2, FS_EmptySet
  <2> QED
    BY <1>2, <1>5, <2>3
<1>7. m - 1 \in Nat
  BY <1>6
<1>8. Cardinality(Below(m - 1)) < k
  <2> HIDE DEF Below
  <2>1. ~(Cardinality(Below(m - 1)) >= k)
    BY <1>5, <1>7
  <2>2. Cardinality(Below(m - 1)) \in Nat
    BY <1>3, <1>7
  <2> QED
    BY <1>2, <2>1, <2>2
<1>9. \A j \in I : j <= m <=> j <= m - 1 \/ j = m
  BY <1>0
<1>10. m \in I
  <2>1. SUFFICES ASSUME m \notin I
                 PROVE  FALSE
    OBVIOUS
  <2>2. \A j \in I : j <= m <=> j <= m - 1
    BY <1>9, <2>1
  <2>3. Below(m) = Below(m - 1)
    BY <2>2
  <2>4. Cardinality(Below(m - 1)) \in Nat
    BY <1>3, <1>7
  <2> HIDE DEF Below
  <2> QED
    BY <1>2, <1>5, <1>8, <2>3, <2>4
<1>11. Cardinality(Below(m)) = Cardinality(Below(m - 1)) + 1
  <2>1. m \notin Below(m - 1)
    OBVIOUS
  <2>2. m <= m
    OBVIOUS
  <2>3. Below(m) = Below(m - 1) \cup {m}
    BY <1>9, <1>10, <2>2
  <2>4. IsFiniteSet(Below(m - 1))
    BY <1>3, <1>7
  <2> HIDE DEF Below
  <2> QED
    BY <2>1, <2>3, <2>4, FS_AddElement
<1>12. Cardinality(Below(m)) = k
  <2>1. Cardinality(Below(m - 1)) \in Nat
    BY <1>3, <1>7
  <2> HIDE DEF Below
  <2> QED
    BY <1>2, <1>5, <1>8, <1>11, <2>1
<1> QED
  BY <1>10, <1>12

\* A greater factor makes a product greater by one factor at least.
LEMMA Times ==
    ASSUME NEW D \in Nat, NEW x \in Int, NEW y \in Int, y < x
    PROVE  D * y \in Int /\ D * x \in Int /\ D * x >= D * y + D
<1>1. PICK k \in Nat : x = y + 1 + k
  <2>1. x - y - 1 \in Nat /\ x = y + 1 + (x - y - 1)
    OBVIOUS
  <2> QED
    BY <2>1
<1>2. D * k \in Nat
  OBVIOUS
<1>3. D * x = D * y + D + D * k
  BY <1>1
<1> QED
  BY <1>2, <1>3

\* What quotient and remainder are.
LEMMA Quotient ==
    ASSUME NEW D \in Nat \ {0}, NEW u \in Int
    PROVE  /\ u \div D \in Int /\ u % D \in Int /\ u = D * (u \div D) + (u % D)
           /\ 0 <= u % D /\ u % D < D
OBVIOUS

\* At or below a number below a bound is at or below the bound.
LEMMA AtMost ==
    ASSUME NEW p \in Int, NEW q \in Int, NEW r \in Int, p = q \/ p < q, q <= r
    PROVE  p <= r
OBVIOUS

\* The place in a sequence that holds a stretch of a longer one.
LEMMA PlaceIn ==
    ASSUME NEW a \in Int, NEW b \in Int, NEW x \in a .. b
    PROVE  x - a + 1 \in 1 .. b - a + 1
OBVIOUS

\* Between two ticks of different days there is a midnight.
LEMMA MidnightBetween ==
    ASSUME NEW D \in Nat \ {0}, NEW a \in Int, NEW u \in Int, a <= u, a \div D # u \div D
    PROVE  \E d \in a + 1 .. u : d % D = 0
<1> DEFINE q  == u \div D
           p  == a \div D
           d  == D * q
           e  == D * p
<1>1. q \in Int /\ p \in Int /\ p # q
  BY Quotient
<1>2. u = d + (u % D) /\ 0 <= u % D /\ u % D < D /\ u % D \in Int
  BY Quotient
<1>3. a = e + (a % D) /\ 0 <= a % D /\ a % D < D /\ a % D \in Int
  BY Quotient
<1> HIDE DEF q, p
<1>4. d \in Int /\ e \in Int
  BY <1>1
<1>5. p < q
  <2> SUFFICES ASSUME q < p
               PROVE  FALSE
    BY <1>1
  <2>1. e >= d + D
    BY <1>1, Times
  <2> HIDE DEF d, e
  <2> QED
    BY <1>2, <1>3, <1>4, <2>1
<1>6. d >= e + D
  BY <1>1, <1>5, Times
<1>7. d % D = 0
  <2> DEFINE t == d \div D
             m == d % D
  <2>1. t \in Int /\ m \in Int /\ d = D * t + m /\ 0 <= m /\ m < D
    BY <1>4, Quotient
  <2> HIDE DEF t, m
  <2>2. D * t \in Int
    BY <2>1
  <2>3. ~(t < q)
    <3> SUFFICES ASSUME t < q
                 PROVE  FALSE
      OBVIOUS
    <3>1. D * q >= D * t + D
      BY <1>1, <2>1, Times
    <3> QED
      BY <2>1, <2>2, <3>1
  <2>4. ~(q < t)
    <3> SUFFICES ASSUME q < t
                 PROVE  FALSE
      OBVIOUS
    <3>1. D * t >= D * q + D
      BY <1>1, <2>1, Times
    <3> QED
      BY <2>1, <2>2, <3>1
  <2>5. t = q
    BY <1>1, <2>1, <2>3, <2>4
  <2> QED
    BY <1>4, <2>1, <2>5 DEF m
<1> HIDE DEF d, e
<1>8. d \in a + 1 .. u
  BY <1>2, <1>3, <1>4, <1>6
<1> QED
  BY <1>7, <1>8

-----------------------------------------------------------------------------
(* Sequences *)

\* Rows that are appended stand after the others.
LEMMA Appended ==
    ASSUME NEW S, NEW a \in Seq(S), NEW b \in Seq(S)
    PROVE  /\ a \o b \in Seq(S) /\ Len(a \o b) = Len(a) + Len(b)
           /\ \A i \in 1 .. Len(a) : (a \o b)[i] = a[i]
           /\ \A i \in 1 .. Len(b) : (a \o b)[Len(a) + i] = b[i]
<1>1. Len(a) \in Nat /\ Len(b) \in Nat
  OBVIOUS
<1>2. a \o b \in Seq(S) /\ Len(a \o b) = Len(a) + Len(b)
  OBVIOUS
<1>3. ASSUME NEW i \in 1 .. Len(a)
      PROVE  (a \o b)[i] = a[i]
  OBVIOUS
<1>4. ASSUME NEW i \in 1 .. Len(b)
      PROVE  (a \o b)[Len(a) + i] = b[i]
  <2>1. Len(a) + i \in 1 .. Len(a) + Len(b) /\ ~(Len(a) + i <= Len(a)) /\ Len(a) + i - Len(a) = i
    BY <1>1
  <2> QED
    BY <1>1, <2>1
<1> QED
  BY <1>2, <1>3, <1>4

-----------------------------------------------------------------------------
(* Recursion *)

\* A recursion over the arguments X: it stops at ends with the value last, and
\* elsewhere joins the argument with the value for the argument down.
Solution(g, X, ends, last, down, join) ==
    \A x \in X : g[x] = IF x \in ends THEN last[x] ELSE join[<<x, g[down[x]]>>]
Solvable(X, Y, ends, last, down, join) ==
    \E g \in [X -> Y] : Solution(g, X, ends, last, down, join)

\* A recursion that goes down in size has a solution.
LEMMA Recursion ==
    ASSUME NEW X, NEW Y, NEW size \in [X -> Nat], NEW ends \in SUBSET X,
           NEW last \in [X -> Y], NEW down \in [X -> X], NEW join \in [X \X Y -> Y],
           \A x \in X \ ends : size[down[x]] < size[x]
    PROVE  Solvable(X, Y, ends, last, down, join)
<1> DEFINE Below(n) == {x \in X : size[x] < n}
           Solves(n, g) ==
               /\ g \in [Below(n) -> Y]
               /\ \A x \in Below(n) :
                      g[x] = IF x \in ends THEN last[x] ELSE join[<<x, g[down[x]]>>]
<1>1. ASSUME NEW n \in Nat, NEW x \in X, size[x] < n, x \notin ends
      PROVE  down[x] \in Below(n)
  <2>1. down[x] \in X /\ size[down[x]] < size[x]
    BY <1>1
  <2>2. size[down[x]] \in Nat /\ size[x] \in Nat
    BY <2>1
  <2> QED
    BY <1>1, <2>1, <2>2
<1>2. ASSUME NEW n \in Nat
      PROVE  \E g : Solves(n, g)
  <2> DEFINE Without == {k \in Nat : ~\E g : Solves(k, g)}
  <2>1. SUFFICES ASSUME Without # {}
                 PROVE  FALSE
    OBVIOUS
  <2>2. PICK k \in Without : \A l \in Without : k <= l
    <3>1. Without \subseteq Nat
      OBVIOUS
    <3> HIDE DEF Without
    <3> QED
      BY <2>1, <3>1, LeastNumber
  <2>3. k # 0
    <3>1. SUFFICES ASSUME k = 0
                   PROVE  FALSE
      OBVIOUS
    <3>2. Below(0) = {}
      OBVIOUS
    <3>3. Solves(0, [x \in Below(0) |-> last[x]])
      BY <3>2
    <3> QED
      BY <2>2, <3>1, <3>3
  <2>4. PICK h : Solves(k - 1, h)
    <3>1. k - 1 \in Nat /\ ~(k <= k - 1)
      BY <2>3
    <3> QED
      BY <2>2, <3>1
  <2> DEFINE g == [x \in Below(k) |-> IF x \in ends THEN last[x] ELSE join[<<x, h[down[x]]>>]]
  <2>5. ASSUME NEW x \in Below(k), x \notin ends
        PROVE  down[x] \in Below(k - 1) /\ down[x] \in Below(k)
    <3>1. size[down[x]] < size[x] /\ down[x] \in X
      BY <2>5
    <3>2. size[down[x]] \in Nat /\ size[x] \in Nat /\ size[x] < k /\ k \in Nat
      BY <2>5, <3>1
    <3> QED
      BY <3>1, <3>2
  <2>6. ASSUME NEW x \in Below(k - 1)
        PROVE  x \in Below(k) /\ g[x] = h[x]
    <3>1. x \in Below(k)
      BY size[x] \in Nat, k \in Nat
    <3>2. h[x] = IF x \in ends THEN last[x] ELSE join[<<x, h[down[x]]>>]
      BY <2>4
    <3> QED
      BY <3>1, <3>2
  <2>7. ASSUME NEW x \in Below(k)
        PROVE  /\ g[x] \in Y
               /\ g[x] = IF x \in ends THEN last[x] ELSE join[<<x, g[down[x]]>>]
    <3>1. CASE x \in ends
      BY <3>1
    <3>2. CASE x \notin ends
      <4>1. down[x] \in Below(k - 1) /\ g[down[x]] = h[down[x]]
        BY <2>5, <2>6, <3>2
      <4>2. h[down[x]] \in Y
        BY <2>4, <4>1
      <4>3. join[<<x, h[down[x]]>>] \in Y
        BY <4>2
      <4>4. g[x] = join[<<x, h[down[x]]>>]
        BY <3>2
      <4> QED
        BY <3>2, <4>1, <4>3, <4>4
    <3> QED
      BY <3>1, <3>2
  <2>8. g = [x \in Below(k) |-> g[x]]
    OBVIOUS
  <2>9. Solves(k, g)
    <3> HIDE DEF g, Below
    <3>1. g \in [Below(k) -> Y]
      BY <2>7, <2>8
    <3> QED
      BY <2>7, <3>1
  <2> QED
    BY <2>2, <2>9
<1>3. ASSUME NEW n \in Nat, NEW m \in Nat, NEW g, NEW h, Solves(n, g), Solves(m, h),
             NEW x \in Below(n), x \in Below(m)
      PROVE  g[x] = h[x]
  <2> DEFINE Apart == {y \in X : size[y] < n /\ size[y] < m /\ g[y] # h[y]}
             Sizes == {size[y] : y \in Apart}
  <2>0. SUFFICES ASSUME g[x] # h[x]
                 PROVE  FALSE
    OBVIOUS
  <2>1. Sizes # {}
    <3>1. x \in Apart
      BY <1>3, <2>0
    <3> QED
      BY <3>1
  <2>2. PICK k \in Sizes : \A l \in Sizes : k <= l
    <3>1. Sizes \subseteq Nat
      OBVIOUS
    <3> HIDE DEF Sizes
    <3> QED
      BY <2>1, <3>1, LeastNumber
  <2>3. PICK y \in Apart : size[y] = k
    BY <2>2
  <2>4. y \in Below(n) /\ y \in Below(m)
    BY <2>3
  <2>5. y \notin ends
    BY <1>3, <2>3, <2>4
  <2>6. g[down[y]] # h[down[y]]
    BY <1>3, <2>3, <2>4, <2>5
  <2>7. size[down[y]] < size[y] /\ down[y] \in X /\ size[down[y]] \in Nat /\ size[y] \in Nat
    BY <2>3, <2>5
  <2>8. down[y] \in Apart
    BY <1>1, <2>4, <2>5, <2>6
  <2>9. k <= size[down[y]]
    BY <2>2, <2>8
  <2> QED
    BY <2>3, <2>7, <2>9
<1> DEFINE At(x) == CHOOSE g : Solves(size[x] + 1, g)
           G == [x \in X |-> At(x)[x]]
<1>4. ASSUME NEW x \in X
      PROVE  size[x] \in Nat /\ x \in Below(size[x] + 1) /\ Solves(size[x] + 1, At(x))
  <2>1. size[x] \in Nat
    OBVIOUS
  <2>2. size[x] + 1 \in Nat /\ x \in Below(size[x] + 1)
    BY <2>1
  <2> HIDE DEF Solves, Below
  <2>4. \E g : Solves(size[x] + 1, g)
    BY <1>2, <2>2
  <2>3. Solves(size[x] + 1, At(x))
    BY <2>4
  <2> QED
    BY <2>1, <2>2, <2>3
<1>5. ASSUME NEW x \in X
      PROVE  /\ G[x] \in Y
             /\ G[x] = IF x \in ends THEN last[x] ELSE join[<<x, G[down[x]]>>]
  <2>1. G[x] = At(x)[x] /\ G[x] \in Y
    <3> HIDE DEF At, Below
    <3> QED
      BY <1>4
  <2>2. At(x)[x] = IF x \in ends THEN last[x] ELSE join[<<x, At(x)[down[x]]>>]
    <3> HIDE DEF At, Below
    <3> QED
      BY <1>4
  <2>3. CASE x \notin ends
    <3> DEFINE y == down[x]
    <3>1. y \in X
      OBVIOUS
    <3>2. y \in Below(size[x] + 1)
      BY <1>1, <1>4, <2>3, size[x] + 1 \in Nat, size[x] < size[x] + 1
    <3> HIDE DEF y, At, Below, Solves
    <3>3. At(x)[y] = At(y)[y]
      BY <1>3, <1>4, <3>1, <3>2
    <3>4. G[y] = At(y)[y]
      BY <3>1
    <3> QED
      BY <2>1, <2>2, <2>3, <3>3, <3>4 DEF y
  <2> QED
    BY <2>1, <2>2, <2>3
<1>6. G \in [X -> Y]
  <2>1. \A x \in X : G[x] \in Y
    BY <1>5
  <2>2. G = [x \in X |-> G[x]]
    OBVIOUS
  <2> HIDE DEF G
  <2> QED
    BY <2>1, <2>2
<1> HIDE DEF G
<1> QED
  BY <1>5, <1>6 DEF Solvable, Solution
=============================================================================
