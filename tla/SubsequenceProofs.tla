-------------------------- MODULE SubsequenceProofs --------------------------
(***************************************************************************)
(* Positions of a sequence: the least and the greatest of some, counting   *)
(* up to them, and what is left when some are picked.  They stand in for   *)
(* the induction over sequences: a first position at which a claim fails   *)
(* is contradicted by the one before it.                                   *)
(***************************************************************************)
EXTENDS Subsequences, FiniteSetsExt, TLAPS, SequenceTheorems, FiniteSetTheorems

(* A set of positions that is not empty has a least element.  Counting     *)
(* those below it takes the place of an induction.                         *)
LEMMA LeastPosition ==
  ASSUME NEW a \in Nat, NEW b \in Nat, NEW S \in SUBSET (a..b), S # {}
  PROVE  /\ Min(S) \in S
         /\ \A y \in S : Min(S) <= y
<1> DEFINE Below == {x \in a..b : \A y \in S : x < y}
           c == Cardinality(Below)
<1>1. IsFiniteSet(Below) /\ c \in Nat
  <2>1. IsFiniteSet(a..b)
    BY FS_Interval
  <2> QED BY <2>1, FS_Subset, FS_CardinalityType
<1>2. \A x \in Below : \A z \in a..x : z \in Below
  OBVIOUS
<1>3. a + c \notin Below
  <2> SUFFICES ASSUME a + c \in Below PROVE FALSE
    OBVIOUS
  <2>1. a..(a + c) \subseteq Below
    BY <1>2
  <2>2. Cardinality(a..(a + c)) = c + 1
    <3> HIDE DEF c
    <3>1. a \in Int /\ a + c \in Int
      BY <1>1
    <3>2. Cardinality(a..(a + c)) = IF a > a + c THEN 0 ELSE (a + c) - a + 1
      BY <3>1, FS_Interval
    <3> QED BY <1>1, <3>2
  <2>3. Cardinality(a..(a + c)) <= c
    BY <1>1, <2>1, FS_Subset
  <2> QED BY <1>1, <2>2, <2>3
<1>4. ASSUME NEW x \in a..b, x < a + c PROVE x \in Below
  <2> SUFFICES ASSUME x \notin Below PROVE FALSE
    OBVIOUS
  <2>1. Below \subseteq a..(x - 1)
    BY <1>2, <1>4
  <2>2. IsFiniteSet(a..(x - 1)) /\ Cardinality(a..(x - 1)) = x - a
    <3>1. CASE x = a
      <4>1. a..(x - 1) = {}
        BY <3>1
      <4> QED BY <3>1, <4>1, FS_EmptySet
    <3>2. CASE x > a
      <4>1. a <= x - 1 /\ x - 1 - a + 1 = x - a /\ a \in Int /\ x - 1 \in Int
        BY <3>2
      <4> QED BY <4>1, FS_Interval
    <3> QED BY <3>1, <3>2
  <2>3. c <= x - a
    BY <2>1, <2>2, FS_Subset
  <2> QED BY <1>1, <1>4, <2>3
<1> DEFINE m == a + c
<1>5. m \in S /\ \A y \in S : m <= y
  <2>1. PICK s \in S : TRUE
    OBVIOUS
  <2>2. \A y \in S : m <= y
    <3> SUFFICES ASSUME NEW y \in S, y < m PROVE FALSE
      BY <1>1
    <3>1. y \in Below
      BY <1>4
    <3> QED BY <3>1
  <2>3. m \in a..b
    BY <1>1, <2>1, <2>2
  <2> QED BY <1>1, <1>3, <2>2, <2>3
<1> HIDE DEF m
<1> QED BY <1>5 DEF Min

(* ... and a greatest one: the least of the mirrored set. *)
LEMMA GreatestPosition ==
  ASSUME NEW a \in Nat, NEW b \in Nat, NEW S \in SUBSET (a..b), S # {}
  PROVE  /\ Max(S) \in S
         /\ \A y \in S : Max(S) >= y
<1> DEFINE R == {b - y : y \in S}
           m == b - Min(R)
<1>1. R \in SUBSET (0..b) /\ R # {}
  <2>1. \A y \in S : b - y \in 0..b
    OBVIOUS
  <2> QED BY <2>1
<1>2. Min(R) \in R /\ \A y \in R : Min(R) <= y
  <2> HIDE DEF R
  <2> QED BY <1>1, LeastPosition
<1>3. m \in S
  BY <1>2
<1>4. ASSUME NEW y \in S PROVE m >= y
  <2>1. Min(R) <= b - y /\ Min(R) \in 0..b
    BY <1>1, <1>2
  <2> QED BY <2>1
<1> HIDE DEF m
<1> QED BY <1>3, <1>4 DEF Max

(* Counting up to n. *)
LEMMA CountingUp ==
  ASSUME NEW n \in Nat, NEW S, 0 \in S, \A i \in 1..n : i - 1 \in S => i \in S
  PROVE  \A i \in 0..n : i \in S
<1> DEFINE Bad == {i \in 0..n : i \notin S}
<1>1. SUFFICES ASSUME Bad # {} PROVE FALSE
  OBVIOUS
<1>2. Min(Bad) \in Bad /\ \A y \in Bad : Min(Bad) <= y
  <2>1. Bad \in SUBSET (0..n)
    OBVIOUS
  <2> HIDE DEF Bad
  <2>2. QED
    BY <1>1, <2>1, LeastPosition
<1> DEFINE m == Min(Bad)
<1>3. m \in 1..n /\ m \notin S
  BY <1>2
<1>4. m - 1 \in 0..n /\ m - 1 \notin Bad
  <2>1. m - 1 \in 0..n /\ ~(m <= m - 1)
    BY <1>3
  <2>2. QED
    BY <1>2, <2>1
<1>5. QED
  BY <1>3, <1>4

(* How to go on, and what comes of it. *)
IsRule(step, n, V) == step \in [1..n -> [V -> V]]
Follows(g, n, V, base, step) ==
  g \in [0..n -> V] /\ g[0] = base /\ \A i \in 1..n : g[i] = step[i][g[i - 1]]

(* What is defined step by step exists. *)
LEMMA StepByStep ==
  ASSUME NEW n \in Nat, NEW V, NEW base \in V, NEW step, IsRule(step, n, V)
  PROVE  \E g : Follows(g, n, V, base, step)
<1> USE DEF IsRule, Follows
<1> DEFINE Upto(g, k) == g[0] = base /\ \A i \in 1..k : g[i] = step[i][g[i - 1]]
           S == {k \in 0..n : \E g \in [0..k -> V] : Upto(g, k)}
<1>1. 0 \in S
  <2> DEFINE g == [i \in 0..0 |-> base]
  <2>1. g \in [0..0 -> V] /\ Upto(g, 0)
    OBVIOUS
  <2>2. 0 \in 0..n
    OBVIOUS
  <2> HIDE DEF g, Upto
  <2>3. QED
    BY <2>1, <2>2
<1>2. ASSUME NEW k \in 1..n, k - 1 \in S PROVE k \in S
  <2>1. PICK g \in [0..(k - 1) -> V] : Upto(g, k - 1)
    BY <1>2
  <2> DEFINE new == step[k][g[k - 1]]
             h == [i \in 0..k |-> IF i = k THEN new ELSE g[i]]
  <2>2. k - 1 \in 0..(k - 1) /\ g[k - 1] \in V /\ new \in V
    <3>1. k - 1 \in 0..(k - 1)
      OBVIOUS
    <3>2. g[k - 1] \in V
      BY <3>1
    <3>3. step[k] \in [V -> V]
      OBVIOUS
    <3>4. QED
      BY <3>1, <3>2, <3>3
  <2>3. \A i \in 0..(k - 1) : h[i] = g[i]
    OBVIOUS
  <2>4. h[k] = new /\ h \in [0..k -> V]
    <3> HIDE DEF new
    <3>1. QED
      BY <2>2
  <2> HIDE DEF h
  <2>5. ASSUME NEW i \in 1..k PROVE h[i] = step[i][h[i - 1]]
    <3>1. CASE i = k
      BY <2>2, <2>3, <2>4, <3>1
    <3>2. CASE i # k
      <4>1. i \in 1..(k - 1) /\ i - 1 \in 0..(k - 1)
        BY <3>2
      <4>2. h[i] = g[i] /\ h[i - 1] = g[i - 1]
        BY <2>3, <4>1
      <4>3. QED
        BY <2>1, <4>1, <4>2
    <3>3. QED
      BY <3>1, <3>2
  <2>6. h[0] = base
    BY <2>1, <2>3
  <2>7. Upto(h, k)
    BY <2>5, <2>6
  <2> HIDE DEF Upto
  <2>8. QED
    BY <2>4, <2>7
<1>3. n \in S
  <2>1. n \in 0..n
    OBVIOUS
  <2> HIDE DEF S
  <2>2. QED
    BY <1>1, <1>2, <2>1, CountingUp
<1>4. QED
  BY <1>3
-----------------------------------------------------------------------------
Ascending(f, m) == \A i, j \in 1..m : i < j => f[i] < f[j]

(* There is one way to list numbers in ascending order. *)
LEMMA OneAscent ==
  ASSUME NEW c \in Nat, NEW d \in Nat, NEW f \in [1..c -> Int], NEW g \in [1..d -> Int],
         Ascending(f, c), Ascending(g, d),
         \A i \in 1..c : \E j \in 1..d : g[j] = f[i],
         \A j \in 1..d : \E i \in 1..c : f[i] = g[j]
  PROVE  c = d /\ f = g
<1> DEFINE Bad == {k \in 1..c : ~(k <= d /\ f[k] = g[k])}
<1> /\ \A i \in 1..c : f[i] \in Int
    /\ \A j \in 1..d : g[j] \in Int
  OBVIOUS
<1>1. Bad = {}
  <2> SUFFICES ASSUME Bad # {} PROVE FALSE
    OBVIOUS
  <2> DEFINE k == Min(Bad)
  <2>1. k \in Bad /\ \A y \in Bad : k <= y
    <3>1. Bad \in SUBSET (1..c)
      OBVIOUS
    <3> HIDE DEF Bad
    <3>2. QED
      BY <3>1, LeastPosition
  <2> HIDE DEF k
  <2>2. k \in 1..c /\ ~(k <= d /\ f[k] = g[k])
    BY <2>1
  <2>3. ASSUME NEW l \in 1..c, l < k PROVE l <= d /\ f[l] = g[l]
    <3>1. l \notin Bad
      <4>1. ~(k <= l)
        BY <2>2, <2>3
      <4> HIDE DEF Bad
      <4>2. QED
        BY <2>1, <4>1
    <3>2. QED
      BY <3>1
  <2>4. PICK j \in 1..d : g[j] = f[k]
    BY <2>2
  <2>5. j >= k
    <3> SUFFICES ASSUME j < k PROVE FALSE
      BY <2>2
    <3>1. j \in 1..c
      BY <2>2
    <3>2. f[j] = g[j] /\ f[j] < f[k]
      BY <2>2, <2>3, <3>1 DEF Ascending
    <3>3. QED
      BY <2>2, <2>4, <3>2
  <2>6. k \in 1..d /\ f[k] # g[k]
    <3>1. k <= d
      BY <2>2, <2>5
    <3>2. QED
      BY <2>2, <3>1
  <2>7. j > k /\ g[k] < f[k]
    <3>1. j # k
      BY <2>4, <2>6
    <3>2. j > k
      BY <2>5, <2>6, <3>1
    <3>3. QED
      BY <2>4, <2>6, <3>2 DEF Ascending
  <2>8. PICK i \in 1..c : f[i] = g[k]
    BY <2>6
  <2>9. i < k
    <3>1. f[i] < f[k]
      BY <2>7, <2>8
    <3>2. ~(k < i)
      <4> SUFFICES ASSUME k < i PROVE FALSE
        OBVIOUS
      <4>1. f[k] < f[i]
        BY <2>2 DEF Ascending
      <4>2. QED
        BY <2>2, <3>1, <4>1
    <3>3. i # k
      BY <2>2, <3>1
    <3>4. QED
      BY <2>2, <3>2, <3>3
  <2>10. g[i] = g[k] /\ g[i] < g[k]
    <3>1. f[i] = g[i]
      BY <2>3, <2>9
    <3>2. i \in 1..d
      BY <2>6, <2>9
    <3>3. QED
      BY <2>6, <2>8, <2>9, <3>1, <3>2 DEF Ascending
  <2>11. QED
    BY <2>6, <2>10
<1>2. \A k \in 1..c : k <= d /\ f[k] = g[k]
  BY <1>1
<1>3. c <= d
  BY <1>2
<1>4. d <= c
  <2> SUFFICES ASSUME c < d PROVE FALSE
    OBVIOUS
  <2>1. PICK i \in 1..c : f[i] = g[c + 1]
    BY <1>3
  <2>2. g[i] < g[c + 1]
    BY DEF Ascending
  <2>3. QED
    BY <1>2, <2>1, <2>2
<1>5. QED
  BY <1>2, <1>3, <1>4
-----------------------------------------------------------------------------
(* What is picked, element after element. *)
Leaves(left, s, D, X) ==
  /\ left \in [0..Len(s) -> Seq(X)]
  /\ left[0] = <<>>
  /\ \A n \in 1..Len(s) : left[n] = IF n \in D THEN Append(left[n - 1], s[n]) ELSE left[n - 1]
  /\ Picked(s, D) = left[Len(s)]

(* What is picked can be built by going through the sequence once. *)
LEMMA PickedStepwise ==
  ASSUME NEW X, NEW s \in Seq(X), NEW D
  PROVE  \E left : Leaves(left, s, D, X)
<1> DEFINE total == Len(s)
           Step == [n \in 1..total |-> [v \in Seq(X) |-> IF n \in D THEN Append(v, s[n]) ELSE v]]
           Picks(left) == left = [n \in 0..total |-> IF n = 0 THEN <<>>
                                                      ELSE IF n \in D THEN Append(left[n - 1], s[n])
                                                      ELSE left[n - 1]]
<1>1. total \in Nat /\ <<>> \in Seq(X) /\ \A n \in 1..total : s[n] \in X
  OBVIOUS
<1>2. Step \in [1..total -> [Seq(X) -> Seq(X)]]
  <2>1. ASSUME NEW n \in 1..total, NEW v \in Seq(X)
        PROVE  (IF n \in D THEN Append(v, s[n]) ELSE v) \in Seq(X)
    BY <1>1, AppendProperties
  <2>2. QED
    BY <2>1
<1>3. PICK g \in [0..total -> Seq(X)] : g[0] = <<>> /\ \A n \in 1..total : g[n] = Step[n][g[n - 1]]
  <2>1. IsRule(Step, total, Seq(X))
    BY <1>2 DEF IsRule
  <2> HIDE DEF Step, total
  <2>2. \E g : Follows(g, total, Seq(X), <<>>, Step)
    BY <1>1, <2>1, StepByStep
  <2>3. QED
    BY <2>2 DEF Follows
<1>4. ASSUME NEW n \in 1..total
      PROVE  g[n] = IF n \in D THEN Append(g[n - 1], s[n]) ELSE g[n - 1]
  <2>1. n - 1 \in 0..total /\ g[n - 1] \in Seq(X)
    OBVIOUS
  <2>2. QED
    BY <1>3, <2>1
<1>5. Picks(g)
  <2>1. ASSUME NEW n \in 0..total
        PROVE  g[n] = IF n = 0 THEN <<>>
                      ELSE IF n \in D THEN Append(g[n - 1], s[n]) ELSE g[n - 1]
    <3>1. CASE n = 0
      BY <1>3, <3>1
    <3>2. CASE n # 0
      <4>1. n \in 1..total
        BY <3>2
      <4>2. QED
        BY <1>4, <3>2, <4>1
    <3>3. QED
      BY <3>1, <3>2
  <2>2. QED
    BY <2>1
<1> DEFINE left == CHOOSE h : Picks(h)
<1>6. Picks(left) /\ Picked(s, D) = left[total]
  <2>1. Picks(left)
    <3> HIDE DEF Picks
    <3>1. QED
      BY <1>5
  <2>2. QED
    BY <2>1 DEF Picked
<1> HIDE DEF left
<1>7. left[0] = <<>> /\ \A n \in 1..total : left[n] = IF n \in D THEN Append(left[n - 1], s[n]) ELSE left[n - 1]
  <2> HIDE DEF total
  <2>1. \A n \in 0..total : left[n] = IF n = 0 THEN <<>>
                                      ELSE IF n \in D THEN Append(left[n - 1], s[n])
                                      ELSE left[n - 1]
    BY <1>6
  <2>2. 0 \in 0..total /\ \A n \in 1..total : n \in 0..total /\ n # 0
    BY <1>1
  <2>3. QED
    BY <2>1, <2>2
<1>8. \A n \in 0..total : left[n] \in Seq(X)
  <2> DEFINE S == {n \in 0..total : left[n] \in Seq(X)}
  <2>1. 0 \in S
    <3>1. 0 \in 0..total /\ left[0] \in Seq(X)
      BY <1>1, <1>7
    <3>2. QED
      BY <3>1
  <2>2. ASSUME NEW n \in 1..total, n - 1 \in S PROVE n \in S
    <3>1. left[n - 1] \in Seq(X) /\ s[n] \in X
      BY <1>1, <2>2
    <3>2. Append(left[n - 1], s[n]) \in Seq(X)
      BY <3>1, AppendProperties
    <3>3. left[n] = IF n \in D THEN Append(left[n - 1], s[n]) ELSE left[n - 1]
      BY <1>7
    <3>4. left[n] \in Seq(X) /\ n \in 0..total
      BY <3>1, <3>2, <3>3
    <3>5. QED
      BY <3>4
  <2>3. \A n \in 0..total : n \in S
    <3> HIDE DEF S, total
    <3>1. QED
      BY <1>1, <2>1, <2>2, CountingUp
  <2>4. QED
    BY <2>3
<1>9. left \in [0..total -> Seq(X)]
  BY <1>6, <1>8
<1>10. QED
  BY <1>6, <1>7, <1>9 DEF Leaves

(* Picking keeps the type. *)
LEMMA PickedType ==
  ASSUME NEW X, NEW s \in Seq(X), NEW D
  PROVE  Picked(s, D) \in Seq(X)
<1>1. PICK left : Leaves(left, s, D, X)
  BY PickedStepwise
<1>2. Len(s) \in 0..Len(s) /\ left \in [0..Len(s) -> Seq(X)] /\ Picked(s, D) = left[Len(s)]
  BY <1>1, LenProperties DEF Leaves
<1>3. QED
  BY <1>2

(* at lists the positions of D in ascending order. *)
Lists(at, m, D) ==
  /\ m \in Nat /\ at \in [1..m -> Int]
  /\ Ascending(at, m)
  /\ \A k \in 1..m : at[k] \in D
  /\ \A i \in D : \E k \in 1..m : at[k] = i

(* There is one list of a set of numbers. *)
LEMMA ListedOnce ==
  ASSUME NEW D, NEW f, NEW c, Lists(f, c, D), NEW g, NEW d, Lists(g, d, D)
  PROVE  c = d /\ f = g
<1>1. /\ c \in Nat /\ d \in Nat /\ f \in [1..c -> Int] /\ g \in [1..d -> Int]
      /\ Ascending(f, c) /\ Ascending(g, d)
  BY DEF Lists
<1>2. /\ \A i \in 1..c : \E j \in 1..d : g[j] = f[i]
      /\ \A j \in 1..d : \E i \in 1..c : f[i] = g[j]
  BY DEF Lists
<1>3. QED
  BY <1>1, <1>2, OneAscent

(* A greater number is listed last. *)
LEMMA ListsOneMore ==
  ASSUME NEW n \in Nat \ {0}, NEW D, NEW at, NEW m, Lists(at, m, D \cap 1..(n - 1)), n \in D
  PROVE  Lists([k \in 1..(m + 1) |-> IF k = m + 1 THEN n ELSE at[k]], m + 1, D \cap 1..n)
<1> DEFINE more == [k \in 1..(m + 1) |-> IF k = m + 1 THEN n ELSE at[k]]
<1>1. /\ m \in Nat /\ at \in [1..m -> Int] /\ Ascending(at, m)
      /\ \A k \in 1..m : at[k] \in D /\ at[k] \in 1..(n - 1)
      /\ \A i \in D \cap 1..(n - 1) : \E k \in 1..m : at[k] = i
  BY DEF Lists
<1>2. m + 1 \in Nat /\ more \in [1..(m + 1) -> Int] /\ more[m + 1] = n
  BY <1>1
<1>3. \A k \in 1..m : k \in 1..(m + 1) /\ more[k] = at[k]
  BY <1>1
<1> HIDE DEF more
<1>4. Ascending(more, m + 1)
  <2> SUFFICES ASSUME NEW i \in 1..(m + 1), NEW j \in 1..(m + 1), i < j PROVE more[i] < more[j]
    BY DEF Ascending
  <2>1. i \in 1..m /\ more[i] = at[i]
    BY <1>1, <1>3
  <2>2. CASE j = m + 1
    BY <1>1, <1>2, <2>1, <2>2
  <2>3. CASE j # m + 1
    <3>1. j \in 1..m /\ more[j] = at[j]
      BY <1>1, <1>3, <2>3
    <3>2. QED
      BY <1>1, <2>1, <3>1 DEF Ascending
  <2>4. QED
    BY <2>2, <2>3
<1>5. ASSUME NEW k \in 1..(m + 1) PROVE more[k] \in D \cap 1..n
  <2>1. CASE k = m + 1
    BY <1>2, <2>1
  <2>2. CASE k # m + 1
    <3>1. k \in 1..m
      BY <1>1, <2>2
    <3>2. more[k] = at[k] /\ at[k] \in D /\ at[k] \in 1..(n - 1)
      BY <1>1, <1>3, <3>1
    <3>3. QED
      BY <3>2
  <2>3. QED
    BY <2>1, <2>2
<1>6. ASSUME NEW i \in D \cap 1..n PROVE \E k \in 1..(m + 1) : more[k] = i
  <2>1. CASE i = n
    <3>1. m + 1 \in 1..(m + 1)
      BY <1>1
    <3>2. QED
      BY <1>2, <2>1, <3>1
  <2>2. CASE i # n
    <3>1. i \in D \cap 1..(n - 1)
      BY <2>2
    <3>2. PICK k \in 1..m : at[k] = i
      BY <1>1, <3>1
    <3>3. QED
      BY <1>3, <3>2
  <2>3. QED
    BY <2>1, <2>2
<1>7. QED
  BY <1>2, <1>4, <1>5, <1>6 DEF Lists, more

(* What is picked are the elements at the positions, in their order. *)
PicksAt(at, m, s, D) ==
  /\ Lists(at, m, D \cap 1..Len(s)) /\ m <= Len(s)
  /\ Picked(s, D) = [k \in 1..m |-> s[at[k]]]

(* What is picked stands in its order: it can be indexed by positions that *)
(* ascend.                                                                 *)
LEMMA PickedInOrder ==
  ASSUME NEW X, NEW s \in Seq(X), NEW D
  PROVE  \E at, m : PicksAt(at, m, s, D)
<1> DEFINE total == Len(s)
<1>1. total \in Nat /\ \A n \in 1..total : s[n] \in X
  OBVIOUS
<1>2. PICK left \in [0..total -> Seq(X)] :
        /\ left[0] = <<>>
        /\ \A n \in 1..total : left[n] = IF n \in D THEN Append(left[n - 1], s[n]) ELSE left[n - 1]
        /\ Picked(s, D) = left[total]
  <2>1. PICK left : Leaves(left, s, D, X)
    BY PickedStepwise
  <2>2. QED
    BY <2>1 DEF Leaves
<1> DEFINE Listed(n, at, m) ==
             /\ Lists(at, m, D \cap 1..n) /\ m <= n
             /\ left[n] = [k \in 1..m |-> s[at[k]]]
           S == {n \in 0..total : \E at, m : Listed(n, at, m)}
<1> HIDE DEF total
<1>3. 0 \in S
  <2> DEFINE none == [k \in 1..0 |-> 0]
  <2>1. Lists(none, 0, D \cap 1..0)
    BY DEF Lists, Ascending
  <2>2. left[0] = [k \in 1..0 |-> s[none[k]]]
    BY <1>2
  <2>3. Listed(0, none, 0) /\ 0 \in 0..total
    BY <1>1, <2>1, <2>2
  <2> HIDE DEF none, Listed
  <2>4. QED
    BY <2>3
<1>4. ASSUME NEW n \in 1..total, n - 1 \in S PROVE n \in S
  <2>1. PICK at, m : Listed(n - 1, at, m)
    BY <1>4
  <2>2. m \in Nat /\ m <= n - 1 /\ n \in Nat \ {0} /\ n \in 0..total
    BY <1>1, <2>1 DEF Lists
  <2>3. CASE n \in D
    <3> DEFINE more == [k \in 1..(m + 1) |-> IF k = m + 1 THEN n ELSE at[k]]
    <3>1. Lists(more, m + 1, D \cap 1..n)
      BY <2>1, <2>2, <2>3, ListsOneMore
    <3>2. left[n] = Append([k \in 1..m |-> s[at[k]]], s[n])
      BY <1>2, <2>1, <2>3
    <3>3. left[n] = [k \in 1..(m + 1) |-> s[more[k]]]
      <4> DEFINE old == [k \in 1..m |-> s[at[k]]]
      <4>1. old \in Seq(X) /\ Len(old) = m /\ s[n] \in X
        <5>1. old = left[n - 1] /\ n - 1 \in 0..total
          BY <1>1, <2>1, <2>2
        <5>2. old \in Seq(X)
          <6> HIDE DEF old
          <6>1. QED
            BY <1>2, <5>1
        <5>3. QED
          BY <1>1, <2>2, <5>2, LenProperties
      <4>2. /\ Len(Append(old, s[n])) = m + 1
            /\ \A k \in 1..m : Append(old, s[n])[k] = old[k]
            /\ Append(old, s[n])[m + 1] = s[n]
            /\ Append(old, s[n]) \in Seq(X)
        <5> HIDE DEF old
        <5>1. QED
          BY <2>2, <4>1, AppendProperties
      <4>3. \A k \in 1..(m + 1) : left[n][k] = s[more[k]]
        <5> SUFFICES ASSUME NEW k \in 1..(m + 1) PROVE left[n][k] = s[more[k]]
          OBVIOUS
        <5>1. CASE k = m + 1
          BY <2>2, <3>2, <4>2, <5>1
        <5>2. CASE k # m + 1
          <6>1. k \in 1..m
            BY <2>2, <5>2
          <6>2. more[k] = at[k] /\ old[k] = s[at[k]]
            BY <5>2, <6>1
          <6>3. QED
            BY <3>2, <4>2, <6>1, <6>2
        <5>3. QED
          BY <5>1, <5>2
      <4>4. left[n] \in [1..(m + 1) -> X]
        BY <2>2, <3>2, <4>2, LenProperties
      <4>5. QED
        <5> HIDE DEF more
        <5>1. QED
          BY <4>3, <4>4
    <3>4. Listed(n, more, m + 1)
      <4> HIDE DEF more
      <4>1. QED
        BY <2>2, <3>1, <3>3
    <3> HIDE DEF more, Listed
    <3>5. QED
      BY <2>2, <3>4
  <2>4. CASE n \notin D
    <3>1. D \cap 1..n = D \cap 1..(n - 1)
      BY <2>2, <2>4
    <3>2. left[n] = left[n - 1]
      BY <1>2, <2>4
    <3>3. Listed(n, at, m)
      <4>1. Lists(at, m, D \cap 1..n)
        BY <2>1, <3>1
      <4>2. m <= n /\ left[n] = [k \in 1..m |-> s[at[k]]]
        BY <2>1, <2>2, <3>2
      <4>3. QED
        BY <4>1, <4>2
    <3> HIDE DEF Listed
    <3>4. QED
      BY <2>2, <3>3
  <2>5. QED
    BY <2>3, <2>4
<1>5. total \in S
  <2>1. total \in 0..total
    BY <1>1
  <2> HIDE DEF S
  <2>2. QED
    BY <1>1, <1>3, <1>4, <2>1, CountingUp
<1>6. PICK at, m : Listed(total, at, m)
  BY <1>5
<1>7. QED
  BY <1>2, <1>6 DEF total, PicksAt

-----------------------------------------------------------------------------
(* What is picked depends on the elements that are. *)
LEMMA PickedSame ==
  ASSUME NEW X, NEW s \in Seq(X), NEW u \in Seq(X), Len(s) = Len(u), NEW D, NEW E,
         \A i \in 1..Len(s) : (i \in D <=> i \in E) /\ (i \in D => s[i] = u[i])
  PROVE  Picked(s, D) = Picked(u, E)
<1>1. PICK f : Leaves(f, s, D, X)
  BY PickedStepwise
<1>2. PICK g : Leaves(g, u, E, X)
  BY PickedStepwise
<1> DEFINE n == Len(s)
           S == {i \in 0..n : f[i] = g[i]}
<1>3. /\ n \in Nat /\ f[0] = <<>> /\ g[0] = <<>>
      /\ \A i \in 1..n : f[i] = IF i \in D THEN Append(f[i - 1], s[i]) ELSE f[i - 1]
      /\ \A i \in 1..n : g[i] = IF i \in E THEN Append(g[i - 1], u[i]) ELSE g[i - 1]
      /\ Picked(s, D) = f[n] /\ Picked(u, E) = g[n]
  BY <1>1, <1>2, LenProperties DEF Leaves
<1> HIDE DEF n
<1>4. 0 \in S
  BY <1>3
<1>5. ASSUME NEW i \in 1..n, i - 1 \in S PROVE i \in S
  <2>1. f[i - 1] = g[i - 1] /\ i \in 0..n
    BY <1>5
  <2>2. (i \in D <=> i \in E) /\ (i \in D => s[i] = u[i])
    BY DEF n
  <2>3. f[i] = g[i]
    BY <1>3, <2>1, <2>2
  <2>4. QED
    BY <2>1, <2>3
<1>6. n \in S
  <2>1. n \in 0..n
    BY <1>3
  <2> HIDE DEF S
  <2>2. QED
    BY <1>3, <1>4, <1>5, <2>1, CountingUp
<1>7. QED
  BY <1>3, <1>6

(* Nothing is picked when no position is. *)
LEMMA PickedNone ==
  ASSUME NEW X, NEW s \in Seq(X), NEW D, \A i \in 1..Len(s) : i \notin D
  PROVE  Picked(s, D) = <<>>
<1>1. PICK at, m : PicksAt(at, m, s, D)
  BY PickedInOrder
<1>2. m \in Nat /\ \A k \in 1..m : at[k] \in D \cap 1..Len(s)
  BY <1>1 DEF PicksAt, Lists
<1>3. m = 0
  <2> SUFFICES ASSUME m # 0 PROVE FALSE
    OBVIOUS
  <2>1. 1 \in 1..m
    BY <1>2
  <2>2. QED
    BY <1>2, <2>1
<1>4. QED
  BY <1>1, <1>3 DEF PicksAt

(* All is picked when every position is. *)
LEMMA PickedAll ==
  ASSUME NEW X, NEW s \in Seq(X), NEW D, \A i \in 1..Len(s) : i \in D
  PROVE  Picked(s, D) = s
<1>1. PICK at, m : PicksAt(at, m, s, D)
  BY PickedInOrder
<1> DEFINE n == Len(s)
           id == [k \in 1..n |-> k]
<1>2. n \in Nat /\ DOMAIN s = 1..n /\ s \in [1..n -> X]
  BY LenProperties
<1>3. D \cap 1..n = 1..n
  OBVIOUS
<1> HIDE DEF n
<1>4. Lists(id, n, 1..n)
  BY <1>2 DEF Lists, Ascending
<1>5. Lists(at, m, 1..n) /\ Picked(s, D) = [k \in 1..m |-> s[at[k]]]
  BY <1>1, <1>3 DEF PicksAt, n
<1>6. m = n /\ at = id
  <2> HIDE DEF id
  <2>1. QED
    BY <1>4, <1>5, ListedOnce
<1>7. Picked(s, D) = [k \in 1..n |-> s[k]]
  BY <1>5, <1>6
<1>8. QED
  BY <1>2, <1>7

(* Picking from a concatenation concatenates what is picked. *)
LEMMA PickedConcat ==
  ASSUME NEW X, NEW s \in Seq(X), NEW t \in Seq(X), NEW A, NEW B, NEW D,
         \A i \in 1..Len(s) : i \in D <=> i \in A,
         \A i \in 1..Len(t) : Len(s) + i \in D <=> i \in B
  PROVE  Picked(s \o t, D) = Picked(s, A) \o Picked(t, B)
<1> DEFINE m == Len(s)
           n == Len(t)
           st == s \o t
<1>1. /\ m \in Nat /\ n \in Nat /\ st \in Seq(X) /\ Len(st) = m + n
      /\ \A i \in 1..(m + n) : st[i] = IF i <= m THEN s[i] ELSE t[i - m]
  BY LenProperties, ConcatProperties
<1>2. \A i \in 1..n : t[i] \in X
  BY LenProperties
<1> HIDE DEF st
<1>3. PICK f : Leaves(f, s, A, X)
  BY PickedStepwise
<1>4. PICK g : Leaves(g, t, B, X)
  BY PickedStepwise
<1>5. PICK h : Leaves(h, st, D, X)
  BY <1>1, PickedStepwise
<1>6. /\ f[0] = <<>> /\ g[0] = <<>> /\ h[0] = <<>>
      /\ \A i \in 1..m : f[i] = IF i \in A THEN Append(f[i - 1], s[i]) ELSE f[i - 1]
      /\ \A i \in 1..n : g[i] = IF i \in B THEN Append(g[i - 1], t[i]) ELSE g[i - 1]
      /\ \A i \in 1..(m + n) : h[i] = IF i \in D THEN Append(h[i - 1], st[i]) ELSE h[i - 1]
      /\ Picked(s, A) = f[m] /\ Picked(t, B) = g[n] /\ Picked(st, D) = h[m + n]
      /\ f[m] \in Seq(X) /\ \A i \in 0..n : g[i] \in Seq(X)
  <2>1. /\ h[0] = <<>> /\ Picked(st, D) = h[Len(st)]
        /\ \A i \in 1..Len(st) : h[i] = IF i \in D THEN Append(h[i - 1], st[i]) ELSE h[i - 1]
    BY <1>5 DEF Leaves
  <2>2. /\ f[0] = <<>> /\ Picked(s, A) = f[m] /\ f[m] \in Seq(X)
        /\ \A i \in 1..m : f[i] = IF i \in A THEN Append(f[i - 1], s[i]) ELSE f[i - 1]
    BY <1>1, <1>3 DEF Leaves
  <2>3. /\ g[0] = <<>> /\ Picked(t, B) = g[n] /\ \A i \in 0..n : g[i] \in Seq(X)
        /\ \A i \in 1..n : g[i] = IF i \in B THEN Append(g[i - 1], t[i]) ELSE g[i - 1]
    BY <1>1, <1>4 DEF Leaves
  <2> HIDE DEF m, n
  <2>4. QED
    BY <1>1, <2>1, <2>2, <2>3
<1>7. /\ \A i \in 1..m : i \in D <=> i \in A
      /\ \A i \in 1..n : m + i \in D <=> i \in B
  OBVIOUS
<1> HIDE DEF m, n
<1> DEFINE S == {i \in 0..m : h[i] = f[i]}
           T == {i \in 0..n : h[m + i] = f[m] \o g[i]}
<1>8. m \in S
  <2>1. 0 \in S
    BY <1>1, <1>6
  <2>2. ASSUME NEW i \in 1..m, i - 1 \in S PROVE i \in S
    <3>1. i \in 1..(m + n) /\ st[i] = s[i] /\ h[i - 1] = f[i - 1] /\ i \in 0..m
      BY <1>1, <2>2
    <3>2. h[i] = f[i]
      BY <1>6, <1>7, <3>1
    <3>3. QED
      BY <3>1, <3>2
  <2>3. m \in 0..m
    BY <1>1
  <2> HIDE DEF S
  <2>4. QED
    BY <1>1, <2>1, <2>2, <2>3, CountingUp
<1>9. n \in T
  <2>1. 0 \in T
    <3>1. f[m] \o g[0] = f[m]
      BY <1>6, ConcatEmptySeq
    <3>2. h[m] = f[m] /\ m + 0 = m /\ 0 \in 0..n
      BY <1>1, <1>8
    <3>3. QED
      BY <3>1, <3>2
  <2>2. ASSUME NEW i \in 1..n, i - 1 \in T PROVE i \in T
    <3> DEFINE q == m + i
    <3>1. /\ q \in 1..(m + n) /\ st[q] = t[i]
          /\ h[q - 1] = f[m] \o g[i - 1]
          /\ i \in 0..n /\ i - 1 \in 0..n
      <4>1. i \in 0..n /\ i - 1 \in 0..n /\ m + (i - 1) = q - 1
        BY <1>1
      <4>2. q \in 1..(m + n) /\ ~(q <= m) /\ q - m = i
        BY <1>1
      <4>3. h[m + (i - 1)] = f[m] \o g[i - 1]
        BY <2>2
      <4>4. st[q] = t[i]
        <5> HIDE DEF q
        <5>1. QED
          BY <1>1, <4>2
      <4> HIDE DEF q
      <4>5. QED
        BY <4>1, <4>2, <4>3, <4>4
    <3>2. Append(f[m] \o g[i - 1], t[i]) = f[m] \o Append(g[i - 1], t[i])
      <4>1. f[m] \in Seq(X) /\ g[i - 1] \in Seq(X) /\ <<t[i]>> \in Seq(X) /\ t[i] \in X
        BY <1>2, <1>6, <3>1
      <4> DEFINE a == f[m]
                 b == g[i - 1]
                 c == t[i]
      <4> HIDE DEF a, b, c
      <4>2. a \in Seq(X) /\ b \in Seq(X) /\ <<c>> \in Seq(X) /\ c \in X
        BY <4>1 DEF a, b, c
      <4>3. a \o b \in Seq(X)
        BY <4>2, ConcatProperties
      <4>4. Append(a \o b, c) = (a \o b) \o <<c>> /\ Append(b, c) = b \o <<c>>
        BY <4>2, <4>3, AppendIsConcat
      <4>5. (a \o b) \o <<c>> = a \o (b \o <<c>>)
        BY <4>2, ConcatAssociative
      <4>6. Append(a \o b, c) = a \o Append(b, c)
        BY <4>4, <4>5
      <4>7. QED
        BY <4>6 DEF a, b, c
    <3>3. q \in D <=> i \in B
      BY <1>7
    <3>4. h[q] = f[m] \o g[i]
      <4> HIDE DEF q
      <4>1. /\ h[q] = IF q \in D THEN Append(h[q - 1], st[q]) ELSE h[q - 1]
            /\ g[i] = IF i \in B THEN Append(g[i - 1], t[i]) ELSE g[i - 1]
        BY <1>6, <3>1
      <4>2. CASE i \in B
        BY <3>1, <3>2, <3>3, <4>1, <4>2
      <4>3. CASE i \notin B
        BY <3>1, <3>3, <4>1, <4>3
      <4>4. QED
        BY <4>2, <4>3
    <3>5. QED
      BY <3>1, <3>4
  <2>3. n \in 0..n
    BY <1>1
  <2> HIDE DEF T
  <2>4. QED
    BY <1>1, <2>1, <2>2, <2>3, CountingUp
<1>10. QED
  BY <1>6, <1>9 DEF st

(* What is picked of a beginning is a beginning of what is picked. *)
LEMMA PickedPrefix ==
  ASSUME NEW X, NEW s \in Seq(X), NEW D, NEW left, Leaves(left, s, D, X)
  PROVE  \A n \in 0..Len(s) : /\ Len(left[n]) <= Len(Picked(s, D))
                              /\ \A k \in 1..Len(left[n]) : left[n][k] = Picked(s, D)[k]
<1> DEFINE total == Len(s)
<1>1. /\ total \in Nat /\ \A i \in 0..total : left[i] \in Seq(X)
      /\ \A i \in 1..total : left[i] = IF i \in D THEN Append(left[i - 1], s[i]) ELSE left[i - 1]
      /\ Picked(s, D) = left[total]
      /\ \A i \in 1..total : s[i] \in X
  BY LenProperties DEF Leaves
<1> HIDE DEF total
<1> SUFFICES ASSUME NEW n \in 0..total
             PROVE  /\ Len(left[n]) <= Len(Picked(s, D))
                    /\ \A k \in 1..Len(left[n]) : left[n][k] = Picked(s, D)[k]
  BY DEF total
<1> DEFINE Begins(i) == Len(left[n]) <= Len(left[i]) /\ \A k \in 1..Len(left[n]) : left[n][k] = left[i][k]
           S == {i \in 0..total : n <= i => Begins(i)}
<1>2. 0 \in S
  <2>1. n <= 0 => n = 0
    BY <1>1
  <2>2. left[0] \in Seq(X) /\ Len(left[0]) \in Nat /\ 0 \in 0..total
    BY <1>1, LenProperties
  <2>3. QED
    BY <2>1, <2>2
<1>3. ASSUME NEW i \in 1..total, i - 1 \in S PROVE i \in S
  <2>1. i \in 0..total /\ i - 1 \in 0..total
    BY <1>1
  <2>2. SUFFICES ASSUME n <= i PROVE Begins(i)
    BY <2>1
  <2>3. /\ left[n] \in Seq(X) /\ left[i] \in Seq(X) /\ left[i - 1] \in Seq(X) /\ s[i] \in X
        /\ Len(left[n]) \in Nat /\ Len(left[i]) \in Nat /\ Len(left[i - 1]) \in Nat
    BY <1>1, <2>1, LenProperties
  <2>4. CASE n = i
    BY <2>3, <2>4
  <2>5. CASE n # i
    <3>1. Begins(i - 1)
      BY <1>1, <1>3, <2>2, <2>5
    <3>2. CASE i \in D
      <4>1. left[i] = Append(left[i - 1], s[i])
        BY <1>1, <3>2
      <4>2. Len(left[i]) = Len(left[i - 1]) + 1 /\ \A k \in 1..Len(left[i - 1]) : left[i][k] = left[i - 1][k]
        BY <2>3, <4>1, AppendProperties
      <4>3. QED
        BY <2>3, <3>1, <4>2
    <3>3. CASE i \notin D
      BY <1>1, <3>1, <3>3
    <3>4. QED
      BY <3>2, <3>3
  <2>6. QED
    BY <2>4, <2>5
<1>4. total \in S
  <2>1. total \in 0..total
    BY <1>1
  <2> HIDE DEF S
  <2>2. QED
    BY <1>1, <1>2, <1>3, <2>1, CountingUp
<1>5. Begins(total)
  BY <1>1, <1>4
<1>6. QED
  BY <1>1, <1>5

=============================================================================
