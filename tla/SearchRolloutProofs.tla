------------------------- MODULE SearchRolloutProofs -------------------------
(***************************************************************************)
(* Theorems about SearchRollout.tla and RewardSelection.tla, for every     *)
(* constant.  First the pure functions: a group's total, the selection,    *)
(* and how what the examples have is tagged and collected.  Then the       *)
(* texts of a rollout and its invariants.                                  *)
(***************************************************************************)
EXTENDS SearchRollout, SequenceFacts, FiniteSetTheorems

-------------------------------------------------------------------------------
(* A group's total                                                             *)

\* MapThenSumSet takes the members in the order CHOOSE picks them; the order does not
\* matter.
LEMMA TotalIsSum ==
    ASSUME NEW rewards, NEW g, NEW size \in Nat, NEW f \in [1..size -> Int],
           \A k \in 1..size : f[k] = rewards[Member(g, size, k)],
           NEW u \in [0..size -> Int], Sums(u, size, f)
    PROVE  Total(rewards, g, size) = u[size]
<1> DEFINE Body(h, s) == IF s = {} THEN 0
                         ELSE LET x == CHOOSE x \in s : TRUE
                              IN  rewards[Member(g, size, x)] + h[s \ {x}]
           P(h) == h = [s \in SUBSET (1..size) |-> Body(h, s)]
           it == [s \in SUBSET (1..size) |-> SumOver(size, f, s)]
           F == CHOOSE h : P(h)
<1>1. Total(rewards, g, size) = F[1..size]
    BY DEF Total, MapThenSumSet, MapThenFoldSet
<1> HIDE DEF F
<1>2. P(it)
    <2>1. ASSUME NEW s \in SUBSET (1..size) PROVE it[s] = Body(it, s)
        <3>1. CASE s = {}
            BY <3>1, SumOverSteps
        <3>2. CASE s # {}
            <4> DEFINE x == CHOOSE x \in s : TRUE
            <4>1. x \in s
                BY <3>2
            <4>2. s \ {x} \in SUBSET (1..size)
                OBVIOUS
            <4>3. Body(it, s) = rewards[Member(g, size, x)] + it[s \ {x}]
                BY <3>2
            <4> HIDE DEF x
            <4>4. it[s] = f[x] + it[s \ {x}]
                BY <4>1, <4>2, SumOverSteps, ZenonT(60)
            <4>5. f[x] = rewards[Member(g, size, x)]
                BY <4>1
            <4> HIDE DEF it, Body
            <4> QED BY <4>3, <4>4, <4>5
        <3> QED BY <3>1, <3>2
    <2> HIDE DEF Body
    <2> QED BY <2>1
<1>3. P(F)
    <2> HIDE DEF P
    <2> QED BY <1>2 DEF F
<1>4. \A s \in SUBSET (1..size) : F[s] = Body(F, s)
    <2> HIDE DEF Body
    <2> QED BY <1>3
<1> DEFINE T == {m \in Nat : \A s \in SUBSET (1..size) :
                     Cardinality(s) = m => F[s] = SumOver(size, f, s)}
<1>5. \A s \in SUBSET (1..size) : IsFiniteSet(s)
    <2>1. 1 \in Int /\ size \in Int
        OBVIOUS
    <2>2. IsFiniteSet(1..size)
        BY <2>1, FS_Interval, Zenon
    <2> QED BY <2>2, FS_Subset, Zenon
<1>6. 0 \in T
    <2>1. \A s \in SUBSET (1..size) : Cardinality(s) = 0 => s = {}
        BY <1>5, FS_EmptySet
    <2> QED BY <1>4, <2>1, SumOverSteps
<1>7. ASSUME NEW m \in Nat, m \in T PROVE m + 1 \in T
    <2> SUFFICES ASSUME NEW s \in SUBSET (1..size), Cardinality(s) = m + 1
                 PROVE  F[s] = SumOver(size, f, s)
        OBVIOUS
    <2> DEFINE x == CHOOSE x \in s : TRUE
    <2>1. s # {}
        <3>1. m + 1 # 0
            OBVIOUS
        <3> QED BY <3>1, FS_EmptySet
    <2>2. x \in s
        BY <2>1
    <2>3. F[s] = rewards[Member(g, size, x)] + F[s \ {x}]
        BY <1>4, <2>1
    <2> HIDE DEF x
    <2>4. s \ {x} \in SUBSET (1..size) /\ Cardinality(s \ {x}) = m
        <3>1. Cardinality(s \ {x}) = Cardinality(s) - 1
            <4>1. IsFiniteSet(s)
                BY <1>5
            <4> QED BY <2>2, <4>1, FS_RemoveElement, Zenon
        <3>2. Cardinality(s) - 1 = m
            OBVIOUS
        <3>3. Cardinality(s \ {x}) = m
            BY <3>1, <3>2
        <3> QED BY <3>3
    <2>5. F[s \ {x}] = SumOver(size, f, s \ {x})
        BY <1>7, <2>4
    <2>6. f[x] = rewards[Member(g, size, x)]
        BY <2>2
    <2>7. SumOver(size, f, s) = f[x] + SumOver(size, f, s \ {x})
        BY <2>2, SumOverSteps, ZenonT(60)
    <2> QED BY <2>3, <2>5, <2>6, <2>7
<1>8. Cardinality(1..size) \in T
    <2>1. Cardinality(1..size) \in Nat
        BY FS_Interval, FS_CardinalityType
    <2> HIDE DEF T
    <2> QED BY <1>6, <1>7, <2>1, InductionOnNat
<1>9. F[1..size] = SumOver(size, f, 1..size)
    BY <1>8
<1> QED BY <1>1, <1>9, SumOverSteps

NoneBelow(d, n) == \A k \in 1..n : d[k] >= 0
NoneAbove(d, n) == \A k \in 1..n : d[k] <= 0

LEMMA NoneBelowZero ==
    ASSUME NEW n \in Nat, NEW d \in [1..n -> Int], NEW v \in [0..n -> Int], Sums(v, n, d),
           v[n] = 0, NoneBelow(d, n), NEW x \in 1..n
    PROVE  d[x] = 0
<1> DEFINE T == {k \in Nat : k <= n => v[k] >= 0 /\ (k >= x => v[k] >= d[x])}
<1>1. 0 \in T
    BY DEF Sums
<1>2. ASSUME NEW k \in Nat, k \in T PROVE k + 1 \in T
    <2> SUFFICES ASSUME k + 1 <= n
                 PROVE  v[k + 1] >= 0 /\ (k + 1 >= x => v[k + 1] >= d[x])
        OBVIOUS
    <2>1. k + 1 \in 1..n /\ (k + 1) - 1 = k
        OBVIOUS
    <2>2. v[k + 1] = v[k] + d[k + 1] /\ d[k + 1] >= 0
        BY <2>1 DEF Sums, NoneBelow
    <2>3. v[k] >= 0 /\ (k >= x => v[k] >= d[x])
        BY <1>2
    <2>4. v[k] \in Int /\ d[k + 1] \in Int /\ d[x] \in Int
        BY <2>1
    <2>5. \A a, b, c \in Int : b >= 0 => (a >= c => a + b >= c)
        OBVIOUS
    <2>6. v[k + 1] >= 0
        BY <2>2, <2>3, <2>4, <2>5
    <2>7. CASE k >= x
        BY <2>2, <2>3, <2>4, <2>5, <2>7
    <2>8. CASE k + 1 = x
        <3>1. \A a, b \in Int : a >= 0 => a + b >= b
            OBVIOUS
        <3>2. v[k] + d[k + 1] >= d[k + 1]
            BY <2>3, <2>4, <3>1
        <3> QED BY <2>2, <2>6, <2>8, <3>2
    <2>9. CASE k + 1 < x
        BY <2>6, <2>9
    <2> QED BY <2>7, <2>8, <2>9
<1> HIDE DEF T
<1>3. n \in T
    BY <1>1, <1>2, InductionOnNat
<1>4. v[n] >= d[x]
    BY <1>3 DEF T
<1>5. d[x] >= 0 /\ d[x] \in Int
    BY DEF NoneBelow
<1> QED BY <1>4, <1>5

LEMMA NoneAboveZero ==
    ASSUME NEW n \in Nat, NEW d \in [1..n -> Int], NEW v \in [0..n -> Int], Sums(v, n, d),
           v[n] = 0, NoneAbove(d, n), NEW x \in 1..n
    PROVE  d[x] = 0
<1> DEFINE e == [k \in 1..n |-> 0 - d[k]]
           w == [k \in 0..n |-> 0 - v[k]]
<1>1. e \in [1..n -> Int] /\ w \in [0..n -> Int] /\ w[n] = 0 /\ w[0] = 0
    <2>1. e \in [1..n -> Int] /\ w \in [0..n -> Int]
        OBVIOUS
    <2>2. 0 \in 0..n /\ n \in 0..n /\ v[0] = 0
        BY DEF Sums
    <2>3. w[n] = 0 - v[n] /\ w[0] = 0 - v[0]
        BY <2>2
    <2> HIDE DEF w, e
    <2>4. 0 - 0 = 0
        OBVIOUS
    <2>5. w[n] = 0
        BY <2>2, <2>3, <2>4
    <2>6. w[0] = 0
        BY <2>2, <2>3, <2>4
    <2> QED BY <2>1, <2>5, <2>6
<1>2. ASSUME NEW k \in 1..n PROVE w[k] = w[k - 1] + e[k] /\ e[k] >= 0
    <2>1. k \in 0..n /\ k - 1 \in 0..n /\ d[k] \in Int /\ v[k - 1] \in Int
        OBVIOUS
    <2>2. w[k] = 0 - v[k] /\ w[k - 1] = 0 - v[k - 1] /\ e[k] = 0 - d[k]
        BY <2>1
    <2> HIDE DEF w, e
    <2>3. v[k] = v[k - 1] + d[k] /\ d[k] <= 0
        BY DEF Sums, NoneAbove
    <2>4. \A a, b \in Int : 0 - (a + b) = (0 - a) + (0 - b)
        OBVIOUS
    <2> QED BY <2>1, <2>2, <2>3, <2>4, SMTT(30)
<1>3. e[x] = 0 - d[x]
    OBVIOUS
<1> HIDE DEF e, w
<1>4. Sums(w, n, e) /\ NoneBelow(e, n)
    BY <1>1, <1>2 DEF Sums, NoneBelow
<1>5. e[x] = 0
    BY <1>1, <1>4, NoneBelowZero
<1> QED BY <1>3, <1>5

\* What lies above the mean of a group has something below it, and the other way round.
LEMMA AdvantagesOppose ==
    ASSUME NEW n \in Nat, NEW f \in [1..n -> Int], NEW u \in [0..n -> Int], Sums(u, n, f),
           NEW d \in [1..n -> Int], \A k \in 1..n : d[k] = n * f[k] - u[n],
           NEW x \in 1..n, d[x] # 0
    PROVE  \E y \in 1..n : d[x] * d[y] < 0
<1> DEFINE v == [k \in 0..n |-> n * u[k] - k * u[n]]
<1>1. v \in [0..n -> Int] /\ v[0] = 0 /\ v[n] = 0
    <2>1. v \in [0..n -> Int]
        OBVIOUS
    <2>2. 0 \in 0..n /\ n \in 0..n /\ u[0] = 0 /\ u[n] \in Int
        BY DEF Sums
    <2>3. v[n] = n * u[n] - n * u[n] /\ v[0] = n * u[0] - 0 * u[n]
        BY <2>2
    <2> HIDE DEF v
    <2>4. \A a \in Int : n * 0 - 0 * a = 0 /\ n * a - n * a = 0
        OBVIOUS
    <2> QED BY <2>1, <2>2, <2>3, <2>4
<1>2. ASSUME NEW k \in 1..n PROVE v[k] = v[k - 1] + d[k]
    <2>1. k \in 0..n /\ k - 1 \in 0..n /\ f[k] \in Int /\ u[k - 1] \in Int /\ u[n] \in Int
        OBVIOUS
    <2>2. v[k] = n * u[k] - k * u[n] /\ v[k - 1] = n * u[k - 1] - (k - 1) * u[n]
        BY <2>1
    <2>3. u[k] = u[k - 1] + f[k] /\ d[k] = n * f[k] - u[n]
        BY DEF Sums
    <2>4. \A a, b, c \in Int : n * (a + b) - k * c = (n * a - (k - 1) * c) + (n * b - c)
        OBVIOUS
    <2> QED BY <2>1, <2>2, <2>3, <2>4
<1> HIDE DEF v
<1>3. Sums(v, n, d)
    BY <1>1, <1>2 DEF Sums
<1>4. ~NoneBelow(d, n) /\ ~NoneAbove(d, n)
    BY <1>1, <1>3, NoneBelowZero, NoneAboveZero
<1>5. PICK y, z \in 1..n : d[y] < 0 /\ d[z] > 0
    <2>1. \A k \in 1..n : d[k] \in Int
        OBVIOUS
    <2>2. PICK y \in 1..n : ~(d[y] >= 0)
        BY <1>4 DEF NoneBelow
    <2>3. PICK z \in 1..n : ~(d[z] <= 0)
        BY <1>4 DEF NoneAbove
    <2>4. d[y] < 0
        BY <2>1, <2>2
    <2>5. d[z] > 0
        BY <2>1, <2>3
    <2> QED BY <2>4, <2>5
<1>6. d[x] \in Int /\ d[y] \in Int /\ d[z] \in Int
    OBVIOUS
<1>7. \A a, b \in Int : a < 0 /\ b > 0 => a * b < 0 /\ b * a < 0
    OBVIOUS
<1>8. CASE d[x] > 0
    BY <1>5, <1>6, <1>7, <1>8
<1>9. CASE d[x] < 0
    BY <1>5, <1>6, <1>7, <1>9
<1> QED BY <1>6, <1>8, <1>9

-------------------------------------------------------------------------------
(* What is selected                                                            *)

\* The rewards of group g are numbers, and they are not all equal.
HasRewards(rewards, g, size) == \A k \in 1..size : rewards[Member(g, size, k)] \in Int
Mixed(rewards, g, size) ==
    \E k, l \in 1..size : rewards[Member(g, size, k)] # rewards[Member(g, size, l)]

Advantage(rewards, g, size, k) == size * rewards[Member(g, size, k)] - Total(rewards, g, size)
Sample(rewards, g, size, k) ==
    [state |-> Member(g, size, k), advantage |-> Advantage(rewards, g, size, k)]

AddUp(rewards, g, size, f, u) ==
    /\ f \in [1..size -> Int] /\ u \in [0..size -> Int]
    /\ \A k \in 1..size : f[k] = rewards[Member(g, size, k)]
    /\ Sums(u, size, f) /\ Total(rewards, g, size) = u[size]

LEMMA GroupSums ==
    ASSUME NEW rewards, NEW g, NEW size \in Nat, HasRewards(rewards, g, size)
    PROVE  \E f, u : AddUp(rewards, g, size, f, u)
<1> DEFINE f == [k \in 1..size |-> rewards[Member(g, size, k)]]
<1>1. f \in [1..size -> Int] /\ \A k \in 1..size : f[k] = rewards[Member(g, size, k)]
    BY DEF HasRewards
<1> HIDE DEF f
<1>2. PICK u \in [0..size -> Int] : Sums(u, size, f)
    BY <1>1, SumsExist
<1>3. Total(rewards, g, size) = u[size]
    BY <1>1, <1>2, TotalIsSum
<1> QED BY <1>1, <1>2, <1>3 DEF AddUp

LEMMA AdvantageType ==
    ASSUME NEW rewards, NEW g, NEW size \in Nat, HasRewards(rewards, g, size), NEW k \in 1..size
    PROVE  Advantage(rewards, g, size, k) \in Int
<1>1. PICK f, u : AddUp(rewards, g, size, f, u)
    BY GroupSums, Zenon
<1>2. rewards[Member(g, size, k)] \in Int /\ u[size] \in Int /\ size \in Int
    BY <1>1 DEF HasRewards, AddUp
<1>3. \A a, b, c \in Int : a * b - c \in Int
    OBVIOUS
<1> QED BY <1>1, <1>2, <1>3 DEF Advantage, AddUp

\* The better a trajectory is, the more it is pushed up; and no group is pushed one way.
LEMMA AdvantagesOrder ==
    ASSUME NEW rewards, NEW g, NEW size \in Nat, HasRewards(rewards, g, size),
           NEW k \in 1..size
    PROVE  /\ \A l \in 1..size :
                  Advantage(rewards, g, size, k) > Advantage(rewards, g, size, l)
                      <=> rewards[Member(g, size, k)] > rewards[Member(g, size, l)]
           /\ \/ Advantage(rewards, g, size, k) = 0
              \/ \E l \in 1..size :
                     Advantage(rewards, g, size, k) * Advantage(rewards, g, size, l) < 0
<1>1. PICK f, u : AddUp(rewards, g, size, f, u)
    BY GroupSums, Zenon
<1>2. /\ f \in [1..size -> Int] /\ u \in [0..size -> Int] /\ Sums(u, size, f)
      /\ \A j \in 1..size : f[j] = rewards[Member(g, size, j)]
      /\ Total(rewards, g, size) = u[size]
    BY <1>1 DEF AddUp
<1> DEFINE d == [j \in 1..size |-> size * f[j] - u[size]]
<1>3. \A j \in 1..size : f[j] \in Int /\ u[size] \in Int
    BY <1>2
<1>4. d \in [1..size -> Int] /\ \A j \in 1..size : d[j] = size * f[j] - u[size]
    BY <1>3
<1> HIDE DEF d
<1>5. \A j \in 1..size : Advantage(rewards, g, size, j) = d[j]
    BY <1>2, <1>4 DEF Advantage
<1>6. ASSUME NEW l \in 1..size PROVE d[k] > d[l] <=> f[k] > f[l]
    <2>1. \A a, b, c \in Int : size * a - c > size * b - c <=> size * a > size * b
        OBVIOUS
    <2>2. \A a, b \in Int : size * a > size * b <=> a > b
        <3> SUFFICES ASSUME NEW a \in Int, NEW b \in Int PROVE size * a > size * b <=> a > b
            OBVIOUS
        <3>1. size > 0 /\ size \in Int
            OBVIOUS
        <3>2. \A x, y \in Int : x > 0 /\ y > 0 => x * y > 0
            OBVIOUS
        <3>3. size * a - size * b = size * (a - b) /\ size * b - size * a = size * (b - a)
            OBVIOUS
        <3>4. a > b => size * (a - b) > 0
            BY <3>1, <3>2
        <3>5. b > a => size * (b - a) > 0
            BY <3>1, <3>2
        <3>6. a = b => ~(size * a > size * b)
            OBVIOUS
        <3> QED BY <3>3, <3>4, <3>5, <3>6
    <2>3. d[k] > d[l] <=> size * f[k] > size * f[l]
        BY <1>3, <1>4, <2>1
    <2> QED BY <1>3, <2>2, <2>3
<1>7. d[k] # 0 => \E l \in 1..size : d[k] * d[l] < 0
    BY <1>2, <1>4, AdvantagesOppose
<1> QED BY <1>2, <1>5, <1>6, <1>7

LEMMA MixedMeansSeveral ==
    ASSUME NEW rewards, NEW g, NEW size \in Nat \ {0}
    PROVE  SamplesOf(rewards, g, size) =
               IF Mixed(rewards, g, size) THEN [k \in 1..size |-> Sample(rewards, g, size, k)]
               ELSE <<>>
<1> DEFINE r(k) == rewards[Member(g, size, k)]
           R == {r(k) : k \in 1..size}
<1>1. IsFiniteSet(R)
    <2>1. 1 \in Int /\ size \in Int
        OBVIOUS
    <2>2. IsFiniteSet(1..size)
        BY <2>1, FS_Interval, Zenon
    <2> DEFINE f == [k \in 1..size |-> r(k)]
    <2>3. f \in Surjection(1..size, R)
        <3> HIDE DEF r
        <3> QED BY DEF Surjection
    <2> HIDE DEF f, R
    <2> QED BY <2>2, <2>3, FS_Surjection, Zenon
<1>2. Cardinality(R) = 1 <=> ~Mixed(rewards, g, size)
    <2>1. Cardinality(R) = 1 <=> \E x : R = {x}
        BY <1>1, FS_Singleton, Zenon
    <2>2. 1 \in 1..size
        OBVIOUS
    <2>3. (\E x : R = {x}) <=> \A k, l \in 1..size : r(k) = r(l)
        <3> HIDE DEF r
        <3> QED BY <2>2
    <2> QED BY <2>1, <2>3 DEF Mixed
<1> QED BY <1>2 DEF SamplesOf, Sample, Advantage

\* q holds the samples of the mixed ones of the first m groups, in the batch's order.
Numbered == [state : Nat, advantage : Int]
InOrder(q) == \A i, j \in 1..Len(q) : i < j => q[i].state < q[j].state
Chosen(q, rewards, m, size) ==
    /\ \A i \in 1..Len(q) : \E g \in 1..m, k \in 1..size :
           Mixed(rewards, g, size) /\ q[i] = Sample(rewards, g, size, k)
    /\ \A g \in 1..m, k \in 1..size :
           Mixed(rewards, g, size) => \E i \in 1..Len(q) : q[i] = Sample(rewards, g, size, k)
SelectsUpTo(q, rewards, m, size) ==
    q \in Seq(Numbered) /\ InOrder(q) /\ Chosen(q, rewards, m, size)

LEMMA MemberBounds ==
    ASSUME NEW size \in Nat, NEW g \in Nat \ {0}, NEW k \in 1..size
    PROVE  /\ Member(g, size, k) \in Nat
           /\ Member(g, size, k) = (g - 1) * size + k
           /\ \A m \in Nat : g <= m => Member(g, size, k) <= m * size
<1>1. g - 1 \in Nat /\ (g - 1) * size \in Nat
    <2>1. g - 1 \in Nat
        OBVIOUS
    <2> QED BY <2>1
<1>2. ASSUME NEW m \in Nat, g <= m PROVE Member(g, size, k) <= m * size
    <2>1. m - g \in Nat
        BY <1>2
    <2>2. (m - g) * size \in Nat
        BY <2>1
    <2>3. m * size = (g - 1) * size + size + (m - g) * size
        OBVIOUS
    <2> QED BY <1>1, <2>2, <2>3 DEF Member
<1> QED BY <1>1, <1>2 DEF Member

Concatenates(s, a, b, S) ==
    /\ s \in Seq(S) /\ Len(s) = Len(a) + Len(b)
    /\ \A i \in 1..Len(a) : s[i] = a[i]
    /\ \A i \in 1..Len(b) : s[Len(a) + i] = b[i]

LEMMA JoinedAt ==
    ASSUME NEW S, NEW a \in Seq(S), NEW b \in Seq(S)
    PROVE  Concatenates(a \o b, a, b, S)
BY DEF Concatenates

LEMMA SelectsNext ==
    ASSUME NEW rewards, NEW m \in Nat, NEW size \in Nat \ {0}, HasRewards(rewards, m + 1, size),
           NEW q, SelectsUpTo(q, rewards, m, size)
    PROVE  SelectsUpTo(q \o SamplesOf(rewards, m + 1, size), rewards, m + 1, size)
<1> DEFINE g == m + 1
           b == SamplesOf(rewards, g, size)
           p == q \o b
<1>1. /\ q \in Seq(Numbered) /\ InOrder(q) /\ Len(q) \in Nat
      /\ \A i \in 1..Len(q) : \E h \in 1..m, k \in 1..size :
             Mixed(rewards, h, size) /\ q[i] = Sample(rewards, h, size, k)
      /\ \A h \in 1..m, k \in 1..size :
             Mixed(rewards, h, size) => \E i \in 1..Len(q) : q[i] = Sample(rewards, h, size, k)
    <2>1. q \in Seq(Numbered) /\ InOrder(q) /\ Chosen(q, rewards, m, size)
        BY DEF SelectsUpTo
    <2>2. Len(q) \in Nat
        BY <2>1
    <2> QED BY <2>1, <2>2 DEF Chosen
<1>2. /\ g \in Nat \ {0} /\ g - 1 = m /\ 1..g = (1..m) \cup {g} /\ g \notin 1..m
    OBVIOUS
<1> HIDE DEF g
<1>3. \A k \in 1..size : Member(g, size, k) = m * size + k /\ Member(g, size, k) \in Nat
    BY <1>2, MemberBounds
<1>4. \A k \in 1..size : Sample(rewards, g, size, k) \in Numbered
    <2> SUFFICES ASSUME NEW k \in 1..size PROVE Sample(rewards, g, size, k) \in Numbered
        OBVIOUS
    <2>1. HasRewards(rewards, g, size)
        BY DEF g
    <2>2. Advantage(rewards, g, size, k) \in Int
        BY <2>1, AdvantageType
    <2> QED BY <1>3, <2>2 DEF Sample, Numbered
<1>5. CASE Mixed(rewards, g, size)
    <2>1. b = [k \in 1..size |-> Sample(rewards, g, size, k)]
        BY <1>5, MixedMeansSeveral
    <2>2. /\ b \in Seq(Numbered) /\ Len(b) = size
          /\ \A k \in 1..size : b[k] = Sample(rewards, g, size, k)
        <3> HIDE DEF b
        <3>1. b \in Seq(Numbered)
            BY <1>4, <2>1
        <3> QED BY <2>1, <3>1
    <2> HIDE DEF b
    <2>3. /\ p \in Seq(Numbered) /\ Len(p) = Len(q) + size
          /\ \A i \in 1..Len(q) : p[i] = q[i]
          /\ \A k \in 1..size : p[Len(q) + k] = Sample(rewards, g, size, k)
        <3>1. q \in Seq(Numbered) /\ b \in Seq(Numbered) /\ Len(b) = size
            BY <1>1, <2>2
        <3>2. /\ p \in Seq(Numbered) /\ Len(p) = Len(q) + Len(b)
              /\ \A i \in 1..Len(q) : p[i] = q[i]
              /\ \A i \in 1..Len(b) : p[Len(q) + i] = b[i]
            <4>1. Concatenates(p, q, b, Numbered)
                BY <3>1, JoinedAt, Zenon DEF p
            <4> QED BY <4>1 DEF Concatenates
        <3> HIDE DEF p
        <3> QED BY <2>2, <3>1, <3>2
    <2> HIDE DEF p
    <2>4. \A i \in 1..Len(p) : i \in 1..Len(q) \/ \E k \in 1..size : i = Len(q) + k
        <3> SUFFICES ASSUME NEW i \in 1..Len(p), i \notin 1..Len(q)
                     PROVE  \E k \in 1..size : i = Len(q) + k
            OBVIOUS
        <3>1. i - Len(q) \in 1..size /\ i = Len(q) + (i - Len(q))
            BY <1>1, <2>3
        <3> QED BY <3>1
    <2>5. InOrder(p)
        <3> SUFFICES ASSUME NEW i \in 1..Len(p), NEW j \in 1..Len(p), i < j
                     PROVE  p[i].state < p[j].state
            BY DEF InOrder
        <3>1. CASE i \in 1..Len(q) /\ j \in 1..Len(q)
            BY <1>1, <2>3, <3>1 DEF InOrder
        <3>2. CASE i \in 1..Len(q) /\ j \notin 1..Len(q)
            <4>1. PICK l \in 1..size : j = Len(q) + l
                BY <2>4, <3>2
            <4>2. p[j].state = m * size + l
                <5>1. p[j] = Sample(rewards, g, size, l)
                    BY <2>3, <4>1
                <5> QED BY <1>3, <5>1 DEF Sample
            <4>3. PICK h \in 1..m, k \in 1..size : q[i] = Sample(rewards, h, size, k)
                BY <1>1, <3>2
            <4>4. h \in Nat \ {0} /\ h <= m
                OBVIOUS
            <4>5. Member(h, size, k) \in Nat /\ Member(h, size, k) <= m * size
                BY <4>4, MemberBounds
            <4>6. p[i].state = Member(h, size, k)
                BY <2>3, <3>2, <4>3 DEF Sample
            <4>7. m * size \in Nat
                OBVIOUS
            <4> QED BY <4>2, <4>5, <4>6, <4>7
        <3>3. CASE i \notin 1..Len(q)
            <4>1. PICK k \in 1..size : i = Len(q) + k
                BY <2>4, <3>3
            <4>2. j \notin 1..Len(q)
                BY <1>1, <3>3
            <4>3. PICK l \in 1..size : j = Len(q) + l
                BY <2>4, <4>2
            <4>4. p[i].state = m * size + k /\ p[j].state = m * size + l
                <5>1. p[i] = Sample(rewards, g, size, k) /\ p[j] = Sample(rewards, g, size, l)
                    BY <2>3, <4>1, <4>3
                <5> QED BY <1>3, <5>1 DEF Sample
            <4>5. k < l /\ m * size \in Nat
                BY <1>1, <4>1, <4>3
            <4> QED BY <4>4, <4>5
        <3> QED BY <3>1, <3>2, <3>3
    <2>6. ASSUME NEW i \in 1..Len(p)
          PROVE  \E h \in 1..g, k \in 1..size :
                     Mixed(rewards, h, size) /\ p[i] = Sample(rewards, h, size, k)
        <3>1. CASE i \in 1..Len(q)
            <4>1. PICK h \in 1..m, k \in 1..size :
                      Mixed(rewards, h, size) /\ q[i] = Sample(rewards, h, size, k)
                BY <1>1, <3>1
            <4>2. h \in 1..g /\ p[i] = q[i]
                BY <1>2, <2>3, <3>1
            <4> QED BY <4>1, <4>2
        <3>2. CASE i \notin 1..Len(q)
            <4>1. PICK k \in 1..size : i = Len(q) + k
                BY <2>4, <3>2
            <4>2. g \in 1..g
                BY <1>2
            <4> QED BY <1>5, <2>3, <4>1, <4>2
        <3> QED BY <3>1, <3>2
    <2>7. ASSUME NEW h \in 1..g, NEW k \in 1..size, Mixed(rewards, h, size)
          PROVE  \E i \in 1..Len(p) : p[i] = Sample(rewards, h, size, k)
        <3>1. CASE h = g
            <4>1. Len(q) + k \in 1..Len(p)
                BY <1>1, <2>3
            <4> QED BY <2>3, <3>1, <4>1
        <3>2. CASE h # g
            <4>1. h \in 1..m
                BY <1>2, <3>2
            <4>2. PICK i \in 1..Len(q) : q[i] = Sample(rewards, h, size, k)
                BY <1>1, <2>7, <4>1
            <4>3. i \in 1..Len(p)
                BY <1>1, <2>3
            <4> QED BY <2>3, <4>2, <4>3
        <3> QED BY <3>1, <3>2
    <2> QED BY <2>3, <2>5, <2>6, <2>7 DEF SelectsUpTo, Chosen, p, b, g
<1>6. CASE ~Mixed(rewards, g, size)
    <2>1. b = <<>>
        BY <1>6, MixedMeansSeveral
    <2>2. p = q
        <3> HIDE DEF b
        <3> QED BY <1>1, <2>1, ConcatEmptySeq
    <2> HIDE DEF p
    <2>3. Chosen(q, rewards, g, size)
        <3>1. \A h \in 1..m : h \in 1..g
            BY <1>2
        <3>2. \A h \in 1..g : Mixed(rewards, h, size) => h \in 1..m
            BY <1>2, <1>6
        <3>3. \A i \in 1..Len(q) : \E h \in 1..g, k \in 1..size :
                  Mixed(rewards, h, size) /\ q[i] = Sample(rewards, h, size, k)
            BY <1>1, <3>1
        <3>4. \A h \in 1..g, k \in 1..size :
                  Mixed(rewards, h, size) => \E i \in 1..Len(q) : q[i] = Sample(rewards, h, size, k)
            BY <1>1, <3>2
        <3> QED BY <3>3, <3>4 DEF Chosen
    <2> QED BY <1>1, <2>2, <2>3 DEF SelectsUpTo, p, b, g
<1> QED BY <1>5, <1>6

LEMMA SelectsWholeMixedGroups ==
    ASSUME NEW rewards, NEW groups \in Nat, NEW size \in Nat \ {0},
           \A g \in 1..groups : HasRewards(rewards, g, size)
    PROVE  SelectsUpTo(SelectGrpoSamples(rewards, groups, size), rewards, groups, size)
<1> DEFINE parts(m) == [g \in 1..m |-> SamplesOf(rewards, g, size)]
           T == {m \in Nat : m <= groups =>
                     /\ parts(m) \in Seq(Seq(Numbered))
                     /\ SelectsUpTo(FlattenSeq(parts(m)), rewards, m, size)}
<1>1. 0 \in T
    <2>1. parts(0) = <<>>
        OBVIOUS
    <2>2. SelectsUpTo(<<>>, rewards, 0, size)
        BY DEF SelectsUpTo, InOrder, Chosen
    <2>3. <<>> \in Seq(Seq(Numbered))
        OBVIOUS
    <2> HIDE DEF parts
    <2>4. FlattenSeq(parts(0)) = <<>>
        BY <2>1, FlattenEmpty, Zenon
    <2>5. parts(0) \in Seq(Seq(Numbered)) /\ SelectsUpTo(FlattenSeq(parts(0)), rewards, 0, size)
        BY <2>1, <2>2, <2>3, <2>4, Zenon
    <2> QED BY <2>5
<1>2. ASSUME NEW m \in Nat, m \in T PROVE m + 1 \in T
    <2> SUFFICES ASSUME m + 1 <= groups
                 PROVE  /\ parts(m + 1) \in Seq(Seq(Numbered))
                        /\ SelectsUpTo(FlattenSeq(parts(m + 1)), rewards, m + 1, size)
        OBVIOUS
    <2> DEFINE b == SamplesOf(rewards, m + 1, size)
    <2>1. parts(m) \in Seq(Seq(Numbered)) /\ SelectsUpTo(FlattenSeq(parts(m)), rewards, m, size)
        BY <1>2
    <2>2. m + 1 \in 1..groups /\ HasRewards(rewards, m + 1, size)
        OBVIOUS
    <2>3. b \in Seq(Numbered)
        <3>1. \A k \in 1..size : Sample(rewards, m + 1, size, k) \in Numbered
            <4> SUFFICES ASSUME NEW k \in 1..size
                         PROVE  Sample(rewards, m + 1, size, k) \in Numbered
                OBVIOUS
            <4>1. Advantage(rewards, m + 1, size, k) \in Int
                BY <2>2, AdvantageType
            <4>2. m + 1 \in Nat \ {0}
                OBVIOUS
            <4>3. Member(m + 1, size, k) \in Nat
                BY <4>2, MemberBounds
            <4> QED BY <4>1, <4>3 DEF Sample, Numbered
        <3>2. [k \in 1..size |-> Sample(rewards, m + 1, size, k)] \in Seq(Numbered)
            BY <3>1
        <3>3. <<>> \in Seq(Numbered)
            OBVIOUS
        <3> QED BY <3>2, <3>3, MixedMeansSeveral
    <2>4. parts(m + 1) = Append(parts(m), b)
        <3> HIDE DEF b
        <3>1. /\ Len(parts(m)) = m /\ 1..(m + 1) = (1..m) \cup {m + 1}
            OBVIOUS
        <3> QED BY <3>1, <2>1, <2>3 DEF b
    <2> HIDE DEF parts
    <2>5. FlattenSeq(parts(m + 1)) = FlattenSeq(parts(m)) \o b
        <3> HIDE DEF b
        <3> QED BY <2>1, <2>3, <2>4, FlattenAppend
    <2>6. SelectsUpTo(FlattenSeq(parts(m)) \o b, rewards, m + 1, size)
        BY <2>1, <2>2, SelectsNext
    <2>7. parts(m + 1) \in Seq(Seq(Numbered))
        <3>1. \A S : \A s \in Seq(S), e \in S : Append(s, e) \in Seq(S)
            OBVIOUS
        <3> HIDE DEF b
        <3> QED BY <2>1, <2>3, <2>4, <3>1, Zenon
    <2> QED BY <2>5, <2>6, <2>7
<1>3. groups \in T
    <2> HIDE DEF T
    <2> QED BY <1>1, <1>2, InductionOnNat
<1>4. SelectGrpoSamples(rewards, groups, size) = FlattenSeq(parts(groups))
    BY DEF SelectGrpoSamples
<1> HIDE DEF parts
<1>5. groups <= groups
    OBVIOUS
<1> QED BY <1>3, <1>4, <1>5

-------------------------------------------------------------------------------
(* Groups of the batch                                                         *)

GroupOf(s, size) == (s - 1) \div size + 1

LEMMA GroupOfMember ==
    ASSUME NEW size \in Nat \ {0}, NEW g \in Nat \ {0}, NEW k \in 1..size
    PROVE  GroupOf(Member(g, size, k), size) = g
<1>1. Member(g, size, k) - 1 = (g - 1) * size + (k - 1)
    <2>1. (g - 1) * size \in Nat
        <3>1. g - 1 \in Nat
            OBVIOUS
        <3> QED BY <3>1
    <2> QED BY <2>1 DEF Member
<1>2. \A m \in Nat, r \in 0..(size - 1) : (m * size + r) \div size = m
    <2> SUFFICES ASSUME NEW m \in Nat, NEW r \in 0..(size - 1)
                 PROVE  (m * size + r) \div size = m
        OBVIOUS
    <2> DEFINE x == m * size + r
               d == x \div size
    <2>1. x \in Nat /\ d \in Int /\ size * d <= x /\ x < size * d + size
        OBVIOUS
    <2>2. x = m * size + r /\ m * size <= x /\ x < m * size + size
        OBVIOUS
    <2> HIDE DEF x, d
    <2>3. size * d < m * size + size /\ m * size < size * d + size
        BY <2>1, <2>2
    <2>4. ~(d >= m + 1)
        <3> SUFFICES ASSUME d >= m + 1 PROVE FALSE
            OBVIOUS
        <3>1. d - (m + 1) \in Nat
            BY <2>1
        <3>2. size * (d - (m + 1)) \in Nat
            BY <3>1
        <3>3. size * d = m * size + size + size * (d - (m + 1))
            BY <2>1
        <3>4. m * size \in Nat
            OBVIOUS
        <3> QED BY <2>3, <3>2, <3>3, <3>4
    <2>5. ~(m >= d + 1)
        <3> SUFFICES ASSUME m >= d + 1 PROVE FALSE
            OBVIOUS
        <3>1. m - (d + 1) \in Nat
            BY <2>1
        <3>2. size * (m - (d + 1)) \in Nat
            BY <3>1
        <3>3. m * size = size * d + size + size * (m - (d + 1))
            BY <2>1
        <3>4. size * d \in Int
            BY <2>1
        <3> QED BY <2>3, <3>2, <3>3, <3>4
    <2> QED BY <2>1, <2>4, <2>5 DEF d, x
<1>3. g - 1 \in Nat /\ k - 1 \in 0..(size - 1) /\ (g - 1) + 1 = g
    OBVIOUS
<1> QED BY <1>1, <1>2, <1>3 DEF GroupOf

LEMMA EveryStateIsMember ==
    ASSUME NEW groups \in Nat, NEW size \in Nat \ {0}, NEW s \in 1..(groups * size)
    PROVE  \E g \in 1..groups, k \in 1..size : s = Member(g, size, k)
<1> DEFINE T == {m \in Nat : \A t \in 1..(m * size) :
                     \E g \in 1..m, k \in 1..size : t = Member(g, size, k)}
<1>1. 0 \in T
    BY DEF T
<1>2. ASSUME NEW m \in Nat, m \in T PROVE m + 1 \in T
    <2> SUFFICES ASSUME NEW t \in 1..((m + 1) * size)
                 PROVE  \E g \in 1..(m + 1), k \in 1..size : t = Member(g, size, k)
        OBVIOUS
    <2>1. (m + 1) * size = m * size + size /\ m * size \in Nat
        OBVIOUS
    <2>2. CASE t <= m * size
        <3>1. t \in 1..(m * size)
            BY <2>1, <2>2
        <3>2. PICK g \in 1..m, k \in 1..size : t = Member(g, size, k)
            BY <1>2, <3>1
        <3>3. g \in 1..(m + 1)
            OBVIOUS
        <3> QED BY <3>2, <3>3
    <2>3. CASE t > m * size
        <3>1. t - m * size \in 1..size
            BY <2>1, <2>3
        <3>2. m + 1 \in 1..(m + 1) /\ (m + 1) - 1 = m
            OBVIOUS
        <3>3. t = m * size + (t - m * size)
            BY <2>1
        <3>4. t = Member(m + 1, size, t - m * size)
            BY <3>2, <3>3 DEF Member
        <3> QED BY <3>1, <3>2, <3>4
    <2> QED BY <2>1, <2>2, <2>3
<1>3. groups \in T
    <2> HIDE DEF T
    <2> QED BY <1>1, <1>2, InductionOnNat
<1> QED BY <1>3

\* The k-th trajectory of the g-th group of the batch.
LEMMA MemberInBatch ==
    ASSUME NEW groups \in Nat, NEW size \in Nat, NEW g \in 1..groups, NEW k \in 1..size
    PROVE  Member(g, size, k) \in 1..(groups * size)
<1>1. (g - 1) * size \in Nat /\ groups * size \in Nat
    <2>1. g - 1 \in Nat
        OBVIOUS
    <2> QED BY <2>1
<1>2. (groups - g) * size \in Nat
    <2>1. groups - g \in Nat
        OBVIOUS
    <2> QED BY <2>1
<1>3. groups * size = (g - 1) * size + size + (groups - g) * size
    OBVIOUS
<1> QED BY <1>1, <1>2, <1>3 DEF Member

Numeric(rewards, n) == \A s \in 1..n : rewards[s] \in Int
Alike(rewards, n, size, s) ==
    \A t \in 1..n : GroupOf(t, size) = GroupOf(s, size) => rewards[t] = rewards[s]

LEMMA MixedMeansNotAlike ==
    ASSUME NEW rewards, NEW groups \in Nat, NEW size \in Nat \ {0}, NEW s \in 1..(groups * size)
    PROVE  Mixed(rewards, GroupOf(s, size), size) <=> ~Alike(rewards, groups * size, size, s)
<1>1. PICK g \in 1..groups, k \in 1..size : s = Member(g, size, k)
    BY EveryStateIsMember
<1>2. g \in Nat \ {0} /\ size \in Nat /\ \A h \in 1..groups : h \in Nat \ {0}
    OBVIOUS
<1>3. GroupOf(s, size) = g
    BY <1>1, <1>2, GroupOfMember
<1>4. ASSUME Mixed(rewards, g, size) PROVE ~Alike(rewards, groups * size, size, s)
    <2>1. PICK l, m \in 1..size : rewards[Member(g, size, l)] # rewards[Member(g, size, m)]
        BY <1>4 DEF Mixed
    <2>2. /\ Member(g, size, l) \in 1..(groups * size)
          /\ Member(g, size, m) \in 1..(groups * size)
        BY <1>2, MemberInBatch
    <2>3. GroupOf(Member(g, size, l), size) = g /\ GroupOf(Member(g, size, m), size) = g
        BY <1>2, GroupOfMember
    <2> QED BY <1>3, <2>1, <2>2, <2>3 DEF Alike
<1>5. ASSUME ~Alike(rewards, groups * size, size, s) PROVE Mixed(rewards, g, size)
    <2>1. PICK t \in 1..(groups * size) : GroupOf(t, size) = g /\ rewards[t] # rewards[s]
        BY <1>3, <1>5 DEF Alike
    <2>2. PICK h \in 1..groups, l \in 1..size : t = Member(h, size, l)
        BY EveryStateIsMember
    <2>3. h = g
        BY <1>2, <2>1, <2>2, GroupOfMember
    <2> QED BY <1>1, <2>1, <2>2, <2>3 DEF Mixed
<1> QED BY <1>3, <1>4, <1>5

\* What LossIsOwn says of the selection.
PushesRightly(q, rewards, size) ==
    \A i, j \in DOMAIN q :
        GroupOf(q[i].state, size) = GroupOf(q[j].state, size) =>
            (q[i].advantage > q[j].advantage <=> rewards[q[i].state] > rewards[q[j].state])
PushesBothWays(q, size) ==
    \A i \in DOMAIN q : \E j \in DOMAIN q :
        /\ GroupOf(q[j].state, size) = GroupOf(q[i].state, size)
        /\ q[i].advantage * q[j].advantage < 0 \/ q[i].advantage = 0

SelectsMixed(q, rewards, n, size) ==
    \A s \in 1..n : (\E i \in DOMAIN q : q[i].state = s) <=> ~Alike(rewards, n, size, s)

LEMMA SelectionIsFair ==
    ASSUME NEW rewards, NEW groups \in Nat, NEW size \in Nat \ {0},
           Numeric(rewards, groups * size), NEW q, SelectsUpTo(q, rewards, groups, size)
    PROVE  /\ SelectsMixed(q, rewards, groups * size, size)
           /\ PushesRightly(q, rewards, size) /\ PushesBothWays(q, size)
<1>1. /\ \A i \in 1..Len(q) : \E g \in 1..groups, k \in 1..size :
             Mixed(rewards, g, size) /\ q[i] = Sample(rewards, g, size, k)
      /\ \A g \in 1..groups, k \in 1..size :
             Mixed(rewards, g, size) => \E i \in 1..Len(q) : q[i] = Sample(rewards, g, size, k)
    BY DEF SelectsUpTo, Chosen
<1>2. DOMAIN q = 1..Len(q)
    <2>1. q \in Seq(Numbered)
        BY DEF SelectsUpTo
    <2> QED BY <2>1
<1>3. size \in Nat /\ \A g \in 1..groups : g \in Nat \ {0}
    OBVIOUS
<1>4. \A g \in 1..groups, k \in 1..size :
          /\ Member(g, size, k) \in 1..(groups * size)
          /\ GroupOf(Member(g, size, k), size) = g
    BY <1>3, MemberInBatch, GroupOfMember
<1>5. \A g \in 1..groups : HasRewards(rewards, g, size)
    BY <1>4 DEF HasRewards, Numeric
<1>6. ASSUME NEW s \in 1..(groups * size)
      PROVE  (\E i \in DOMAIN q : q[i].state = s) <=> Mixed(rewards, GroupOf(s, size), size)
    <2>1. PICK g \in 1..groups, k \in 1..size : s = Member(g, size, k)
        BY EveryStateIsMember
    <2>2. GroupOf(s, size) = g
        BY <1>4, <2>1
    <2>3. ASSUME Mixed(rewards, g, size) PROVE \E i \in DOMAIN q : q[i].state = s
        <3>1. PICK i \in 1..Len(q) : q[i] = Sample(rewards, g, size, k)
            BY <1>1, <2>3
        <3>2. q[i].state = s
            BY <2>1, <3>1 DEF Sample
        <3> QED BY <1>2, <3>2
    <2>4. ASSUME NEW i \in DOMAIN q, q[i].state = s PROVE Mixed(rewards, g, size)
        <3>1. PICK h \in 1..groups, l \in 1..size :
                  Mixed(rewards, h, size) /\ q[i] = Sample(rewards, h, size, l)
            BY <1>1, <1>2
        <3>2. s = Member(h, size, l)
            BY <2>4, <3>1 DEF Sample
        <3>3. h = g
            BY <1>4, <2>2, <3>2
        <3> QED BY <3>1, <3>3
    <2> QED BY <2>2, <2>3, <2>4
<1>7. PushesRightly(q, rewards, size)
    <2> SUFFICES ASSUME NEW i \in DOMAIN q, NEW j \in DOMAIN q,
                        GroupOf(q[i].state, size) = GroupOf(q[j].state, size)
                 PROVE  q[i].advantage > q[j].advantage
                            <=> rewards[q[i].state] > rewards[q[j].state]
        BY DEF PushesRightly
    <2>1. PICK g \in 1..groups, k \in 1..size : q[i] = Sample(rewards, g, size, k)
        BY <1>1, <1>2
    <2>2. PICK h \in 1..groups, l \in 1..size : q[j] = Sample(rewards, h, size, l)
        BY <1>1, <1>2
    <2>3. /\ q[i].state = Member(g, size, k) /\ q[j].state = Member(h, size, l)
          /\ q[i].advantage = Advantage(rewards, g, size, k)
          /\ q[j].advantage = Advantage(rewards, h, size, l)
        BY <2>1, <2>2 DEF Sample
    <2>4. h = g
        BY <1>4, <2>3
    <2>5. Advantage(rewards, g, size, k) > Advantage(rewards, g, size, l)
              <=> rewards[Member(g, size, k)] > rewards[Member(g, size, l)]
        BY <1>3, <1>5, AdvantagesOrder
    <2> QED BY <2>3, <2>4, <2>5
<1>8. PushesBothWays(q, size)
    <2> SUFFICES ASSUME NEW i \in DOMAIN q
                 PROVE  \E j \in DOMAIN q :
                            /\ GroupOf(q[j].state, size) = GroupOf(q[i].state, size)
                            /\ q[i].advantage * q[j].advantage < 0 \/ q[i].advantage = 0
        BY DEF PushesBothWays
    <2>1. PICK g \in 1..groups, k \in 1..size :
              Mixed(rewards, g, size) /\ q[i] = Sample(rewards, g, size, k)
        BY <1>1, <1>2
    <2>2. q[i].state = Member(g, size, k) /\ q[i].advantage = Advantage(rewards, g, size, k)
        BY <2>1 DEF Sample
    <2>3. CASE Advantage(rewards, g, size, k) = 0
        BY <2>2, <2>3
    <2>4. CASE Advantage(rewards, g, size, k) # 0
        <3>1. PICK l \in 1..size :
                  Advantage(rewards, g, size, k) * Advantage(rewards, g, size, l) < 0
            BY <1>3, <1>5, <2>4, AdvantagesOrder
        <3>2. PICK j \in 1..Len(q) : q[j] = Sample(rewards, g, size, l)
            BY <1>1, <2>1
        <3>3. q[j].state = Member(g, size, l) /\ q[j].advantage = Advantage(rewards, g, size, l)
            BY <3>2 DEF Sample
        <3> QED BY <1>2, <1>4, <2>2, <3>1, <3>3
    <2> QED BY <2>3, <2>4
<1>9. SelectsMixed(q, rewards, groups * size, size)
    BY <1>6, MixedMeansNotAlike DEF SelectsMixed
<1> QED BY <1>7, <1>8, <1>9

-------------------------------------------------------------------------------
(* Micro-batches                                                               *)

LEMMA MinOfTwo ==
    ASSUME NEW a \in Nat, NEW b \in Nat
    PROVE  Min({a, b}) = IF a <= b THEN a ELSE b
<1>1. \A x \in {a, b} : (\A y \in {a, b} : x <= y) => x = IF a <= b THEN a ELSE b
    OBVIOUS
<1>2. \E x \in {a, b} : \A y \in {a, b} : x <= y
    OBVIOUS
<1> QED BY <1>1, <1>2 DEF Min

\* Nothing is lost, repeated or moved between two micro-batches.
LEMMA MicroBatchesJoin ==
    ASSUME NEW S, NEW p \in Seq(S), NEW size \in Nat \ {0}
    PROVE  InMicroBatches(p, size) = p
<1> DEFINE n == Len(p)
           count == (n + size - 1) \div size
           cut(c) == Min({c * size, n})
           part(c) == SubSeq(p, (c - 1) * size + 1, cut(c))
           parts(m) == [c \in 1..m |-> part(c)]
           T == {m \in Nat : m <= count =>
                    parts(m) \in Seq(Seq(S)) /\ FlattenSeq(parts(m)) = SubSeq(p, 1, cut(m))}
<1>1. n \in Nat
    OBVIOUS
<1>2. InMicroBatches(p, size) = FlattenSeq(parts(count))
    BY DEF InMicroBatches
<1>3. count \in Nat /\ n <= count * size /\ \A m \in Nat : m < count => m * size < n
    <2> DEFINE x == n + size - 1
    <2>1. x \in Nat
        BY <1>1
    <2>2. count \in Nat /\ size * count <= x /\ x < size * count + size
        <3>1. count = x \div size
            OBVIOUS
        <3> HIDE DEF count, x, n
        <3> QED BY <2>1, <3>1
    <2> HIDE DEF count
    <2>3. size * count \in Nat /\ size * count = count * size
        BY <2>2
    <2>4. n <= count * size
        <3> HIDE DEF n
        <3> QED BY <1>1, <2>2, <2>3
    <2>5. ASSUME NEW m \in Nat, m < count PROVE m * size < n
        <3>1. count - 1 - m \in Nat
            BY <2>2, <2>5
        <3>2. (count - 1 - m) * size \in Nat
            BY <3>1
        <3>3. count * size = m * size + size + (count - 1 - m) * size
            BY <2>2
        <3>4. m * size \in Nat
            OBVIOUS
        <3> HIDE DEF n
        <3> QED BY <1>1, <2>2, <2>3, <3>2, <3>3, <3>4
    <2> QED BY <2>2, <2>4, <2>5
<1> HIDE DEF count
<1>4. \A m \in Nat : m * size \in Nat /\ cut(m) = IF m * size <= n THEN m * size ELSE n
    <2> SUFFICES ASSUME NEW m \in Nat
                 PROVE  m * size \in Nat /\ cut(m) = IF m * size <= n THEN m * size ELSE n
        OBVIOUS
    <2> DEFINE a == m * size
    <2>1. a \in Nat
        OBVIOUS
    <2> HIDE DEF a, n
    <2>2. Min({a, n}) = IF a <= n THEN a ELSE n
        BY <1>1, <2>1, MinOfTwo
    <2> QED BY <2>1, <2>2 DEF a
<1> HIDE DEF cut
<1>5. 0 \in T
    <2>1. parts(0) = <<>>
        OBVIOUS
    <2>2. cut(0) = 0
        <3>1. 0 * size = 0 /\ 0 \in Nat
            OBVIOUS
        <3> HIDE DEF n
        <3> QED BY <1>1, <1>4, <3>1
    <2>3. SubSeq(p, 1, 0) = <<>>
        OBVIOUS
    <2>4. <<>> \in Seq(Seq(S))
        OBVIOUS
    <2> HIDE DEF parts
    <2>5. FlattenSeq(parts(0)) = SubSeq(p, 1, cut(0)) /\ parts(0) \in Seq(Seq(S))
        BY <2>1, <2>2, <2>3, <2>4, FlattenEmpty, Zenon
    <2> QED BY <2>5
<1>6. ASSUME NEW m \in Nat, m \in T PROVE m + 1 \in T
    <2> SUFFICES ASSUME m + 1 <= count
                 PROVE  /\ parts(m + 1) \in Seq(Seq(S))
                        /\ FlattenSeq(parts(m + 1)) = SubSeq(p, 1, cut(m + 1))
        <3>1. m + 1 \in Nat
            OBVIOUS
        <3> HIDE DEF parts
        <3> QED BY <3>1
    <2> DEFINE k == m * size
               c == cut(m + 1)
               b == SubSeq(p, k + 1, c)
    <2>1. parts(m) \in Seq(Seq(S)) /\ FlattenSeq(parts(m)) = SubSeq(p, 1, cut(m))
        <3>1. m <= count
            BY <1>3
        <3> HIDE DEF parts, cut
        <3> QED BY <1>6, <3>1
    <2>2. k \in Nat /\ k < n /\ cut(m) = k
        <3>1. m < count
            BY <1>3
        <3> HIDE DEF n
        <3> QED BY <1>1, <1>3, <1>4, <3>1
    <2>3. c \in k..n
        <3>1. (m + 1) * size = k + size /\ m + 1 \in Nat
            OBVIOUS
        <3>2. c = IF k + size <= n THEN k + size ELSE n
            <4> HIDE DEF n, k
            <4> QED BY <1>4, <3>1
        <3> HIDE DEF n, c, k
        <3> QED BY <1>1, <2>2, <3>2
    <2>4. parts(m + 1) = Append(parts(m), b)
        <3>1. part(m + 1) = b
            <4>1. (m + 1) - 1 = m
                OBVIOUS
            <4> QED BY <4>1
        <3>2. 1..(m + 1) = (1..m) \cup {m + 1} /\ Len(parts(m)) = m
            OBVIOUS
        <3> HIDE DEF b, part
        <3> QED BY <3>1, <3>2
    <2> HIDE DEF parts, k, c
    <2>5. b \in Seq(S)
        <3>1. \A i \in (k + 1)..c : p[i] \in S
            <4> HIDE DEF n
            <4>1. \A i \in (k + 1)..c : i \in 1..n
                BY <1>1, <2>2, <2>3
            <4> QED BY <4>1 DEF n
        <3>2. k + 1 \in Int /\ c \in Int
            BY <1>1, <2>2, <2>3
        <3> QED BY <3>1, <3>2, SubSeqProperties
    <2>6. SubSeq(p, 1, k) \o b = SubSeq(p, 1, c)
        <3>1. 1 \in 1..(Len(p) + 1) /\ k \in (1 - 1)..Len(p) /\ c \in k..Len(p)
            BY <1>1, <2>2, <2>3
        <3> QED BY <3>1, ConcatAdjacentSubSeq
    <2> HIDE DEF b
    <2>7. FlattenSeq(parts(m + 1)) = SubSeq(p, 1, c)
        <3>1. FlattenSeq(parts(m + 1)) = FlattenSeq(parts(m)) \o b
            BY <2>1, <2>4, <2>5, FlattenAppend
        <3> QED BY <2>1, <2>2, <2>6, <3>1
    <2>8. parts(m + 1) \in Seq(Seq(S))
        <3>1. \A R : \A s \in Seq(R), e \in R : Append(s, e) \in Seq(R)
            OBVIOUS
        <3> QED BY <2>1, <2>4, <2>5, <3>1, Zenon
    <2> QED BY <2>7, <2>8 DEF c
<1>7. count \in T
    <2> HIDE DEF T
    <2> QED BY <1>3, <1>5, <1>6, InductionOnNat
<1>8. cut(count) = n
    <2>1. count * size \in Nat
        BY <1>3, <1>4
    <2> HIDE DEF n
    <2> QED BY <1>1, <1>3, <1>4, <2>1
<1>9. count <= count
    BY <1>3
<1> HIDE DEF parts
<1>10. FlattenSeq(parts(count)) = SubSeq(p, 1, Len(p))
    BY <1>7, <1>8, <1>9
<1> QED BY <1>2, <1>10, SubSeqFull

-------------------------------------------------------------------------------
(* What belongs to one trajectory                                              *)

Pair(S) == [step : S, traj : Nat]
Tagged(steps, i) == [k \in DOMAIN steps |-> [step |-> steps[k], traj |-> i]]
OfTraj(s, i) == {j \in DOMAIN s : s[j].traj = i}

LEMMA TaggedType ==
    ASSUME NEW S, NEW steps \in Seq(S), NEW i \in Nat
    PROVE  /\ Tagged(steps, i) \in Seq(Pair(S)) /\ Len(Tagged(steps, i)) = Len(steps)
           /\ \A k \in 1..Len(steps) : /\ Tagged(steps, i)[k].step = steps[k]
                                       /\ Tagged(steps, i)[k].traj = i
<1>1. DOMAIN steps = 1..Len(steps) /\ Len(steps) \in Nat /\ \A k \in 1..Len(steps) : steps[k] \in S
    OBVIOUS
<1>2. \A k \in 1..Len(steps) : [step |-> steps[k], traj |-> i] \in Pair(S)
    BY <1>1 DEF Pair
<1>3. Tagged(steps, i) \in Seq(Pair(S))
    BY <1>1, <1>2 DEF Tagged
<1> QED BY <1>1, <1>3 DEF Tagged

AllTagged(own, n) == FlattenSeq([j \in 1..n |-> Tagged(own[j], j)])
Steps(own, n, S) == \A j \in 1..n : own[j] \in Seq(S)

\* What is under i of the steps of all, each under its own number, are the steps of i.
LEMMA OwnOfTagged ==
    ASSUME NEW S, NEW n \in Nat, NEW own, Steps(own, n, S), NEW i \in 1..n
    PROVE  /\ AllTagged(own, n) \in Seq(Pair(S))
           /\ Pick(AllTagged(own, n), OfTraj(AllTagged(own, n), i)) = Tagged(own[i], i)
<1> DEFINE parts(m) == [j \in 1..m |-> Tagged(own[j], j)]
           Mine(s) == Pick(s, OfTraj(s, i))
           T == {m \in Nat : m <= n =>
                    /\ parts(m) \in Seq(Seq(Pair(S)))
                    /\ i <= m => Mine(FlattenSeq(parts(m))) = Tagged(own[i], i)
                    /\ i > m => Mine(FlattenSeq(parts(m))) = <<>>}
<1>1. 0 \in T
    <2>1. parts(0) = <<>>
        OBVIOUS
    <2>2. <<>> \in Seq(Seq(Pair(S)))
        OBVIOUS
    <2> HIDE DEF parts
    <2>3. FlattenSeq(parts(0)) = <<>>
        BY <2>1, FlattenEmpty, Zenon
    <2>4. Mine(FlattenSeq(parts(0))) = <<>>
        BY <2>3, PickEmpty, Zenon
    <2>5. parts(0) \in Seq(Seq(Pair(S)))
        BY <2>1, <2>2, Zenon
    <2>6. ~(i <= 0)
        OBVIOUS
    <2> HIDE DEF Mine
    <2> QED BY <2>4, <2>5, <2>6
<1>2. ASSUME NEW m \in Nat, m \in T PROVE m + 1 \in T
    <2> SUFFICES ASSUME m + 1 <= n
                 PROVE  /\ parts(m + 1) \in Seq(Seq(Pair(S)))
                        /\ i <= m + 1 => Mine(FlattenSeq(parts(m + 1))) = Tagged(own[i], i)
                        /\ i > m + 1 => Mine(FlattenSeq(parts(m + 1))) = <<>>
        <3>1. m + 1 \in Nat
            OBVIOUS
        <3> HIDE DEF parts, Mine
        <3> QED BY <3>1
    <2> DEFINE a == FlattenSeq(parts(m))
               b == Tagged(own[m + 1], m + 1)
               c == a \o b
    <2>1. /\ parts(m) \in Seq(Seq(Pair(S)))
          /\ i <= m => Mine(a) = Tagged(own[i], i)
          /\ i > m => Mine(a) = <<>>
        <3>1. m <= n
            OBVIOUS
        <3> HIDE DEF parts, Mine
        <3> QED BY <1>2, <3>1
    <2>2. /\ b \in Seq(Pair(S)) /\ \A k \in 1..Len(b) : b[k].traj = m + 1
        <3>1. own[m + 1] \in Seq(S) /\ m + 1 \in Nat
            BY DEF Steps
        <3> QED BY <3>1, TaggedType
    <2>3. parts(m + 1) = Append(parts(m), b)
        <3>1. 1..(m + 1) = (1..m) \cup {m + 1} /\ Len(parts(m)) = m
            OBVIOUS
        <3> HIDE DEF b
        <3> QED BY <3>1 DEF b
    <2> HIDE DEF parts, b
    <2>4. a \in Seq(Pair(S)) /\ FlattenSeq(parts(m + 1)) = c
        BY <2>1, <2>2, <2>3, FlattenType, FlattenAppend
    <2> HIDE DEF a
    <2>5. Pick(c, OfTraj(c, i)) = Pick(a, OfTraj(c, i)) \o Pick(b, OfTraj(b, i))
        <3>1. Concatenates(c, a, b, Pair(S))
            BY <2>2, <2>4, JoinedAt
        <3>2. \A k \in 1..Len(b) : k \in OfTraj(b, i) <=> Len(a) + k \in OfTraj(c, i)
            <4> SUFFICES ASSUME NEW k \in 1..Len(b)
                         PROVE  k \in OfTraj(b, i) <=> Len(a) + k \in OfTraj(c, i)
                OBVIOUS
            <4> HIDE DEF c
            <4>1. c[Len(a) + k] = b[k] /\ c \in Seq(Pair(S)) /\ Len(c) = Len(a) + Len(b)
                BY <3>1 DEF Concatenates
            <4>2. DOMAIN c = 1..Len(c) /\ DOMAIN b = 1..Len(b)
                BY <2>2, <4>1
            <4>3. Len(a) \in Nat /\ Len(b) \in Nat
                BY <2>2, <2>4
            <4>4. Len(a) + k \in 1..Len(c)
                BY <4>1, <4>3
            <4> QED BY <4>1, <4>2, <4>4 DEF OfTraj
        <3> QED BY <2>2, <2>4, <3>2, PickConcat
    <2>6. Pick(a, OfTraj(c, i)) = Pick(a, OfTraj(a, i))
        <3>1. Concatenates(c, a, b, Pair(S))
            BY <2>2, <2>4, JoinedAt
        <3> HIDE DEF c
        <3>2. \A k \in 1..Len(a) : k \in OfTraj(c, i) <=> k \in OfTraj(a, i)
            <4> SUFFICES ASSUME NEW k \in 1..Len(a)
                         PROVE  k \in OfTraj(c, i) <=> k \in OfTraj(a, i)
                OBVIOUS
            <4>1. c[k] = a[k] /\ c \in Seq(Pair(S)) /\ Len(c) = Len(a) + Len(b)
                BY <3>1 DEF Concatenates
            <4>2. DOMAIN c = 1..Len(c) /\ DOMAIN a = 1..Len(a)
                BY <2>4, <4>1
            <4>3. Len(a) \in Nat /\ Len(b) \in Nat
                BY <2>2, <2>4
            <4>4. k \in 1..Len(c)
                BY <4>1, <4>3
            <4> QED BY <4>1, <4>2, <4>4 DEF OfTraj
        <3> QED BY <2>4, <3>2, PickAgree
    <2> HIDE DEF c
    <2>7. Pick(b, OfTraj(b, i)) = IF i = m + 1 THEN b ELSE <<>>
        <3>1. DOMAIN b = 1..Len(b)
            BY <2>2
        <3>2. CASE i = m + 1
            <4>1. \A k \in 1..Len(b) : k \in OfTraj(b, i)
                BY <2>2, <3>1, <3>2 DEF OfTraj
            <4> QED BY <2>2, <3>2, <4>1, PickAll
        <3>3. CASE i # m + 1
            <4>1. \A k \in 1..Len(b) : k \notin OfTraj(b, i)
                BY <2>2, <3>1, <3>3 DEF OfTraj
            <4>2. Pick(b, OfTraj(b, i)) = <<>>
                BY <2>2, <4>1, PickNone
            <4> QED BY <3>3, <4>2
        <3> QED BY <3>2, <3>3
    <2>8. Mine(FlattenSeq(parts(m + 1))) = Mine(a) \o IF i = m + 1 THEN b ELSE <<>>
        BY <2>4, <2>5, <2>6, <2>7
    <2>9. Mine(a) \in Seq(Pair(S))
        BY <2>4, PickType
    <2> HIDE DEF Mine
    <2>10. \A s \in Seq(Pair(S)) : s \o <<>> = s /\ <<>> \o s = s
        BY ConcatEmptySeq
    <2>11. parts(m + 1) \in Seq(Seq(Pair(S)))
        <3>1. \A R : \A s \in Seq(R), e \in R : Append(s, e) \in Seq(R)
            OBVIOUS
        <3> QED BY <2>1, <2>2, <2>3, <3>1, Zenon
    <2>12. CASE i = m + 1
        <3>1. i > m /\ ~(i <= m) /\ ~(i > m + 1)
            BY <2>12
        <3>2. Mine(FlattenSeq(parts(m + 1))) = b
            BY <2>1, <2>2, <2>8, <2>10, <2>12, <3>1
        <3>3. b = Tagged(own[i], i)
            BY <2>12 DEF b
        <3> QED BY <2>11, <3>1, <3>2, <3>3
    <2>13. CASE i # m + 1
        <3>1. (i <= m <=> i <= m + 1) /\ (i > m <=> i > m + 1)
            BY <2>13
        <3>2. Mine(FlattenSeq(parts(m + 1))) = Mine(a)
            BY <2>8, <2>9, <2>10, <2>13
        <3> QED BY <2>1, <2>11, <3>1, <3>2
    <2> QED BY <2>12, <2>13
<1>3. n \in T
    <2> HIDE DEF T
    <2> QED BY <1>1, <1>2, InductionOnNat
<1>4. n <= n /\ i <= n
    OBVIOUS
<1> HIDE DEF parts
<1>5. parts(n) \in Seq(Seq(Pair(S))) /\ Mine(FlattenSeq(parts(n))) = Tagged(own[i], i)
    <2> HIDE DEF Mine
    <2> QED BY <1>3, <1>4
<1>6. FlattenSeq(parts(n)) \in Seq(Pair(S))
    BY <1>5, FlattenType
<1> QED BY <1>5, <1>6 DEF parts, AllTagged

-------------------------------------------------------------------------------
(* Segments                                                                    *)

Word         == Segment \cup Piece
SearchOutput == {Search(q, t) : q \in Query, t \in Text}
AnyReply     == UNION {Reply(q) : q \in Query}
Block        == [says : {"result"}, reply : AnyReply]
Summarised   == [says : {"summary"}, query : Query, whole : BOOLEAN, block : Block]
Final        == [says : {"final"}, label : Label, closed : BOOLEAN]
Entry        == [output : SearchOutput, block : Block, summary : Summarised]
StepRecord   == [prompt : Seq(Word), output : Segment, generated : Segment,
                 forced_final : BOOLEAN]

LEMMA SegmentParts ==
    /\ Segment = Output \cup {FinalPrefix} \cup Final \cup Block \cup Summarised
    /\ SearchOutput \subseteq Output
BY DEF Segment, Final, Block, Summarised, AnyReply, SearchOutput, Output

LEMMA OutputKinds ==
    ASSUME NEW o \in Output
    PROVE  /\ o \in Segment /\ ~IsBlock(o)
           /\ o.says \in {"search", "open", "answer", "think", "empty"}
           /\ o.says = "search" => o \in SearchOutput /\ o.query \in Query
           /\ o.says = "think" => o.text \in Text
           /\ o.says = "answer" => o.label \in Label
           /\ o = Empty <=> o.says = "empty"
<1>1. CASE \E q \in Query, t \in Text : o = Search(q, t)
    BY <1>1, SegmentParts DEF Search, SearchOutput, IsBlock, Empty
<1>2. CASE \E t \in Text \ {<<>>} : o = Think(t)
    BY <1>2, SegmentParts DEF Think, IsBlock, Empty
<1>3. CASE \E l \in Label : o = Answer(l)
    BY <1>3, SegmentParts DEF Answer, IsBlock, Empty
<1>4. CASE o = OpenAnswer \/ o = Empty
    BY <1>4, SegmentParts DEF OpenAnswer, Empty, IsBlock
<1> QED BY <1>1, <1>2, <1>3, <1>4 DEF Output

LEMMA SegmentKinds ==
    ASSUME NEW x \in Segment
    PROVE  /\ x.says \in {"search", "open", "answer", "think", "empty"}
                         \cup {"prefix", "final", "result", "summary"}
           /\ x.says \in {"search", "open", "answer", "think", "empty"} => x \in Output
           /\ x.says = "final" => x \in Final
           /\ x.says = "result" => x \in Block
           /\ x.says = "summary" => x \in Summarised
<1>1. CASE x \in Output
    BY <1>1, OutputKinds
<1>2. CASE x = FinalPrefix
    BY <1>2 DEF FinalPrefix
<1>3. CASE x \in Final
    BY <1>3 DEF Final
<1>4. CASE x \in Block
    BY <1>4 DEF Block
<1>5. CASE x \in Summarised
    BY <1>5 DEF Summarised
<1> QED BY <1>1, <1>2, <1>3, <1>4, <1>5, SegmentParts

LEMMA SearchKinds ==
    ASSUME NEW o \in SearchOutput
    PROVE  o \in Output /\ o \in Segment /\ o.says = "search" /\ o.query \in Query /\ ~IsBlock(o)
<1>1. PICK q \in Query, t \in Text : o = Search(q, t)
    BY DEF SearchOutput
<1> QED BY <1>1, SegmentParts DEF Search, IsBlock

LEMMA ReplyKinds ==
    ASSUME NEW q \in Query, NEW reply \in Reply(q)
    PROVE  /\ reply \in AnyReply /\ reply # NoReply
           /\ ResultBlock(reply) \in Block /\ ResultBlock(reply) \in Segment
           /\ IsBlock(ResultBlock(reply))
           /\ reply.found \in BOOLEAN /\ (reply.found => reply.query = q)
<1>1. reply \in AnyReply
    BY DEF AnyReply
<1>2. reply.found \in BOOLEAN /\ (reply.found => reply.query = q)
    <2>1. CASE reply = [found |-> TRUE, query |-> q]
        BY <2>1
    <2>2. CASE \E n \in BOOLEAN : reply = [found |-> FALSE, names |-> n]
        BY <2>2
    <2> QED BY <2>1, <2>2 DEF Reply
<1>3. reply # NoReply
    <2>1. DOMAIN NoReply = {"found", "pending"}
        BY DEF NoReply
    <2>2. DOMAIN reply = {"found", "names"} \/ DOMAIN reply = {"found", "query"}
        BY DEF Reply
    <2> QED BY <2>1, <2>2
<1>4. ResultBlock(reply) \in Block /\ IsBlock(ResultBlock(reply))
    BY <1>1 DEF ResultBlock, Block, IsBlock
<1> QED BY <1>1, <1>2, <1>3, <1>4, SegmentParts

\* Summary, for the summary mode of the launch.
SummaryIn(mode, q, block) ==
    LET truncates == mode = "truncate" \/ q \in UnsummedQuery
        short == ~block.reply.found \/ q \in ShortQuery
    IN  [says |-> "summary", query |-> q, block |-> block, whole |-> truncates /\ short]

\* The text with the searches whose results come before place last compacted.
Kept(text, last, i)  == ~(i + 1 < last /\ IsBlock(text[i + 1]))
Shown(mode, text, last, i) ==
    IF i < last /\ IsBlock(text[i]) THEN SummaryIn(mode, text[i - 1].query, text[i]) ELSE text[i]
ContextTo(mode, text, last) ==
    Pick([i \in 1..Len(text) |-> Shown(mode, text, last, i)],
         {i \in 1..Len(text) : Kept(text, last, i)})

\* The text with the latest result shown, and with every result compacted.
Context(mode, text) == ContextTo(mode, text, LastBlock(text))
Compacted(mode, text) == ContextTo(mode, text, Len(text) + 1)

LEMMA ContextIsIterative ==
    \A text : IterativeContext(text) = Context(args.summary_mode, text)
BY DEF IterativeContext, Context, ContextTo, Kept, Shown, Summary, SummaryIn

\* Every result of the text stands behind the search it answers.
Answers(text, i) ==
    /\ i > 1 /\ text[i - 1] \in SearchOutput
    /\ text[i].reply.found => text[i].reply.query = text[i - 1].query
Answered(text) == \A i \in 1..Len(text) : IsBlock(text[i]) => Answers(text, i)

LEMMA AnsweredAppend ==
    ASSUME NEW t \in Seq(Segment), Answered(t), NEW x \in Segment,
           IsBlock(x) => Len(t) > 0 /\ t[Len(t)] \in SearchOutput
                         /\ (x.reply.found => x.reply.query = t[Len(t)].query)
    PROVE  Answered(Append(t, x))
<1> DEFINE u == Append(t, x)
           n == Len(t)
<1>1. n \in Nat /\ Len(u) = n + 1 /\ u[n + 1] = x /\ \A i \in 1..n : u[i] = t[i]
    OBVIOUS
<1> HIDE DEF u, n
<1>2. ASSUME NEW i \in 1..(n + 1), IsBlock(u[i]) PROVE Answers(u, i)
    <2>1. CASE i \in 1..n
        <3>1. Answers(t, i)
            BY <1>1, <1>2, <2>1 DEF Answered, n
        <3>2. i - 1 \in 1..n
            BY <1>1, <2>1, <3>1 DEF Answers
        <3> QED BY <1>1, <2>1, <3>1, <3>2 DEF Answers
    <2>2. CASE i = n + 1
        <3>1. n > 0 /\ i > 1 /\ i - 1 = n /\ n \in 1..n
            BY <1>1, <1>2, <2>2 DEF n
        <3> QED BY <1>1, <1>2, <2>2, <3>1 DEF Answers, n
    <2> QED BY <1>1, <2>1, <2>2
<1> QED BY <1>1, <1>2 DEF Answered, u

LEMMA SummaryInType ==
    ASSUME NEW mode, NEW q \in Query, NEW b \in Block
    PROVE  SummaryIn(mode, q, b) \in Summarised
BY DEF SummaryIn, Summarised, Block, AnyReply, Reply

LEMMA ShownType ==
    ASSUME NEW mode, NEW t \in Seq(Segment), Answered(t), NEW last, NEW i \in 1..Len(t)
    PROVE  Shown(mode, t, last, i) \in Segment
<1>1. t[i] \in Segment
    OBVIOUS
<1>2. CASE i < last /\ IsBlock(t[i])
    <2>1. t[i] \in Block
        BY <1>1, <1>2, SegmentKinds DEF IsBlock
    <2>2. t[i - 1] \in SearchOutput
        BY <1>2 DEF Answered, Answers
    <2>3. t[i - 1].query \in Query
        BY <2>2, SearchKinds
    <2>4. SummaryIn(mode, t[i - 1].query, t[i]) \in Summarised
        BY <2>1, <2>3, SummaryInType
    <2> QED BY <1>2, <2>4, SegmentParts DEF Shown
<1> QED BY <1>1, <1>2 DEF Shown

LEMMA ContextType ==
    ASSUME NEW mode, NEW t \in Seq(Segment), Answered(t), NEW last
    PROVE  /\ [i \in 1..Len(t) |-> Shown(mode, t, last, i)] \in Seq(Segment)
           /\ ContextTo(mode, t, last) \in Seq(Segment)
<1>1. [i \in 1..Len(t) |-> Shown(mode, t, last, i)] \in Seq(Segment)
    <2>1. Len(t) \in Nat /\ \A i \in 1..Len(t) : Shown(mode, t, last, i) \in Segment
        BY ShownType
    <2> QED BY <2>1, IsASeq
<1> QED BY <1>1, PickType DEF ContextTo

\* All of t as it is shown, the places left out included.
ShownText(mode, t, last) == [i \in 1..Len(t) |-> Shown(mode, t, last, i)]

\* The same blocks of t lie before l1 as before l2.
SameBlocksBefore(t, l1, l2) == \A i \in 1..Len(t) : IsBlock(t[i]) => (i < l1 <=> i < l2)

\* What is shown of the first places does not depend on what comes later.
LEMMA ShownAppend ==
    ASSUME NEW mode, NEW t \in Seq(Segment), NEW x \in Segment, Answered(t),
           NEW l1 \in Int, NEW l2 \in Int, SameBlocksBefore(t, l1, l2)
    PROVE  ShownText(mode, Append(t, x), l2) =
               Append(ShownText(mode, t, l1), Shown(mode, Append(t, x), l2, Len(t) + 1))
<1> DEFINE u == Append(t, x)
           n == Len(t)
           e == Shown(mode, u, l2, n + 1)
           f == [i \in 1..n |-> Shown(mode, t, l1, i)]
           g == [i \in 1..(n + 1) |-> Shown(mode, u, l2, i)]
<1>1. n \in Nat /\ Len(u) = n + 1 /\ u[n + 1] = x /\ \A i \in 1..n : u[i] = t[i]
    OBVIOUS
<1>2. ASSUME NEW i \in 1..n PROVE Shown(mode, u, l2, i) = Shown(mode, t, l1, i)
    <2> HIDE DEF u, n
    <2>1. CASE IsBlock(t[i])
        <3>1. i > 1
            BY <2>1 DEF Answered, Answers, n
        <3>2. i - 1 \in 1..n /\ (i < l1 <=> i < l2)
            BY <1>1, <2>1, <3>1 DEF n, SameBlocksBefore
        <3> QED BY <1>1, <3>2 DEF Shown
    <2>2. CASE ~IsBlock(t[i])
        BY <1>1, <2>2 DEF Shown
    <2> QED BY <2>1, <2>2
<1> HIDE DEF u, e, n
<1>3. f \in Seq(Segment) /\ Len(f) = n
    <2>1. f \in Seq(Segment)
        BY ContextType DEF n
    <2> QED BY <1>1, <2>1
<1>4. DOMAIN g = 1..(n + 1) /\ DOMAIN Append(f, e) = 1..(n + 1)
    BY <1>1, <1>3
<1>5. ASSUME NEW i \in 1..(n + 1) PROVE g[i] = Append(f, e)[i]
    <2>1. CASE i \in 1..n
        BY <1>1, <1>2, <1>3, <2>1
    <2>2. CASE i = n + 1
        <3> HIDE DEF f
        <3>1. Append(f, e)[n + 1] = e
            BY <1>3
        <3> QED BY <2>2, <3>1 DEF e
    <2> QED BY <1>1, <2>1, <2>2
<1>6. g = Append(f, e)
    <2>1. g = [i \in 1..(n + 1) |-> g[i]] /\ Append(f, e) = [i \in 1..(n + 1) |-> Append(f, e)[i]]
        BY <1>1, <1>3, <1>4
    <2> QED BY <1>5, <2>1
<1> QED BY <1>1, <1>6 DEF u, e, n, ShownText

\* Nothing of t, shown up to l1, nor x after it, is left out for being before l2.
GrowsBy(t, x, l1, l2) ==
    /\ l1 <= Len(t) + 1 /\ l2 <= Len(t) + 2
    /\ SameBlocksBefore(t, l1, l2)
    /\ IsBlock(x) => l2 <= Len(t) + 1

\* A text that is kept to its end grows as it is shown.
LEMMA ContextAppend ==
    ASSUME NEW mode, NEW t \in Seq(Segment), NEW x \in Segment,
           Answered(t), Answered(Append(t, x)),
           NEW l1 \in Int, NEW l2 \in Int, GrowsBy(t, x, l1, l2)
    PROVE  ContextTo(mode, Append(t, x), l2) = Append(ContextTo(mode, t, l1), x)
<1> DEFINE u == Append(t, x)
           n == Len(t)
           f == [i \in 1..n |-> Shown(mode, t, l1, i)]
           K == {i \in 1..n : Kept(t, l1, i)}
           L == {i \in 1..(n + 1) : Kept(u, l2, i)}
<1>1. n \in Nat /\ Len(u) = n + 1 /\ u[n + 1] = x /\ \A i \in 1..n : u[i] = t[i]
    OBVIOUS
<1> USE DEF GrowsBy, SameBlocksBefore
<1> HIDE DEF u, n
<1>2. Shown(mode, u, l2, n + 1) = x
    BY <1>1 DEF Shown, n
<1>3. f \in Seq(Segment) /\ Len(f) = n
    BY <1>1, ContextType DEF n
<1>4. [i \in 1..(n + 1) |-> Shown(mode, u, l2, i)] = Append(f, x)
    <2>1. [i \in 1..Len(u) |-> Shown(mode, u, l2, i)]
              = Append(f, Shown(mode, u, l2, n + 1))
        <3>1. SameBlocksBefore(t, l1, l2)
            OBVIOUS
        <3>2. ShownText(mode, u, l2) = Append(ShownText(mode, t, l1), Shown(mode, u, l2, n + 1))
            BY <3>1, ShownAppend DEF u, n
        <3> QED BY <3>2 DEF ShownText, n
    <2> QED BY <1>1, <1>2, <2>1
<1>5. n + 1 \in L
    BY <1>1 DEF Kept, n
<1>6. ASSUME NEW i \in 1..n PROVE i \in K <=> i \in L
    <2>1. i \in 1..(n + 1) /\ (i + 1 \in 1..n \/ i + 1 = n + 1)
        BY <1>1
    <2>2. CASE i + 1 \in 1..n
        <3>1. u[i + 1] = t[i + 1] /\ (IsBlock(t[i + 1]) => (i + 1 < l1 <=> i + 1 < l2))
            BY <1>1, <2>2 DEF n
        <3> QED BY <2>1, <3>1 DEF Kept
    <2>3. CASE i + 1 = n + 1
        <3>1. Kept(u, l2, i)
            BY <1>1, <2>3 DEF Kept, n
        <3>2. Kept(t, l1, i)
            BY <1>1, <2>3 DEF Kept, n
        <3> QED BY <2>1, <3>1, <3>2
    <2> QED BY <2>1, <2>2, <2>3
<1> HIDE DEF f, K, L
<1>7. Pick(Append(f, x), L) = Append(Pick(f, L), x) /\ Pick(f, L) = Pick(f, K)
    BY <1>3, <1>5, <1>6, PickAppend, PickAgree
<1> QED BY <1>1, <1>4, <1>7 DEF ContextTo, u, n, f, K, L

LEMMA LastBlockIsLast ==
    ASSUME NEW t \in Seq(Segment)
    PROVE  /\ LastBlock(t) \in 0..Len(t)
           /\ \A i \in 1..Len(t) : IsBlock(t[i]) => i <= LastBlock(t)
           /\ LastBlock(t) # 0 => IsBlock(t[LastBlock(t)])
<1>1. Len(t) \in Nat /\ DOMAIN t = 1..Len(t) /\ Blocks(t) \in SUBSET (1..Len(t))
    BY DEF Blocks
<1>2. CASE Blocks(t) = {}
    BY <1>1, <1>2 DEF LastBlock, Blocks
<1>3. CASE Blocks(t) # {}
    <2>1. Max(Blocks(t)) \in Blocks(t) /\ \A i \in Blocks(t) : i <= Max(Blocks(t))
        BY <1>1, <1>3, MaxIsLargest
    <2> QED BY <1>1, <1>3, <2>1 DEF LastBlock, Blocks
<1> QED BY <1>2, <1>3

LEMMA LastBlockAppend ==
    ASSUME NEW t \in Seq(Segment), NEW x \in Segment
    PROVE  LastBlock(Append(t, x)) = IF IsBlock(x) THEN Len(t) + 1 ELSE LastBlock(t)
<1> DEFINE u == Append(t, x)
           n == Len(t)
<1>1. /\ u \in Seq(Segment) /\ n \in Nat /\ Len(u) = n + 1 /\ u[n + 1] = x
      /\ \A i \in 1..n : u[i] = t[i]
    OBVIOUS
<1> HIDE DEF u, n
<1>2. /\ LastBlock(u) \in 0..(n + 1)
      /\ \A i \in 1..(n + 1) : IsBlock(u[i]) => i <= LastBlock(u)
      /\ LastBlock(u) # 0 => IsBlock(u[LastBlock(u)])
    BY <1>1, LastBlockIsLast
<1>3. /\ LastBlock(t) \in 0..n
      /\ \A i \in 1..n : IsBlock(t[i]) => i <= LastBlock(t)
      /\ LastBlock(t) # 0 => IsBlock(t[LastBlock(t)])
    BY LastBlockIsLast DEF n
<1>4. CASE IsBlock(x)
    <2>1. n + 1 <= LastBlock(u)
        BY <1>1, <1>2, <1>4
    <2> QED BY <1>1, <1>2, <1>4, <2>1 DEF u, n
<1>5. CASE ~IsBlock(x)
    <2>1. LastBlock(u) <= LastBlock(t)
        BY <1>1, <1>2, <1>3, <1>5
    <2>2. LastBlock(t) <= LastBlock(u)
        BY <1>1, <1>2, <1>3
    <2> QED BY <1>1, <1>2, <1>3, <1>5, <2>1, <2>2 DEF u, n
<1> QED BY <1>4, <1>5

\* What is said is shown as it was said.
LEMMA ContextOfSaying ==
    ASSUME NEW mode, NEW t \in Seq(Segment), NEW x \in Segment, ~IsBlock(x), Answered(t)
    PROVE  /\ Context(mode, Append(t, x)) = Append(Context(mode, t), x)
           /\ Compacted(mode, Append(t, x)) = Append(Compacted(mode, t), x)
<1>1. Answered(Append(t, x)) /\ Len(t) \in Nat /\ Len(Append(t, x)) = Len(t) + 1
    BY AnsweredAppend
<1>2. LastBlock(t) \in 0..Len(t) /\ LastBlock(Append(t, x)) = LastBlock(t)
    BY LastBlockIsLast, LastBlockAppend
<1>3. ContextTo(mode, Append(t, x), LastBlock(t)) = Append(ContextTo(mode, t, LastBlock(t)), x)
    <2> DEFINE l == LastBlock(t)
    <2>1. l \in Int /\ GrowsBy(t, x, l, l)
        BY <1>1, <1>2 DEF GrowsBy, SameBlocksBefore
    <2> HIDE DEF l
    <2>2. ContextTo(mode, Append(t, x), l) = Append(ContextTo(mode, t, l), x)
        BY <1>1, <2>1, ContextAppend
    <2> QED BY <2>2 DEF l
<1>4. ContextTo(mode, Append(t, x), Len(t) + 2) = Append(ContextTo(mode, t, Len(t) + 1), x)
    <2> DEFINE k == Len(t) + 1
               l == Len(t) + 2
    <2>1. k \in Int /\ l \in Int /\ GrowsBy(t, x, k, l)
        BY <1>1 DEF GrowsBy, SameBlocksBefore
    <2> HIDE DEF k, l
    <2>2. ContextTo(mode, Append(t, x), l) = Append(ContextTo(mode, t, k), x)
        BY <1>1, <2>1, ContextAppend, ZenonT(60)
    <2> QED BY <2>2 DEF k, l
<1>5. (Len(t) + 1) + 1 = Len(t) + 2
    BY <1>1
<1> QED BY <1>1, <1>2, <1>3, <1>4, <1>5 DEF Context, Compacted

\* The latest result is shown whole, behind the text with every earlier one
\* compacted; compacted as well, it leaves its summary and takes its search along.
LEMMA ContextOfResult ==
    ASSUME NEW mode, NEW t \in Seq(Segment), NEW o \in SearchOutput, NEW x \in Block,
           Answered(t), Answered(Append(Append(t, o), x))
    PROVE  /\ Context(mode, Append(Append(t, o), x)) =
                  Append(Append(Compacted(mode, t), o), x)
           /\ Compacted(mode, Append(Append(t, o), x)) =
                  Append(Compacted(mode, t), SummaryIn(mode, o.query, x))
<1> DEFINE n == Len(t)
           u == Append(t, o)
           v == Append(u, x)
<1>1. o \in Segment /\ ~IsBlock(o) /\ x \in Segment /\ IsBlock(x)
    BY SearchKinds, SegmentParts DEF Block, IsBlock
<1>2. /\ n \in Nat /\ u \in Seq(Segment) /\ Len(u) = n + 1 /\ v \in Seq(Segment) /\ Len(v) = n + 2
      /\ v[n + 1] = o /\ v[n + 2] = x /\ \A i \in 1..n : v[i] = t[i]
    BY <1>1
<1>3. Answered(u) /\ Answered(v) /\ Compacted(mode, u) = Append(Compacted(mode, t), o)
    BY <1>1, AnsweredAppend, ContextOfSaying
<1>4. Context(mode, v) = Append(Compacted(mode, u), x)
    <2>1. LastBlock(v) = n + 2
        <3>1. LastBlock(v) = Len(u) + 1
            BY <1>1, <1>2, LastBlockAppend
        <3> QED BY <1>2, <3>1
    <2>2. ContextTo(mode, v, n + 2) = Append(ContextTo(mode, u, n + 2), x)
        <3> DEFINE l == n + 2
        <3>1. l \in Int /\ GrowsBy(u, x, l, l)
            BY <1>2 DEF GrowsBy, SameBlocksBefore
        <3> HIDE DEF u, n, l
        <3>2. ContextTo(mode, v, l) = Append(ContextTo(mode, u, l), x)
            BY <1>1, <1>2, <1>3, <3>1, ContextAppend, ZenonT(60) DEF v
        <3> QED BY <3>2 DEF l
    <2>3. (n + 1) + 1 = n + 2
        BY <1>2
    <2> QED BY <1>2, <2>1, <2>2, <2>3 DEF Context, Compacted
<1>5. Compacted(mode, v) = Append(Compacted(mode, t), SummaryIn(mode, o.query, x))
    <2> DEFINE f == [i \in 1..n |-> Shown(mode, t, n + 1, i)]
               K == {i \in 1..n : Kept(t, n + 1, i)}
               L == {i \in 1..(n + 2) : Kept(v, n + 3, i)}
               z == SummaryIn(mode, o.query, x)
    <2>1. f \in Seq(Segment) /\ Len(f) = n
        <3>1. f \in Seq(Segment)
            BY ContextType
        <3> QED BY <1>2, <3>1
    <2>2. z \in Segment
        BY SearchKinds, SummaryInType, SegmentParts
    <2> HIDE DEF u, v, n, z
    <2>3. Shown(mode, v, n + 3, n + 2) = z /\ Shown(mode, u, n + 3, n + 1) = o
        <3>1. u[n + 1] = o /\ (n + 2) - 1 = n + 1 /\ n + 2 < n + 3
            BY <1>2 DEF u, n
        <3> QED BY <1>1, <1>2, <3>1 DEF Shown, z
    <2>4. [i \in 1..(n + 1) |-> Shown(mode, u, n + 3, i)] = Append(f, o)
        <3> DEFINE k == n + 1
                   m == n + 3
        <3>1. k \in Int /\ m \in Int /\ o \in Segment /\ SameBlocksBefore(t, k, m)
            BY <1>1, <1>2 DEF n, SameBlocksBefore
        <3> HIDE DEF k, m
        <3>2. ShownText(mode, u, m) = Append(ShownText(mode, t, k), Shown(mode, u, m, Len(t) + 1))
            BY <3>1, ShownAppend DEF u
        <3>3. ShownText(mode, t, k) = f
            BY DEF ShownText, f, k, n
        <3>4. Len(u) = n + 1 /\ Shown(mode, u, m, Len(t) + 1) = o
            BY <1>2, <2>3 DEF m, n
        <3>5. ShownText(mode, u, m) = Append(f, o)
            BY <3>2, <3>3, <3>4
        <3> QED BY <3>4, <3>5 DEF ShownText, m
    <2>5. [i \in 1..(n + 2) |-> Shown(mode, v, n + 3, i)] = Append(Append(f, o), z)
        <3> DEFINE m == n + 3
        <3>1. /\ m \in Int /\ u \in Seq(Segment) /\ x \in Segment /\ Answered(u)
              /\ SameBlocksBefore(u, m, m)
            BY <1>1, <1>2, <1>3 DEF SameBlocksBefore
        <3> HIDE DEF m
        <3>2. ShownText(mode, v, m) = Append(ShownText(mode, u, m), Shown(mode, v, m, Len(u) + 1))
            BY <3>1, ShownAppend DEF v
        <3>3. Len(u) = n + 1 /\ Len(u) + 1 = n + 2 /\ Len(v) = n + 2
            BY <1>2
        <3>4. ShownText(mode, u, m) = Append(f, o) /\ Shown(mode, v, m, Len(u) + 1) = z
            BY <2>3, <2>4, <3>3 DEF m, ShownText
        <3>5. ShownText(mode, v, m) = Append(Append(f, o), z)
            BY <3>2, <3>4
        <3> QED BY <3>3, <3>5 DEF ShownText, m
    <2>6. n + 1 \notin L /\ n + 2 \in L
        BY <1>1, <1>2 DEF Kept
    <2>7. ASSUME NEW i \in 1..n PROVE i \in K <=> i \in L
        <3>1. i + 1 \in 1..n \/ i + 1 = n + 1
            BY <1>2
        <3> QED BY <1>1, <1>2, <3>1 DEF Kept
    <2> HIDE DEF f, K, L
    <2>8. Append(f, o) \in Seq(Segment) /\ Len(Append(f, o)) = n + 1 /\ (n + 1) + 1 = n + 2
        BY <1>1, <1>2, <2>1
    <2>9. Pick(Append(Append(f, o), z), L) = Append(Pick(Append(f, o), L), z)
        <3> DEFINE w == Append(f, o)
        <3>1. w \in Seq(Segment) /\ Len(w) + 1 \in L
            BY <2>6, <2>8
        <3> HIDE DEF w
        <3>2. Pick(Append(w, z), L) = Append(Pick(w, L), z)
            BY <2>2, <3>1, PickAppend
        <3> QED BY <3>2 DEF w
    <2>10. Pick(Append(f, o), L) = Pick(f, L) /\ Pick(f, L) = Pick(f, K)
        BY <1>1, <2>1, <2>6, <2>7, PickAppend, PickAgree
    <2>11. /\ ContextTo(mode, v, n + 3) = Pick(Append(Append(f, o), z), L)
           /\ ContextTo(mode, t, n + 1) = Pick(f, K)
        BY <1>2, <2>5 DEF ContextTo, f, K, L, n
    <2>12. (n + 2) + 1 = n + 3
        BY <1>2
    <2> QED BY <1>2, <2>9, <2>10, <2>11, <2>12 DEF Compacted, z, n
<1> QED BY <1>3, <1>4, <1>5

-------------------------------------------------------------------------------
(* Words                                                                       *)

BlockFree(words) == \A i \in 1..Len(words) : ~IsBlock(words[i])

\* The word a search ends in.
Ask(q) == Search(q, <<>>)

LEMMA WordKinds ==
    /\ \A x \in Segment : x.says # "piece"
    /\ \A w \in Piece : w.says = "piece" /\ ~IsBlock(w)
    /\ Segment \subseteq Word /\ Piece \subseteq Word
<1>1. \A x \in Segment : x.says # "piece"
    BY SegmentKinds
<1> QED BY <1>1 DEF Piece, Word, IsBlock

LEMMA SearchWords ==
    ASSUME NEW o \in SearchOutput
    PROVE  /\ Words(o) = Append(o.text, Ask(o.query))
           /\ o.text \in Seq(Piece) /\ o.text \in Seq(Word)
           /\ Ask(o.query) \in Segment /\ ~IsBlock(Ask(o.query))
           /\ \A r : Ask(o.query) = Ask(r) => o.query = r
<1>1. PICK q \in Query, t \in Text : o = Search(q, t)
    BY DEF SearchOutput
<1>2. o.query = q /\ o.text = t /\ o.says = "search"
    BY <1>1 DEF Search
<1>3. Words(o) = Append(o.text, Ask(o.query))
    BY <1>2 DEF Words, Ask
<1>4. o.text \in Seq(Piece) /\ o.text \in Seq(Word)
    BY <1>2, RolloutAssumption, WordKinds
<1>5. Ask(q) \in SearchOutput
    <2> DEFINE none == <<>>
    <2>1. none \in Text
        BY RolloutAssumption, Zenon
    <2> HIDE DEF none
    <2>2. Search(q, none) \in SearchOutput
        BY <2>1 DEF SearchOutput
    <2> QED BY <2>2, Zenon DEF Ask, none
<1>6. Ask(q) \in Segment /\ ~IsBlock(Ask(q))
    BY <1>5, SearchKinds
<1>7. \A p, r : Ask(p) = Ask(r) => p = r
    <2>1. \A p, e : Search(p, e).query = p
        BY DEF Search
    <2> QED BY <2>1 DEF Ask
<1> QED BY <1>2, <1>3, <1>4, <1>6, <1>7

LEMMA SegmentWords ==
    ASSUME NEW x \in Segment
    PROVE  /\ Words(x) \in Seq(Word)
           /\ x.says \notin {"search", "think"} => Words(x) = <<x>>
           /\ ~IsBlock(x) => BlockFree(Words(x))
<1>1. x \in Word
    BY WordKinds
<1>2. CASE x.says = "search"
    <2>1. x \in SearchOutput
        BY <1>2, SegmentKinds, OutputKinds
    <2> DEFINE a == Ask(x.query)
    <2>2. /\ Words(x) = Append(x.text, a) /\ x.text \in Seq(Piece) /\ x.text \in Seq(Word)
          /\ a \in Word /\ ~IsBlock(a)
        BY <2>1, SearchWords, WordKinds
    <2> HIDE DEF a
    <2>3. Words(x) \in Seq(Word)
        BY <2>2
    <2>4. BlockFree(Words(x))
        <3>1. \A i \in 1..Len(x.text) : ~IsBlock(x.text[i])
            BY <2>2, WordKinds
        <3>2. \A i \in 1..Len(Append(x.text, a)) :
                  Append(x.text, a)[i] = a \/ (i \in 1..Len(x.text) /\ Append(x.text, a)[i] = x.text[i])
            <4> DEFINE w == x.text
            <4>1. w \in Seq(Word) /\ a \in Word
                BY <2>2
            <4> HIDE DEF w
            <4>2. /\ Len(w) \in Nat /\ Len(Append(w, a)) = Len(w) + 1 /\ Append(w, a)[Len(w) + 1] = a
                  /\ \A i \in 1..Len(w) : Append(w, a)[i] = w[i]
                BY <4>1
            <4>3. \A i \in 1..(Len(w) + 1) : i = Len(w) + 1 \/ i \in 1..Len(w)
                BY <4>2
            <4>4. \A i \in 1..Len(Append(w, a)) :
                      Append(w, a)[i] = a \/ (i \in 1..Len(w) /\ Append(w, a)[i] = w[i])
                BY <4>2, <4>3
            <4> QED BY <4>4 DEF w
        <3> QED BY <2>2, <3>1, <3>2 DEF BlockFree
    <2> QED BY <1>2, <2>3, <2>4
<1>3. CASE x.says = "think"
    <2>1. x \in Output
        BY <1>3, SegmentKinds
    <2>2. x.text \in Text
        BY <1>3, <2>1, OutputKinds
    <2>3. Words(x) = x.text
        BY <1>3 DEF Words
    <2>4. Words(x) \in Seq(Piece)
        BY <2>2, <2>3, RolloutAssumption
    <2>5. Words(x) \in Seq(Word) /\ BlockFree(Words(x))
        BY <2>4, WordKinds DEF BlockFree
    <2> QED BY <1>3, <2>5
<1>4. CASE x.says \notin {"search", "think"}
    <2>1. Words(x) = <<x>>
        BY <1>4 DEF Words
    <2>2. Len(<<x>>) = 1 /\ <<x>>[1] = x /\ <<x>> \in Seq(Word)
        BY <1>1
    <2> QED BY <1>4, <2>1, <2>2 DEF BlockFree
<1> QED BY <1>2, <1>3, <1>4

LEMMA FlatAppend ==
    ASSUME NEW t \in Seq(Segment), NEW x \in Segment
    PROVE  /\ Flat(t) \in Seq(Word)
           /\ Flat(Append(t, x)) = Flat(t) \o Words(x)
<1> DEFINE u == Append(t, x)
           ts == [i \in DOMAIN t |-> Words(t[i])]
           us == [i \in DOMAIN u |-> Words(u[i])]
<1>1. \A i \in 1..Len(t) : Words(t[i]) \in Seq(Word)
    BY SegmentWords
<1>2. Words(x) \in Seq(Word)
    BY SegmentWords
<1>3. ts \in Seq(Seq(Word)) /\ Len(ts) = Len(t)
    BY <1>1
<1>4. us = Append(ts, Words(x))
    <2>1. /\ DOMAIN u = 1..(Len(t) + 1) /\ u[Len(t) + 1] = x
          /\ \A i \in 1..Len(t) : u[i] = t[i]
        OBVIOUS
    <2> HIDE DEF u
    <2>2. us = [i \in 1..(Len(t) + 1) |-> IF i = Len(t) + 1 THEN Words(x) ELSE ts[i]]
        <3>1. \A i \in 1..(Len(t) + 1) : i = Len(t) + 1 \/ i \in 1..Len(t)
            OBVIOUS
        <3>2. \A i \in 1..(Len(t) + 1) : us[i] = IF i = Len(t) + 1 THEN Words(x) ELSE ts[i]
            BY <2>1, <3>1
        <3> QED BY <2>1, <3>2
    <2> HIDE DEF us
    <2>3. us \in Seq(Seq(Word)) /\ Len(us) = Len(t) + 1
        <3> DEFINE w == Words(x)
        <3> HIDE DEF w, ts
        <3>1. /\ w \in Seq(Word) /\ ts \in Seq(Seq(Word)) /\ Len(ts) = Len(t) /\ Len(t) + 1 \in Nat
            BY <1>2, <1>3 DEF w
        <3>2. \A i \in 1..(Len(t) + 1) : (IF i = Len(t) + 1 THEN w ELSE ts[i]) \in Seq(Word)
            BY <3>1
        <3> QED BY <2>2, <3>1, <3>2 DEF w
    <2>4. Append(ts, Words(x)) \in Seq(Seq(Word)) /\ Len(Append(ts, Words(x))) = Len(t) + 1
        BY <1>2, <1>3
    <2>5. \A i \in 1..(Len(t) + 1) : us[i] = Append(ts, Words(x))[i]
        <3> DEFINE w == Words(x)
        <3> HIDE DEF w, ts
        <3>1. /\ w \in Seq(Word) /\ ts \in Seq(Seq(Word)) /\ Len(ts) = Len(t) /\ Len(t) \in Nat
            BY <1>2, <1>3 DEF w
        <3>2. /\ Append(ts, w)[Len(t) + 1] = w /\ \A i \in 1..Len(t) : Append(ts, w)[i] = ts[i]
            BY <3>1
        <3>3. \A i \in 1..(Len(t) + 1) : i = Len(t) + 1 \/ (i \in 1..Len(t) /\ i # Len(t) + 1)
            BY <3>1
        <3> QED BY <2>2, <3>2, <3>3 DEF w
    <2> QED BY <2>3, <2>4, <2>5, SeqEqual
<1> HIDE DEF ts, us
<1>5. FlattenSeq(ts) \in Seq(Word) /\ FlattenSeq(us) = FlattenSeq(ts) \o Words(x)
    BY <1>2, <1>3, <1>4, FlattenType, FlattenAppend
<1> QED BY <1>5 DEF Flat, ts, us, u

LEMMA MemoryType == ASSUME NEW a \in Seq(Word) PROVE Memory(a) \in Seq(Word)
BY PickType DEF Memory, Where

LEMMA MemoryJoin ==
    ASSUME NEW a \in Seq(Word), NEW b \in Seq(Word)
    PROVE  Memory(a \o b) = Memory(a) \o Memory(b)
<1> DEFINE c == a \o b
           K == {i \in DOMAIN c : c[i].says # "piece"}
           M == {i \in DOMAIN a : a[i].says # "piece"}
           L == {i \in DOMAIN b : b[i].says # "piece"}
<1>1. /\ DOMAIN a = 1..Len(a) /\ DOMAIN b = 1..Len(b) /\ Len(a) \in Nat /\ Len(b) \in Nat
      /\ DOMAIN c = 1..(Len(a) + Len(b))
      /\ \A i \in 1..Len(a) : c[i] = a[i]
      /\ \A i \in 1..Len(b) : c[Len(a) + i] = b[i]
    OBVIOUS
<1> HIDE DEF c
<1>2. \A i \in 1..Len(b) : i \in L <=> Len(a) + i \in K
    BY <1>1
<1>3. \A i \in 1..Len(a) : i \in M <=> i \in K
    BY <1>1
<1> HIDE DEF K, L, M
<1>4. Pick(a \o b, K) = Pick(a, K) \o Pick(b, L)
    BY <1>2, PickConcat
<1>5. Pick(a, K) = Pick(a, M)
    BY <1>3, PickAgree
<1> QED BY <1>4, <1>5 DEF Memory, Where, K, L, M, c

LEMMA MemoryOfPieces ==
    ASSUME NEW a \in Seq(Word), NEW b \in Seq(Piece)
    PROVE  Memory(a \o b) = Memory(a)
<1>1. b \in Seq(Word) /\ \A i \in 1..Len(b) : b[i].says = "piece"
    BY WordKinds
<1>2. Memory(b) = <<>>
    <2> DEFINE K == {i \in DOMAIN b : b[i].says # "piece"}
    <2>1. \A i \in 1..Len(b) : i \notin K
        BY <1>1
    <2> HIDE DEF K
    <2>2. Pick(b, K) = <<>>
        BY <1>1, <2>1, PickNone
    <2> QED BY <2>2 DEF Memory, Where, K
<1>3. Memory(a) \in Seq(Word)
    BY MemoryType
<1>4. Memory(a) \o <<>> = Memory(a)
    BY <1>3
<1> QED BY <1>1, <1>2, <1>4, MemoryJoin

-------------------------------------------------------------------------------
(* Replacement of a search and its result                                      *)

LEMMA SuffixIs ==
    ASSUME NEW b \in Seq(Word), NEW c \in Seq(Word), Len(b) <= Len(c),
           \A j \in 1..Len(b) : c[Len(c) - Len(b) + j] = b[j]
    PROVE  \E k \in 0..Len(c) : SubSeq(c, k + 1, Len(c)) = b
<1> DEFINE k == Len(c) - Len(b)
           n == Len(c)
<1>1. k \in Nat /\ n \in Nat /\ k <= n /\ n <= Len(c) /\ n - k = Len(b) /\ k \in 0..Len(c)
    OBVIOUS
<1> HIDE DEF k, n
<1>2. /\ SubSeq(c, k + 1, n) \in Seq(Word) /\ Len(SubSeq(c, k + 1, n)) = n - k
      /\ \A j \in 1..(n - k) : SubSeq(c, k + 1, n)[j] = c[k + j]
    BY <1>1, SliceIs
<1>3. \A j \in 1..Len(b) : c[k + j] = b[j]
    BY DEF k
<1>4. SubSeq(c, k + 1, n) = b
    BY <1>1, <1>2, <1>3, SeqEqual
<1> QED BY <1>1, <1>4 DEF n

LEMMA Shifts ==
    ASSUME NEW a \in Nat, NEW b \in Nat, NEW c \in Nat, NEW d \in Nat, a + b = c + d, d <= b,
           NEW j \in 1..d
    PROVE  b - d + j \in 1..b /\ a + (b - d + j) = c + j
OBVIOUS

EndsInWords(b, c) == \E k \in 0..Len(b) : SubSeq(b, k + 1, Len(b)) = c

LEMMA LongerEndsIn ==
    ASSUME NEW x \in Seq(Word), NEW b \in Seq(Word), NEW a \in Seq(Word), NEW c \in Seq(Word),
           NEW u, Concatenates(u, x, b, Word), Concatenates(u, a, c, Word), Len(x) < Len(a)
    PROVE  EndsInWords(b, c)
<1>1. /\ Len(x) \in Nat /\ Len(a) \in Nat /\ Len(b) \in Nat /\ Len(c) \in Nat
    OBVIOUS
<1>2. Len(x) + Len(b) = Len(a) + Len(c)
    BY DEF Concatenates
<1>3. Len(c) <= Len(b)
    BY <1>1, <1>2
<1>4. ASSUME NEW j \in 1..Len(c) PROVE b[Len(b) - Len(c) + j] = c[j]
    <2>1. Len(b) - Len(c) + j \in 1..Len(b) /\ Len(x) + (Len(b) - Len(c) + j) = Len(a) + j
        <3> DEFINE l == Len(x)
                   m == Len(b)
                   n == Len(a)
                   k == Len(c)
        <3>1. l \in Nat /\ m \in Nat /\ n \in Nat /\ k \in Nat /\ l + m = n + k /\ k <= m /\ j \in 1..k
            BY <1>1, <1>2, <1>3
        <3> HIDE DEF l, m, n, k
        <3>2. m - k + j \in 1..m /\ l + (m - k + j) = n + j
            BY <3>1, Shifts
        <3> QED BY <3>2 DEF l, m, n, k
    <2>2. u[Len(x) + (Len(b) - Len(c) + j)] = b[Len(b) - Len(c) + j] /\ u[Len(a) + j] = c[j]
        BY <2>1 DEF Concatenates
    <2> QED BY <2>1, <2>2
<1> QED BY <1>3, <1>4, SuffixIs DEF EndsInWords

\* Where two joins are the same, the one tail ends in the other.
LEMMA TailsNest ==
    ASSUME NEW x \in Seq(Word), NEW b \in Seq(Word), NEW a \in Seq(Word), NEW c \in Seq(Word),
           NEW u, Concatenates(u, x, b, Word), Concatenates(u, a, c, Word), x # a
    PROVE  (EndsInWords(b, c) \/ EndsInWords(c, b)) /\ b # c
<1>1. /\ Len(x) \in Nat /\ Len(a) \in Nat /\ Len(b) \in Nat /\ Len(c) \in Nat
      /\ Len(x) + Len(b) = Len(a) + Len(c)
    <2>1. Len(x) \in Nat /\ Len(a) \in Nat /\ Len(b) \in Nat /\ Len(c) \in Nat
        OBVIOUS
    <2>2. Len(x) + Len(b) = Len(a) + Len(c)
        BY DEF Concatenates
    <2> QED BY <2>1, <2>2
<1>2. Len(x) # Len(a)
    <2> SUFFICES ASSUME Len(x) = Len(a) PROVE FALSE
        OBVIOUS
    <2>1. \A i \in 1..Len(x) : x[i] = a[i]
        BY DEF Concatenates
    <2> QED BY <2>1, SeqEqual
<1>3. CASE Len(x) < Len(a)
    <2>1. EndsInWords(b, c)
        BY <1>3, LongerEndsIn
    <2> QED BY <1>1, <1>3, <2>1
<1>4. CASE Len(a) < Len(x)
    <2>1. EndsInWords(c, b)
        BY <1>4, LongerEndsIn
    <2> QED BY <1>1, <1>4, <2>1
<1> QED BY <1>1, <1>2, <1>3, <1>4

\* An element behind a sequence stands behind whatever comes before that.
LEMMA JoinAppend ==
    ASSUME NEW x \in Seq(Word), NEW y \in Seq(Word), NEW e \in Word
    PROVE  x \o Append(y, e) = Append(x \o y, e)
<1> DEFINE u == x \o Append(y, e)
           v == Append(x \o y, e)
<1>1. /\ u \in Seq(Word) /\ v \in Seq(Word) /\ Len(x) \in Nat /\ Len(y) \in Nat
      /\ Len(u) = Len(x) + Len(y) + 1 /\ Len(v) = Len(x) + Len(y) + 1
    OBVIOUS
<1>2. ASSUME NEW i \in 1..(Len(x) + Len(y) + 1) PROVE u[i] = v[i]
    OBVIOUS
<1> HIDE DEF u, v
<1>3. u = v
    BY <1>1, <1>2, SeqEqual
<1> QED BY <1>3 DEF u, v

\* Both x with e's words and a with o's words are the same words: e and o search for
\* the same, and x and a differ in free text alone, if at all.
LEMMA EndsAlike ==
    ASSUME NEW a \in Seq(Word), NEW x \in Seq(Word), NEW o \in SearchOutput, NEW e \in SearchOutput,
           x \o Words(e) = a \o Words(o)
    PROVE  /\ e.query = o.query /\ Memory(x) = Memory(a)
           /\ x = a \/ Overlap(e, o)
<1> DEFINE te == e.text
           ke == Ask(e.query)
           we == Words(e)
           to == o.text
           ko == Ask(o.query)
           wo == Words(o)
<1>1. /\ we = Append(te, ke) /\ te \in Seq(Piece) /\ te \in Seq(Word) /\ ke \in Word
      /\ wo = Append(to, ko) /\ to \in Seq(Piece) /\ to \in Seq(Word) /\ ko \in Word
      /\ we \in Seq(Word) /\ wo \in Seq(Word)
    BY SearchWords, SegmentWords, SearchKinds, WordKinds
<1>2. ke = ko => e.query = o.query
    BY SearchWords
<1> HIDE DEF te, ke, to, ko, we, wo
<1>3. x \o te = a \o to /\ ke = ko
    <2>1. x \o we = Append(x \o te, ke) /\ a \o wo = Append(a \o to, ko)
        BY <1>1, JoinAppend
    <2>2. Append(x \o te, ke) = Append(a \o to, ko)
        BY <2>1 DEF we, wo
    <2> DEFINE u == x \o te
               v == a \o to
    <2>3. u \in Seq(Word) /\ v \in Seq(Word)
        BY <1>1
    <2> HIDE DEF u, v
    <2>4. Append(u, ke) = Append(v, ko)
        BY <2>2 DEF u, v
    <2>5. Len(u) = Len(v) /\ ke = ko /\ \A i \in 1..Len(u) : u[i] = v[i]
        <3>1. /\ Len(Append(u, ke)) = Len(u) + 1 /\ Len(Append(v, ko)) = Len(v) + 1
              /\ Append(u, ke)[Len(u) + 1] = ke /\ Append(v, ko)[Len(v) + 1] = ko
              /\ \A i \in 1..Len(u) : Append(u, ke)[i] = u[i]
              /\ \A i \in 1..Len(v) : Append(v, ko)[i] = v[i]
              /\ Len(u) \in Nat /\ Len(v) \in Nat
            BY <1>1, <2>3
        <3> QED BY <2>4, <3>1
    <2>6. u = v
        BY <2>3, <2>5, SeqEqual
    <2> QED BY <2>5, <2>6 DEF u, v
<1>4. Memory(x) = Memory(a)
    BY <1>1, <1>3, MemoryOfPieces
<1>5. x = a \/ Overlap(e, o)
    <2> SUFFICES ASSUME x # a PROVE Overlap(e, o)
        OBVIOUS
    <2> DEFINE u == x \o we
    <2>1. u = a \o wo
        BY DEF we, wo
    <2>2. Concatenates(u, x, we, Word)
        BY <1>1, JoinedAt
    <2>3. Concatenates(a \o wo, a, wo, Word)
        BY <1>1, JoinedAt
    <2> HIDE DEF u
    <2>4. Concatenates(u, a, wo, Word)
        BY <2>1, <2>3
    <2>5. (EndsInWords(we, wo) \/ EndsInWords(wo, we)) /\ we # wo
        BY <1>1, <2>2, <2>4, TailsNest
    <2> QED BY <2>5 DEF Overlap, EndsInWords, we, wo
<1> QED BY <1>2, <1>3, <1>4, <1>5

-------------------------------------------------------------------------------
(* A block of a result stands once in a prompt                                 *)

\* Something between what comes before it and after it.
Around(b, s, y) == Append(b, s) \o y

\* p, element by element.
Parts(p, b, s, y) ==
    /\ p \in Seq(Word) /\ Len(p) = Len(b) + 1 + Len(y)
    /\ \A j \in 1..Len(b) : p[j] = b[j]
    /\ p[Len(b) + 1] = s
    /\ \A j \in 1..Len(y) : p[Len(b) + 1 + j] = y[j]

LEMMA AroundParts ==
    ASSUME NEW b \in Seq(Word), NEW s \in Word, NEW y \in Seq(Word)
    PROVE  Parts(Around(b, s, y), b, s, y)
<1> DEFINE c == Append(b, s)
<1>1. /\ c \in Seq(Word) /\ Len(c) = Len(b) + 1 /\ c[Len(b) + 1] = s /\ Len(b) \in Nat
      /\ \A j \in 1..Len(b) : c[j] = b[j] /\ j \in 1..(Len(b) + 1)
    OBVIOUS
<1> HIDE DEF c
<1>2. Concatenates(c \o y, c, y, Word)
    BY <1>1, JoinedAt
<1>3. Len(b) + 1 \in 1..(Len(b) + 1)
    BY <1>1
<1> DEFINE p == c \o y
<1> HIDE DEF p
<1>4. Concatenates(p, c, y, Word)
    BY <1>2 DEF p
<1>5. /\ p \in Seq(Word) /\ Len(p) = Len(b) + 1 + Len(y)
      /\ \A j \in 1..(Len(b) + 1) : p[j] = c[j]
      /\ \A j \in 1..Len(y) : p[Len(b) + 1 + j] = y[j]
    BY <1>1, <1>4 DEF Concatenates
<1>6. Parts(p, b, s, y)
    BY <1>1, <1>3, <1>5 DEF Parts
<1> QED BY <1>6 DEF Around, p, c

\* Words behind stay behind.
StaysBehind(b, s, y, w) == Around(b, s, y) \o w = Around(b, s, y \o w)

LEMMA AroundJoin ==
    ASSUME NEW b \in Seq(Word), NEW s \in Word, NEW y \in Seq(Word), NEW w \in Seq(Word)
    PROVE  StaysBehind(b, s, y, w)
<1> DEFINE c == Append(b, s)
<1>1. c \in Seq(Word)
    OBVIOUS
<1> HIDE DEF c
<1>2. (c \o y) \o w = c \o (y \o w)
    <2> DEFINE d == c \o y
               e == y \o w
               u == d \o w
               v == c \o e
    <2>1. d \in Seq(Word) /\ e \in Seq(Word) /\ Len(c) \in Nat /\ Len(y) \in Nat /\ Len(w) \in Nat
        BY <1>1
    <2>2. Concatenates(d, c, y, Word) /\ Concatenates(e, y, w, Word)
        BY <1>1, JoinedAt
    <2> HIDE DEF d, e
    <2>3. Concatenates(u, d, w, Word) /\ Concatenates(v, c, e, Word)
        BY <1>1, <2>1, JoinedAt
    <2> HIDE DEF u, v
    <2>4. /\ u \in Seq(Word) /\ v \in Seq(Word) /\ Len(d) = Len(c) + Len(y) /\ Len(e) = Len(y) + Len(w)
          /\ Len(u) = Len(d) + Len(w) /\ Len(v) = Len(c) + Len(e)
        BY <2>2, <2>3 DEF Concatenates
    <2>5. Len(u) = Len(v) /\ Len(u) = Len(c) + Len(y) + Len(w)
        BY <2>1, <2>4
    <2>6. ASSUME NEW j \in 1..Len(u) PROVE u[j] = v[j]
        <3>1. CASE j <= Len(c)
            <4>1. j \in 1..Len(c) /\ j \in 1..Len(d)
                BY <2>1, <2>4, <3>1
            <4> QED BY <2>2, <2>3, <4>1 DEF Concatenates
        <3>2. CASE Len(c) < j /\ j <= Len(c) + Len(y)
            <4> DEFINE k == j - Len(c)
            <4>1. k \in 1..Len(y) /\ k \in 1..Len(e) /\ j \in 1..Len(d) /\ j = Len(c) + k
                BY <2>1, <2>4, <3>2
            <4> HIDE DEF k
            <4>2. u[j] = d[j] /\ d[j] = y[k] /\ v[j] = e[k] /\ e[k] = y[k]
                BY <2>2, <2>3, <4>1 DEF Concatenates
            <4> QED BY <4>2
        <3>3. CASE Len(c) + Len(y) < j
            <4> DEFINE k == j - (Len(c) + Len(y))
            <4>1. /\ k \in 1..Len(w) /\ Len(y) + k \in 1..Len(e) /\ j = Len(d) + k
                  /\ j = Len(c) + (Len(y) + k)
                BY <2>1, <2>4, <2>5, <3>3
            <4> HIDE DEF k
            <4>2. u[j] = w[k]
                BY <2>3, <4>1 DEF Concatenates
            <4>3. v[j] = e[Len(y) + k] /\ e[Len(y) + k] = w[k]
                BY <2>2, <2>3, <4>1 DEF Concatenates
            <4> QED BY <4>2, <4>3
        <3> QED BY <2>1, <2>5, <3>1, <3>2, <3>3
    <2>7. u = v
        BY <2>4, <2>5, <2>6, SeqEqual
    <2> QED BY <2>7 DEF u, v, d, e
<1> QED BY <1>2 DEF StaysBehind, Around, c

LEMMA OneBlock ==
    ASSUME NEW b \in Seq(Word), BlockFree(b), NEW s \in Word, NEW y \in Seq(Word), BlockFree(y),
           NEW p, Parts(p, b, s, y)
    PROVE  /\ \A j \in 1..Len(p) : j # Len(b) + 1 => ~IsBlock(p[j])
           /\ ~IsBlock(s) => BlockFree(p)
<1>1. Len(b) \in Nat /\ Len(y) \in Nat /\ Len(p) = Len(b) + 1 + Len(y)
    BY DEF Parts
<1>2. ASSUME NEW j \in 1..Len(p), j # Len(b) + 1 PROVE ~IsBlock(p[j])
    <2>1. CASE j \in 1..Len(b)
        BY <2>1 DEF Parts, BlockFree
    <2>2. CASE j > Len(b) + 1
        <3>1. j - (Len(b) + 1) \in 1..Len(y) /\ Len(b) + 1 + (j - (Len(b) + 1)) = j
            BY <1>1, <2>2
        <3> QED BY <3>1 DEF Parts, BlockFree
    <2> QED BY <1>1, <1>2, <2>1, <2>2
<1> QED BY <1>2 DEF BlockFree, Parts

\* Words that end in a block are found where the one block is, behind some of what
\* comes before it, or not at all.
FoundBehind(p, b, y, w, i) ==
    LET x == SubSeq(p, 1, i - 1)
    IN  x \in Seq(Word) /\ x \o w = b /\ SubSeq(p, i + (Len(w) + 1), Len(p)) = y

LEMMA FoundOnce ==
    ASSUME NEW b \in Seq(Word), BlockFree(b), NEW s \in Block, NEW y \in Seq(Word), BlockFree(y),
           NEW p, Parts(p, b, s, y),
           NEW w \in Seq(Word), NEW c \in Block, NEW i \in Found(p, Append(w, c))
    PROVE  i = Len(b) - Len(w) + 1 /\ c = s /\ FoundBehind(p, b, y, w, i)
<1> DEFINE q == Append(w, c)
           m == Len(w)
           n == Len(b)
           l == Len(y)
<1>1. s \in Word /\ c \in Word /\ IsBlock(c)
    BY SegmentParts, WordKinds DEF Block, IsBlock
<1>2. /\ Len(q) = m + 1 /\ q[m + 1] = c /\ \A k \in 1..m : q[k] = w[k]
      /\ m \in Nat /\ n \in Nat /\ l \in Nat
    BY <1>1
<1>3. /\ p \in Seq(Word) /\ Len(p) = n + 1 + l /\ \A j \in 1..n : p[j] = b[j]
      /\ p[n + 1] = s /\ \A j \in 1..l : p[n + 1 + j] = y[j]
    BY DEF Parts
<1>4. \A j \in 1..Len(p) : j # n + 1 => ~IsBlock(p[j])
    BY <1>1, OneBlock
<1> HIDE DEF q, m, n, l
<1>5. i \in 1..(Len(p) - Len(q) + 1) /\ \A k \in 1..Len(q) : p[i + k - 1] = q[k]
    BY DEF Found, q
<1>6. /\ i \in Nat /\ 1 <= i /\ i + m <= n + 1 + l /\ i + m \in 1..Len(p)
      /\ i + (m + 1) - 1 = i + m /\ m + 1 \in 1..(m + 1)
      /\ \A k \in 1..m : k \in 1..(m + 1)
    BY <1>2, <1>3, <1>5
<1>7. p[i + m] = c /\ \A k \in 1..m : p[i + k - 1] = w[k]
    BY <1>2, <1>5, <1>6
<1>8. i + m = n + 1
    BY <1>1, <1>4, <1>6, <1>7
<1>9. i = n - m + 1 /\ c = s /\ m <= n
    <2>1. i = n - m + 1 /\ m <= n
        BY <1>2, <1>6, <1>8
    <2>2. c = s
        BY <1>3, <1>7, <1>8
    <2> QED BY <2>1, <2>2
<1> DEFINE x == SubSeq(p, 1, i - 1)
           z == SubSeq(p, i + (m + 1), Len(p))
<1>10. x \in Seq(Word) /\ Len(x) = n - m /\ \A j \in 1..(n - m) : x[j] = p[j]
    <2> DEFINE k == n - m
               o == 0
    <2>1. k \in Nat /\ o \in Nat /\ o <= k /\ k <= Len(p) /\ i - 1 = k /\ k - o = k /\ o + 1 = 1
          /\ \A j \in 1..k : o + j = j
        BY <1>2, <1>3, <1>9
    <2> HIDE DEF k, o
    <2>2. /\ SubSeq(p, o + 1, k) \in Seq(Word) /\ Len(SubSeq(p, o + 1, k)) = k - o
          /\ \A j \in 1..(k - o) : SubSeq(p, o + 1, k)[j] = p[o + j]
        BY <1>3, <2>1, SliceIs
    <2>3. /\ SubSeq(p, 1, k) \in Seq(Word) /\ Len(SubSeq(p, 1, k)) = k
          /\ \A j \in 1..k : SubSeq(p, 1, k)[j] = p[j]
        BY <2>1, <2>2
    <2> QED BY <2>1, <2>3 DEF k
<1>11. z = y
    <2> DEFINE k == n + 1
               e == Len(p)
    <2>1. k \in Nat /\ e \in Nat /\ k <= e /\ e <= Len(p) /\ i + (m + 1) = k + 1 /\ e - k = l
        BY <1>2, <1>3, <1>9
    <2> HIDE DEF k, e
    <2>2. /\ SubSeq(p, k + 1, e) \in Seq(Word) /\ Len(SubSeq(p, k + 1, e)) = e - k
          /\ \A j \in 1..(e - k) : SubSeq(p, k + 1, e)[j] = p[k + j]
        BY <1>3, <2>1, SliceIs
    <2>3. \A j \in 1..l : p[k + j] = y[j]
        BY <1>3 DEF k
    <2>4. SubSeq(p, k + 1, e) = y
        BY <2>1, <2>2, <2>3, SeqEqual DEF l
    <2> QED BY <2>1, <2>4 DEF e
<1> HIDE DEF x, z
<1>12. x \o w = b
    <2> DEFINE u == x \o w
    <2>1. Concatenates(u, x, w, Word)
        BY <1>10, JoinedAt
    <2> HIDE DEF u
    <2>2. u \in Seq(Word) /\ Len(u) = n
        <3>1. u \in Seq(Word) /\ Len(u) = Len(x) + m
            BY <2>1 DEF Concatenates, m
        <3>2. (n - m) + m = n
            BY <1>2
        <3> QED BY <1>10, <3>1, <3>2
    <2>3. ASSUME NEW j \in 1..n PROVE u[j] = b[j]
        <3>1. CASE j <= n - m
            <4>1. j \in 1..(n - m)
                BY <1>2, <1>9, <3>1
            <4>2. u[j] = x[j] /\ x[j] = p[j]
                BY <1>10, <2>1, <4>1 DEF Concatenates
            <4> QED BY <1>3, <4>2
        <3>2. CASE j > n - m
            <4> DEFINE k == j - (n - m)
            <4>1. k \in 1..m /\ j = (n - m) + k /\ i + k - 1 = j
                BY <1>2, <1>9, <3>2
            <4> HIDE DEF k
            <4>2. u[j] = w[k]
                BY <1>10, <2>1, <4>1 DEF Concatenates, m
            <4>3. p[j] = w[k]
                BY <1>7, <4>1
            <4> QED BY <1>3, <4>2, <4>3
        <3> QED BY <1>2, <1>9, <3>1, <3>2
    <2>4. u = b
        BY <2>2, <2>3, SeqEqual DEF n
    <2> QED BY <2>4 DEF u
<1> QED BY <1>9, <1>10, <1>11, <1>12 DEF FoundBehind, x, z, m, n

LEMMA FoundWhereItStands ==
    ASSUME NEW a \in Seq(Word), NEW w \in Seq(Word), NEW s \in Word, NEW y \in Seq(Word),
           NEW b, Concatenates(b, a, w, Word), NEW p, Parts(p, b, s, y)
    PROVE  Len(a) + 1 \in Found(p, Append(w, s))
<1> DEFINE q == Append(w, s)
           m == Len(w)
           i == Len(a) + 1
<1>1. /\ Len(q) = m + 1 /\ q[m + 1] = s /\ \A k \in 1..m : q[k] = w[k]
      /\ m \in Nat /\ Len(a) \in Nat /\ Len(y) \in Nat
    OBVIOUS
<1> HIDE DEF q
<1>2. Len(b) = Len(a) + m /\ Len(p) = Len(b) + 1 + Len(y)
    BY DEF Concatenates, Parts
<1> HIDE DEF m
<1>3. i \in 1..(Len(p) - Len(q) + 1)
    BY <1>1, <1>2
<1>4. ASSUME NEW k \in 1..Len(q) PROVE p[i + k - 1] = q[k]
    <2>1. CASE k \in 1..m
        <3>1. i + k - 1 = Len(a) + k /\ Len(a) + k \in 1..Len(b)
            BY <1>1, <1>2, <2>1
        <3>2. p[Len(a) + k] = b[Len(a) + k] /\ b[Len(a) + k] = w[k]
            BY <2>1, <3>1 DEF Parts, Concatenates, m
        <3> QED BY <1>1, <2>1, <3>1, <3>2
    <2>2. CASE k = m + 1
        <3>1. i + k - 1 = Len(b) + 1
            BY <1>1, <1>2, <2>2
        <3> QED BY <1>1, <2>2, <3>1 DEF Parts
    <2> QED BY <1>1, <2>1, <2>2
<1> QED BY <1>3, <1>4 DEF Found, q

-------------------------------------------------------------------------------
(* What replacing puts in a prompt                                             *)

LEMMA EntryKinds ==
    ASSUME NEW h \in Entry
    PROVE  /\ h.output \in SearchOutput /\ h.output \in Segment /\ h.output.query \in Query
           /\ Words(h.output) \in Seq(Word) /\ BlockFree(Words(h.output))
           /\ h.block \in Block /\ h.block \in Word /\ IsBlock(h.block)
           /\ h.summary \in Segment /\ h.summary \in Word /\ ~IsBlock(h.summary)
           /\ h.summary.says # "piece"
<1>1. h.output \in SearchOutput /\ h.block \in Block /\ h.summary \in Summarised
    BY DEF Entry
<1>2. h.block \in Segment /\ h.summary \in Segment /\ IsBlock(h.block) /\ ~IsBlock(h.summary)
    BY <1>1, SegmentParts DEF Block, Summarised, IsBlock
<1>3. /\ h.output \in Segment /\ ~IsBlock(h.output) /\ h.output.query \in Query
      /\ Words(h.output) \in Seq(Word) /\ BlockFree(Words(h.output))
    BY <1>1, SearchKinds, SegmentWords
<1> QED BY <1>1, <1>2, <1>3, WordKinds


\* Nothing is found in words without a block.
LEMMA ReplaceNothing ==
    ASSUME NEW p \in Seq(Word), BlockFree(p), NEW h \in Entry
    PROVE  ReplaceFirst(p, h) = p
<1> DEFINE w == Words(h.output)
           sought == Append(w, h.block)
<1>1. w \in Seq(Word) /\ h.block \in Word /\ IsBlock(h.block)
    BY EntryKinds
<1>2. Found(p, sought) = {}
    <2> SUFFICES ASSUME NEW i \in Found(p, sought) PROVE FALSE
        OBVIOUS
    <2>1. Len(sought) = Len(w) + 1 /\ sought[Len(w) + 1] = h.block /\ Len(w) \in Nat
        BY <1>1
    <2> HIDE DEF sought
    <2>2. i \in 1..(Len(p) - Len(sought) + 1) /\ \A k \in 1..Len(sought) : p[i + k - 1] = sought[k]
        BY DEF Found
    <2>3. Len(w) + 1 \in 1..Len(sought) /\ i + (Len(w) + 1) - 1 \in 1..Len(p)
        BY <2>1, <2>2
    <2>4. p[i + (Len(w) + 1) - 1] = h.block
        BY <2>1, <2>2, <2>3
    <2> QED BY <1>1, <2>3, <2>4 DEF BlockFree
<1> QED BY <1>2 DEF ReplaceFirst

\* What is found is taken out, and the summary put in.
PutIn(p, h, b, s, y) ==
    /\ h.block = s
    /\ \E x \in Seq(Word) :
           x \o Words(h.output) = b /\ ReplaceFirst(p, h) = Around(x, h.summary, y)

LEMMA ReplaceFound ==
    ASSUME NEW b \in Seq(Word), BlockFree(b), NEW s \in Block, NEW y \in Seq(Word), BlockFree(y),
           NEW p, Parts(p, b, s, y), NEW h \in Entry, NEW i \in Found(p, Append(Words(h.output), h.block))
    PROVE  PutIn(p, h, b, s, y)
<1> DEFINE w == Words(h.output)
           sought == Append(w, h.block)
           T == Found(p, sought)
           at == CHOOSE j \in T : \A k \in T : j <= k
           x == SubSeq(p, 1, at - 1)
<1>1. /\ w \in Seq(Word) /\ h.block \in Block /\ h.summary \in Word /\ Len(sought) = Len(w) + 1
      /\ Len(w) \in Nat /\ Len(b) \in Nat
    BY EntryKinds
<1>2. i \in T
    OBVIOUS
<1>3. \A j \in T : j = Len(b) - Len(w) + 1 /\ h.block = s /\ FoundBehind(p, b, y, w, j)
    <2> TAKE j \in T
    <2> HIDE DEF w
    <2> QED BY <1>1, FoundOnce
<1>4. ReplaceFirst(p, h) =
          SubSeq(p, 1, at - 1) \o <<h.summary>> \o SubSeq(p, at + Len(sought), Len(p))
    <2>1. T # {}
        BY <1>2
    <2> QED BY <2>1 DEF ReplaceFirst
<1> HIDE DEF w, sought, T
<1>5. at \in T
    <2>1. \A k \in T : i <= k
        BY <1>1, <1>2, <1>3
    <2> QED BY <1>2, <2>1
<1> HIDE DEF at
<1>6. FoundBehind(p, b, y, w, at)
    BY <1>3, <1>5
<1>7. x \in Seq(Word) /\ x \o w = b /\ SubSeq(p, at + Len(sought), Len(p)) = y
    BY <1>1, <1>6 DEF FoundBehind
<1> HIDE DEF x
<1>8. x \o <<h.summary>> = Append(x, h.summary)
    <2> DEFINE e == h.summary
    <2>1. e \in Word /\ x \in Seq(Word)
        BY <1>1, <1>7
    <2> HIDE DEF e
    <2>2. x \o <<e>> = Append(x, e)
        BY <2>1
    <2> QED BY <2>2 DEF e
<1>9. ReplaceFirst(p, h) = Around(x, h.summary, y)
    BY <1>4, <1>7, <1>8 DEF x, Around
<1> QED BY <1>2, <1>3, <1>7, <1>9 DEF w, PutIn

\* compact_previous_results, as a function of the prompt and the history.
CompactText(text, hist) == FoldLeft(ReplaceFirst, text, hist)

\* The replacements are made one after the other, in the order of the history.
LEMMA CompactUnfolds ==
    ASSUME NEW hist \in Seq(Entry), NEW V, NEW b \in V,
           \A v \in V, i \in 1..Len(hist) : ReplaceFirst(v, hist[i]) \in V
    PROVE  \E f \in [0..Len(hist) -> V] :
               /\ f[0] = b
               /\ \A i \in 1..Len(hist) : f[i] = ReplaceFirst(f[i - 1], hist[i])
               /\ CompactText(b, hist) = f[Len(hist)]
<1> DEFINE n == Len(hist)
           Body(f, s) == IF s = {} THEN b ELSE ReplaceFirst(f[s \ {Max(s)}], hist[Max(s)])
           P(f) == f = [s \in SUBSET DOMAIN hist |-> Body(f, s)]
           g == [p \in (1..n) \X V |-> ReplaceFirst(p[2], hist[p[1]])]
           F == CHOOSE f : P(f)
<1>1. n \in Nat /\ DOMAIN hist = 1..n
    OBVIOUS
<1>2. g \in [(1..n) \X V -> V]
    OBVIOUS
<1>3. PICK it \in [SUBSET (1..n) -> V] : FoldsSets(it, n, b, g)
    <2> HIDE DEF g, n
    <2> QED BY <1>1, <1>2, SetFoldExists
<1> HIDE DEF n
<1>4. P(it)
    <2>1. ASSUME NEW s \in SUBSET (1..n) PROVE it[s] = Body(it, s)
        <3>1. CASE s = {}
            BY <1>3, <3>1 DEF FoldsSets
        <3>2. CASE s # {}
            <4>1. Max(s) \in 1..n /\ s \ {Max(s)} \in SUBSET (1..n)
                BY <1>1, <3>2, MaxIsLargest
            <4>2. it[s] = g[<<Max(s), it[s \ {Max(s)}]>>]
                BY <1>3, <3>2 DEF FoldsSets
            <4> QED BY <3>2, <4>1, <4>2
        <3> QED BY <3>1, <3>2
    <2>2. it = [s \in SUBSET (1..n) |-> it[s]]
        OBVIOUS
    <2> HIDE DEF Body
    <2> QED BY <1>1, <2>1, <2>2
<1>5. P(F)
    <2> HIDE DEF P
    <2> QED BY <1>4
<1>6. CompactText(b, hist) = F[1..n]
    <2>1. CompactText(b, hist) = F[DOMAIN hist]
        BY DEF CompactText, FoldLeft, MapThenFoldSet
    <2> HIDE DEF F
    <2> QED BY <1>1, <2>1
<1> HIDE DEF F, g
<1>7. \A s \in SUBSET (1..n) : F[s] = Body(F, s)
    <2> HIDE DEF Body
    <2> QED BY <1>1, <1>5
<1>8. F[1..0] = b
    <2>1. 1..0 = {} /\ {} \in SUBSET (1..n)
        OBVIOUS
    <2> QED BY <1>7, <2>1
<1>9. ASSUME NEW m \in 1..n PROVE F[1..m] = ReplaceFirst(F[1..(m - 1)], hist[m])
    <2>1. 1..m \in SUBSET (1..n) /\ 1..m # {} /\ m \in 1..m /\ m \in Nat
        <3>1. m \in Nat /\ 1 <= m /\ m <= n /\ n \in Nat
            BY <1>1
        <3>2. m \in 1..m /\ \A x \in 1..m : x \in 1..n
            BY <3>1
        <3> QED BY <3>1, <3>2
    <2>2. Max(1..m) = m
        <3>1. Max(1..m) \in 1..m /\ \A x \in 1..m : x <= Max(1..m)
            BY <2>1, MaxIsLargest
        <3>2. m <= Max(1..m)
            BY <2>1, <3>1
        <3> QED BY <2>1, <3>1, <3>2
    <2>3. 1..m \ {m} = 1..(m - 1)
        BY <2>1
    <2> QED BY <1>7, <2>1, <2>2, <2>3
<1>10. \A m \in Nat : m <= n => F[1..m] \in V
    <2> DEFINE T == {m \in Nat : m <= n => F[1..m] \in V}
    <2>1. 0 \in T
        BY <1>8
    <2>2. ASSUME NEW m \in Nat, m \in T PROVE m + 1 \in T
        <3> SUFFICES ASSUME m + 1 <= n PROVE F[1..(m + 1)] \in V
            OBVIOUS
        <3>1. m + 1 \in 1..n /\ (m + 1) - 1 = m /\ F[1..m] \in V
            BY <1>1, <2>2
        <3> HIDE DEF T
        <3>2. F[1..(m + 1)] = ReplaceFirst(F[1..m], hist[m + 1])
            BY <1>9, <3>1
        <3> QED BY <3>1, <3>2 DEF n
    <2> HIDE DEF T
    <2>3. \A m \in Nat : m \in T
        BY <2>1, <2>2, InductionOnNat
    <2> QED BY <2>3 DEF T
<1> DEFINE h == [m \in 0..n |-> F[1..m]]
<1>11. h \in [0..n -> V]
    BY <1>1, <1>10
<1>12. h[0] = b /\ h[n] = F[1..n]
    BY <1>1, <1>8
<1>13. ASSUME NEW i \in 1..n PROVE h[i] = ReplaceFirst(h[i - 1], hist[i])
    <2>1. h[i] = F[1..i] /\ h[i - 1] = F[1..(i - 1)]
        BY <1>1
    <2> QED BY <1>9, <2>1
<1> HIDE DEF h
<1> QED BY <1>6, <1>11, <1>12, <1>13 DEF n

\* The last replacement is that of the latest entry.
LEMMA CompactEnds ==
    ASSUME NEW hist \in Seq(Entry), Len(hist) > 0, NEW V, NEW b \in V,
           \A v \in V, i \in 1..Len(hist) : ReplaceFirst(v, hist[i]) \in V
    PROVE  \E v \in V : CompactText(b, hist) = ReplaceFirst(v, hist[Len(hist)])
<1>1. PICK f \in [0..Len(hist) -> V] :
          /\ f[0] = b
          /\ \A i \in 1..Len(hist) : f[i] = ReplaceFirst(f[i - 1], hist[i])
          /\ CompactText(b, hist) = f[Len(hist)]
    BY CompactUnfolds
<1>2. Len(hist) \in 1..Len(hist) /\ f[Len(hist) - 1] \in V
    OBVIOUS
<1> QED BY <1>1, <1>2

-------------------------------------------------------------------------------
(* A block-free part, and summaries of a part                                  *)

LEMMA JoinBlockFree ==
    ASSUME NEW a \in Seq(Word), NEW w \in Seq(Word)
    PROVE  /\ a \o w \in Seq(Word)
           /\ BlockFree(a \o w) <=> BlockFree(a) /\ BlockFree(w)
<1> DEFINE u == a \o w
<1>1. Concatenates(u, a, w, Word)
    BY JoinedAt
<1> HIDE DEF u
<1>2. /\ u \in Seq(Word) /\ Len(u) = Len(a) + Len(w) /\ Len(a) \in Nat /\ Len(w) \in Nat
    BY <1>1 DEF Concatenates
<1>3. ASSUME BlockFree(a), BlockFree(w) PROVE BlockFree(u)
    <2>1. ASSUME NEW j \in 1..Len(u) PROVE ~IsBlock(u[j])
        <3>1. CASE j \in 1..Len(a)
            BY <1>1, <1>3, <3>1 DEF Concatenates, BlockFree
        <3>2. CASE j > Len(a)
            <4>1. j - Len(a) \in 1..Len(w) /\ Len(a) + (j - Len(a)) = j
                BY <1>2, <3>2
            <4> QED BY <1>1, <1>3, <4>1 DEF Concatenates, BlockFree
        <3> QED BY <1>2, <3>1, <3>2
    <2> QED BY <2>1 DEF BlockFree
<1>4. ASSUME BlockFree(u) PROVE BlockFree(a) /\ BlockFree(w)
    <2>1. \A j \in 1..Len(a) : j \in 1..Len(u)
        BY <1>2
    <2>2. \A j \in 1..Len(w) : Len(a) + j \in 1..Len(u)
        BY <1>2
    <2> QED BY <1>1, <1>4, <2>1, <2>2 DEF Concatenates, BlockFree
<1> QED BY <1>2, <1>3, <1>4 DEF u

LEMMA AroundType ==
    ASSUME NEW b \in Seq(Word), NEW s \in Word, NEW y \in Seq(Word)
    PROVE  /\ Around(b, s, y) \in Seq(Word)
           /\ BlockFree(b) /\ BlockFree(y) /\ ~IsBlock(s) => BlockFree(Around(b, s, y))
<1>1. Parts(Around(b, s, y), b, s, y)
    BY AroundParts
<1>2. Around(b, s, y) \in Seq(Word)
    BY <1>1 DEF Parts
<1> QED BY <1>1, <1>2, OneBlock

\* What is remembered of words depends on what is remembered of their parts alone.
LEMMA AroundMemory ==
    ASSUME NEW b \in Seq(Word), NEW x \in Seq(Word), NEW s \in Word, NEW y \in Seq(Word),
           Memory(x) = Memory(b)
    PROVE  Memory(Around(x, s, y)) = Memory(Around(b, s, y))
<1>1. ASSUME NEW c \in Seq(Word)
      PROVE  Memory(Around(c, s, y)) = (Memory(c) \o Memory(<<s>>)) \o Memory(y)
    <2> DEFINE one == <<s>>
    <2>1. one \in Seq(Word) /\ Append(c, s) = c \o one
        OBVIOUS
    <2> HIDE DEF one
    <2>2. Memory(c \o one) = Memory(c) \o Memory(one)
        BY <2>1, MemoryJoin
    <2> DEFINE d == c \o one
    <2>3. d \in Seq(Word)
        BY <2>1
    <2> HIDE DEF d
    <2>4. Memory(d \o y) = Memory(d) \o Memory(y)
        BY <2>3, MemoryJoin
    <2> QED BY <2>1, <2>2, <2>4 DEF Around, one, d
<1> QED BY <1>1

\* x is a, or remembers the same words of it without a block, unless exact.
Resembles(u, v, exact) == Memory(u) = Memory(v) /\ (exact => u = v)

LEMMA ResemblesJoin ==
    ASSUME NEW u \in Seq(Word), NEW v \in Seq(Word), NEW w \in Seq(Word), NEW exact,
           Resembles(u, v, exact)
    PROVE  Resembles(u \o w, v \o w, exact)
<1>1. Memory(u \o w) = Memory(u) \o Memory(w) /\ Memory(v \o w) = Memory(v) \o Memory(w)
    BY MemoryJoin
<1>2. Memory(u) = Memory(v) /\ (exact => u = v)
    BY DEF Resembles
<1> QED BY <1>1, <1>2, Zenon DEF Resembles

\* The entry found is that of the one block, or one with an overlapping output.
Confused(e, h) == e.block = h.block /\ Overlap(e.output, h.output)

\* h's summary between what is left of a and y.
Leftover(r, a, h, y, exact) ==
    \E x \in Seq(Word) : BlockFree(x) /\ Resembles(x, a, exact) /\ r = Around(x, h.summary, y)

SummedUp(mode, e) == e.summary = SummaryIn(mode, e.output.query, e.block)

LEMMA ReplaceIn ==
    ASSUME NEW mode, NEW a \in Seq(Word), BlockFree(a), NEW y \in Seq(Word), BlockFree(y),
           NEW h \in Entry, SummedUp(mode, h), NEW e \in Entry, SummedUp(mode, e),
           NEW exact \in BOOLEAN, exact => ~Confused(e, h),
           NEW p, p = Around(a \o Words(h.output), h.block, y)
    PROVE  /\ ReplaceFirst(p, e) = p \/ Leftover(ReplaceFirst(p, e), a, h, y, exact)
           /\ e = h => Leftover(ReplaceFirst(p, e), a, h, y, exact)
<1> DEFINE w == Words(h.output)
           b == a \o w
           u == Words(e.output)
           sought == Append(u, e.block)
<1>1. /\ w \in Seq(Word) /\ BlockFree(w) /\ h.block \in Block /\ h.block \in Word
      /\ u \in Seq(Word) /\ e.output \in SearchOutput /\ h.output \in SearchOutput
    BY EntryKinds
<1>2. b \in Seq(Word) /\ BlockFree(b)
    BY <1>1, JoinBlockFree
<1>3. Concatenates(b, a, w, Word)
    BY <1>1, JoinedAt
<1>4. Parts(p, b, h.block, y)
    <2> HIDE DEF b
    <2>1. p = Around(b, h.block, y)
        BY DEF b
    <2> QED BY <1>1, <1>2, <2>1, AroundParts
<1>5. ASSUME NEW i \in Found(p, sought) PROVE Leftover(ReplaceFirst(p, e), a, h, y, exact)
    <2> HIDE DEF b
    <2>1. PutIn(p, e, b, h.block, y)
        <3>1. i \in Found(p, Append(Words(e.output), e.block))
            BY <1>5
        <3> HIDE DEF u, w, sought
        <3> QED BY <1>1, <1>2, <1>4, <3>1, ReplaceFound
    <2>2. PICK x \in Seq(Word) :
              x \o Words(e.output) = b /\ ReplaceFirst(p, e) = Around(x, e.summary, y)
        BY <2>1 DEF PutIn
    <2>3. /\ e.output.query = h.output.query /\ Memory(x) = Memory(a)
          /\ x = a \/ Overlap(e.output, h.output)
        <3>1. x \o Words(e.output) = a \o Words(h.output)
            BY <2>2 DEF b
        <3> QED BY <1>1, <3>1, EndsAlike
    <2>4. e.summary = h.summary
        BY <2>1, <2>3 DEF SummedUp, PutIn
    <2>5. exact => x = a
        BY <2>1, <2>3 DEF Confused, PutIn
    <2>6. BlockFree(x)
        <3>1. BlockFree(x \o u)
            BY <1>2, <2>2
        <3> HIDE DEF u
        <3> QED BY <1>1, <3>1, JoinBlockFree
    <2> QED BY <2>2, <2>3, <2>4, <2>5, <2>6 DEF Leftover, Resembles
<1>6. CASE Found(p, sought) = {}
    <2>1. ReplaceFirst(p, e) = p
        BY <1>6 DEF ReplaceFirst
    <2>2. e # h
        <3> SUFFICES ASSUME e = h PROVE FALSE
            OBVIOUS
        <3> HIDE DEF b, w
        <3>1. Len(a) + 1 \in Found(p, Append(w, h.block))
            BY <1>1, <1>3, <1>4, FoundWhereItStands
        <3> QED BY <1>6, <3>1 DEF w
    <2> QED BY <2>1, <2>2
<1>7. CASE Found(p, sought) # {}
    BY <1>5, <1>7
<1> QED BY <1>6, <1>7

\* Of words that hold the result of the latest entry alone, compaction makes words
\* with that entry's summary instead.
LEMMA CompactOne ==
    ASSUME NEW mode, NEW a \in Seq(Word), BlockFree(a), NEW y \in Seq(Word), BlockFree(y),
           NEW hist \in Seq(Entry), Len(hist) > 0,
           \A k \in 1..Len(hist) : SummedUp(mode, hist[k]),
           NEW exact \in BOOLEAN, exact => \A k \in 1..Len(hist) : ~Confused(hist[k], hist[Len(hist)])
    PROVE  Leftover(CompactText(Around(a \o Words(hist[Len(hist)].output), hist[Len(hist)].block, y),
                                hist),
                    a, hist[Len(hist)], y, exact)
<1> DEFINE n == Len(hist)
           h == hist[n]
           p == Around(a \o Words(h.output), h.block, y)
           R == {r \in Seq(Word) : Leftover(r, a, h, y, exact)}
           V == {p} \cup R
<1>1. n \in 1..n /\ \A k \in 1..n : hist[k] \in Entry
    OBVIOUS
<1>2. h \in Entry /\ SummedUp(mode, h)
    BY <1>1
<1>3. h.summary \in Word /\ ~IsBlock(h.summary) /\ h.block \in Word /\ Words(h.output) \in Seq(Word)
    BY <1>2, EntryKinds
<1> HIDE DEF h, p
<1>4. \A r : Leftover(r, a, h, y, exact) => r \in Seq(Word) /\ BlockFree(r)
    BY <1>3, AroundType DEF Leftover
<1>5. ASSUME NEW r \in R, NEW k \in 1..n PROVE ReplaceFirst(r, hist[k]) = r
    BY <1>1, <1>4, ReplaceNothing
<1>6. ASSUME NEW k \in 1..n
      PROVE  /\ ReplaceFirst(p, hist[k]) = p \/ Leftover(ReplaceFirst(p, hist[k]), a, h, y, exact)
             /\ k = n => Leftover(ReplaceFirst(p, hist[k]), a, h, y, exact)
    <2>1. /\ hist[k] \in Entry /\ SummedUp(mode, hist[k]) /\ (exact => ~Confused(hist[k], h))
          /\ k = n => hist[k] = h
        BY <1>1 DEF h
    <2>2. p = Around(a \o Words(h.output), h.block, y)
        BY DEF p
    <2> DEFINE e == hist[k]
    <2> HIDE DEF e
    <2>3. e \in Entry /\ SummedUp(mode, e) /\ (exact => ~Confused(e, h)) /\ (k = n => e = h)
        BY <2>1 DEF e
    <2>4. /\ ReplaceFirst(p, e) = p \/ Leftover(ReplaceFirst(p, e), a, h, y, exact)
          /\ e = h => Leftover(ReplaceFirst(p, e), a, h, y, exact)
        BY <1>2, <2>2, <2>3, ReplaceIn
    <2> QED BY <2>3, <2>4 DEF e
<1>7. p \in V /\ \A v \in V, k \in 1..n : ReplaceFirst(v, hist[k]) \in V
    <2>1. ASSUME NEW v \in V, NEW k \in 1..n PROVE ReplaceFirst(v, hist[k]) \in V
        <3>1. CASE v = p
            BY <1>4, <1>6, <3>1
        <3>2. CASE v \in R
            BY <1>5, <3>2
        <3> QED BY <3>1, <3>2
    <2> QED BY <2>1
<1>8. \A v \in V : ReplaceFirst(v, hist[n]) \in R
    <2> TAKE v \in V
    <2>1. CASE v = p
        BY <1>1, <1>4, <1>6, <2>1
    <2>2. CASE v \in R
        BY <1>1, <1>5, <2>2
    <2> QED BY <2>1, <2>2
<1> HIDE DEF V, R
<1>9. \E v \in V : CompactText(p, hist) = ReplaceFirst(v, hist[Len(hist)])
    BY <1>7, CompactEnds
<1>10. CompactText(p, hist) \in R
    BY <1>8, <1>9
<1> QED BY <1>10 DEF R, p, h

-------------------------------------------------------------------------------
(* The prompt of a trajectory                                                  *)

LEMMA FlatType == ASSUME NEW t \in Seq(Segment) PROVE Flat(t) \in Seq(Word)
<1>1. FinalPrefix \in Segment
    BY SegmentParts
<1> QED BY <1>1, FlatAppend

\* No two searches of the text overlap and have the same result.
AllDistinct(t) ==
    \A i, j \in Blocks(t) : i < j /\ t[i] = t[j] => ~Overlap(t[i - 1], t[j - 1])

LEMMA DistinctParts ==
    ASSUME NEW t \in Seq(Segment), Answered(t)
    PROVE  /\ Distinct(t) \in BOOLEAN /\ AllDistinct(t) \in BOOLEAN
           /\ AllDistinct(t) => Distinct(t)
BY DEF Distinct, AllDistinct

LEMMA DistinctSaying ==
    ASSUME NEW t \in Seq(Segment), Answered(t), NEW x \in Segment, ~IsBlock(x)
    PROVE  Distinct(Append(t, x)) <=> Distinct(t)
<1> DEFINE u == Append(t, x)
           n == Len(t)
<1>1. n \in Nat /\ DOMAIN t = 1..n /\ DOMAIN u = 1..(n + 1) /\ u[n + 1] = x /\ \A i \in 1..n : u[i] = t[i]
    OBVIOUS
<1>2. LastBlock(u) = LastBlock(t)
    BY LastBlockAppend
<1> HIDE DEF u, n
<1>3. Blocks(u) = Blocks(t)
    <2>1. \A i \in 1..(n + 1) : i \in 1..n \/ i = n + 1
        BY <1>1
    <2>2. \A i \in 1..n : i \in 1..(n + 1)
        BY <1>1
    <2> QED BY <1>1, <2>1, <2>2 DEF Blocks
<1>4. \A i \in Blocks(t) : u[i] = t[i] /\ u[i - 1] = t[i - 1]
    <2> TAKE i \in Blocks(t)
    <2>1. i \in 1..n /\ IsBlock(t[i])
        BY <1>1 DEF Blocks
    <2>2. i > 1
        BY <2>1 DEF Answered, Answers, n
    <2>3. i - 1 \in 1..n
        BY <1>1, <2>1, <2>2
    <2> QED BY <1>1, <2>1, <2>3
<1>5. Distinct(u) <=> Distinct(t)
    BY <1>2, <1>3, <1>4 DEF Distinct
<1> QED BY <1>5 DEF u

\* When the next result comes, what was the latest is compacted too.
LEMMA DistinctResult ==
    ASSUME NEW t \in Seq(Segment), Answered(t), NEW o \in SearchOutput, NEW b \in Block,
           Distinct(Append(Append(t, o), b))
    PROVE  AllDistinct(t)
<1> DEFINE u == Append(t, o)
           v == Append(u, b)
           n == Len(t)
<1>1. o \in Segment /\ ~IsBlock(o) /\ b \in Segment /\ IsBlock(b)
    BY SearchKinds, SegmentParts DEF Block, IsBlock
<1>2. /\ n \in Nat /\ DOMAIN t = 1..n /\ u \in Seq(Segment) /\ Len(u) = n + 1
      /\ DOMAIN v = 1..(n + 2) /\ \A i \in 1..n : v[i] = t[i]
    BY <1>1
<1>3. LastBlock(v) = n + 2
    <2>1. LastBlock(v) = Len(u) + 1
        BY <1>1, <1>2, LastBlockAppend
    <2> QED BY <1>2, <2>1
<1> HIDE DEF u, v, n
<1>4. ASSUME NEW i \in Blocks(t)
      PROVE  i \in Blocks(v) /\ i < LastBlock(v) /\ v[i] = t[i] /\ v[i - 1] = t[i - 1]
    <2>1. i \in 1..n /\ IsBlock(t[i])
        BY <1>2 DEF Blocks
    <2>2. i > 1
        BY <2>1 DEF Answered, Answers, n
    <2>3. i - 1 \in 1..n /\ i \in 1..(n + 2) /\ i < n + 2
        BY <1>2, <2>1, <2>2
    <2> QED BY <1>2, <1>3, <2>1, <2>3 DEF Blocks
<1>5. Distinct(v)
    BY DEF v, u
<1> QED BY <1>4, <1>5 DEF Distinct, AllDistinct

\* Every entry of the history is a search of the text with its result, the latest
\* entry the latest of them.
StandsAt(t, e, i) == i \in Blocks(t) /\ t[i - 1] = e.output /\ t[i] = e.block
Stands(t, hist) ==
    \A k \in 1..Len(hist) : \E i \in Blocks(t) :
        /\ StandsAt(t, hist[k], i)
        /\ IF k = Len(hist) THEN i = LastBlock(t) ELSE i < LastBlock(t)

LEMMA NotConfused ==
    ASSUME NEW t \in Seq(Segment), AllDistinct(t), NEW hist \in Seq(Entry), Stands(t, hist),
           NEW k \in 1..Len(hist)
    PROVE  ~Confused(hist[k], hist[Len(hist)])
<1> DEFINE n == Len(hist)
<1>1. n \in 1..n
    OBVIOUS
<1>2. CASE k = n
    BY <1>2 DEF Confused, Overlap
<1>3. CASE k # n
    <2>1. PICK i \in Blocks(t) : StandsAt(t, hist[k], i) /\ i < LastBlock(t)
        BY <1>3 DEF Stands
    <2>2. PICK j \in Blocks(t) : StandsAt(t, hist[n], j) /\ j = LastBlock(t)
        BY <1>1 DEF Stands
    <2>3. t[i] = t[j] => ~Overlap(t[i - 1], t[j - 1])
        BY <2>1, <2>2 DEF AllDistinct
    <2> HIDE DEF n
    <2> QED BY <2>1, <2>2, <2>3 DEF Confused, StandsAt, n
<1> QED BY <1>2, <1>3

LEMMA StandsSaying ==
    ASSUME NEW t \in Seq(Segment), Answered(t), NEW hist \in Seq(Entry), Stands(t, hist),
           NEW x \in Segment, ~IsBlock(x)
    PROVE  Stands(Append(t, x), hist)
<1> DEFINE u == Append(t, x)
           n == Len(t)
<1>1. n \in Nat /\ DOMAIN t = 1..n /\ DOMAIN u = 1..(n + 1) /\ \A i \in 1..n : u[i] = t[i]
    OBVIOUS
<1>2. LastBlock(u) = LastBlock(t)
    BY LastBlockAppend
<1> HIDE DEF u, n
<1>3. ASSUME NEW i \in Blocks(t)
      PROVE  i \in Blocks(u) /\ u[i] = t[i] /\ u[i - 1] = t[i - 1]
    <2>1. i \in 1..n /\ IsBlock(t[i])
        BY <1>1 DEF Blocks
    <2>2. i > 1
        BY <2>1 DEF Answered, Answers, n
    <2>3. i - 1 \in 1..n /\ i \in 1..(n + 1)
        BY <1>1, <2>1, <2>2
    <2> QED BY <1>1, <2>1, <2>3 DEF Blocks
<1>4. Stands(u, hist)
    BY <1>2, <1>3 DEF Stands, StandsAt
<1> QED BY <1>4 DEF u

EntryOf(mode, o, b) == [output |-> o, block |-> b, summary |-> SummaryIn(mode, o.query, b)]

LEMMA StandsResult ==
    ASSUME NEW mode, NEW t \in Seq(Segment), Answered(t), NEW hist \in Seq(Entry), Stands(t, hist),
           NEW o \in SearchOutput, NEW b \in Block
    PROVE  Stands(Append(Append(t, o), b), Append(hist, EntryOf(mode, o, b)))
<1> DEFINE u == Append(t, o)
           v == Append(u, b)
           n == Len(t)
           h == EntryOf(mode, o, b)
           more == Append(hist, h)
<1>1. o \in Segment /\ ~IsBlock(o) /\ b \in Segment /\ IsBlock(b)
    BY SearchKinds, SegmentParts DEF Block, IsBlock
<1>2. /\ n \in Nat /\ DOMAIN t = 1..n /\ u \in Seq(Segment) /\ Len(u) = n + 1
      /\ DOMAIN v = 1..(n + 2) /\ v[n + 1] = o /\ v[n + 2] = b /\ \A i \in 1..n : v[i] = t[i]
    BY <1>1
<1>3. LastBlock(v) = n + 2
    <2>1. LastBlock(v) = Len(u) + 1
        BY <1>1, <1>2, LastBlockAppend
    <2> QED BY <1>2, <2>1
<1>4. /\ Len(hist) \in Nat /\ Len(more) = Len(hist) + 1 /\ more[Len(hist) + 1] = h
      /\ \A k \in 1..Len(hist) : more[k] = hist[k]
    <2>1. h \in Entry
        <3>1. SummaryIn(mode, o.query, b) \in Summarised
            BY SearchKinds, SummaryInType
        <3> QED BY <3>1 DEF EntryOf, Entry
    <2> HIDE DEF h
    <2> QED BY <2>1
<1> HIDE DEF u, v, n, h, more
<1>5. ASSUME NEW i \in Blocks(t)
      PROVE  i \in Blocks(v) /\ i < LastBlock(v) /\ v[i] = t[i] /\ v[i - 1] = t[i - 1]
    <2>1. i \in 1..n /\ IsBlock(t[i])
        BY <1>2 DEF Blocks
    <2>2. i > 1
        BY <2>1 DEF Answered, Answers, n
    <2>3. i - 1 \in 1..n /\ i \in 1..(n + 2) /\ i < n + 2
        BY <1>2, <2>1, <2>2
    <2> QED BY <1>2, <1>3, <2>1, <2>3 DEF Blocks
<1>6. n + 2 \in Blocks(v) /\ StandsAt(v, h, n + 2)
    <2>1. n + 2 \in 1..(n + 2) /\ (n + 2) - 1 = n + 1
        BY <1>2
    <2>2. n + 2 \in Blocks(v)
        BY <1>1, <1>2, <2>1 DEF Blocks
    <2>3. h.output = o /\ h.block = b
        BY DEF h, EntryOf
    <2> QED BY <1>2, <2>1, <2>2, <2>3 DEF StandsAt
<1>7. ASSUME NEW k \in 1..Len(more)
      PROVE  \E i \in Blocks(v) : /\ StandsAt(v, more[k], i)
                                  /\ IF k = Len(more) THEN i = LastBlock(v) ELSE i < LastBlock(v)
    <2>1. CASE k \in 1..Len(hist)
        <3>1. k # Len(more) /\ more[k] = hist[k]
            BY <1>4, <2>1
        <3>2. PICK i \in Blocks(t) : StandsAt(t, hist[k], i)
            BY <2>1 DEF Stands
        <3>3. StandsAt(v, more[k], i)
            BY <1>5, <3>1, <3>2 DEF StandsAt
        <3> QED BY <1>5, <3>1, <3>3
    <2>2. CASE k = Len(hist) + 1
        BY <1>3, <1>4, <1>6, <2>2
    <2> QED BY <1>4, <2>1, <2>2
<1>8. Stands(v, more)
    BY <1>7 DEF Stands
<1> QED BY <1>8 DEF v, u, more, h

-------------------------------------------------------------------------------
(* A prompt, its trajectory and its history agree                              *)

\* What prompt p, history hist and trajectory t of one rollout have to do with
\* each other: the prompt shows the context of the trajectory, and the one result
\* it still shows whole is that of the latest entry of the history.
Latest(p, h, c, exact) ==
    \E a, z \in Seq(Word) :
        /\ BlockFree(a) /\ BlockFree(z)
        /\ p = Around(a \o Words(h.output), h.block, z)
        /\ Resembles(Around(a, h.summary, z), c, exact)
Coherent(mode, t, p, hist) ==
    /\ t \in Seq(Segment) /\ Answered(t) /\ hist \in Seq(Entry) /\ p \in Seq(Word)
    /\ Resembles(p, Flat(Context(mode, t)), Distinct(t))
    /\ \A k \in 1..Len(hist) : SummedUp(mode, hist[k])
    /\ Stands(t, hist)
    /\ Len(hist) = 0 => BlockFree(p) /\ Resembles(p, Flat(Compacted(mode, t)), Distinct(t))
    /\ Len(hist) > 0 => Latest(p, hist[Len(hist)], Flat(Compacted(mode, t)), Distinct(t))

LEMMA CoherentTypes ==
    ASSUME NEW mode, NEW t, NEW p, NEW hist, Coherent(mode, t, p, hist)
    PROVE  /\ t \in Seq(Segment) /\ Answered(t) /\ hist \in Seq(Entry) /\ p \in Seq(Word)
           /\ Context(mode, t) \in Seq(Segment) /\ Compacted(mode, t) \in Seq(Segment)
           /\ Flat(Context(mode, t)) \in Seq(Word) /\ Flat(Compacted(mode, t)) \in Seq(Word)
           /\ Len(hist) \in Nat /\ (Len(hist) = 0 \/ Len(hist) > 0)
<1>1. t \in Seq(Segment) /\ Answered(t) /\ hist \in Seq(Entry) /\ p \in Seq(Word)
    BY DEF Coherent
<1>2. Len(hist) \in Nat
    BY <1>1
<1>3. Context(mode, t) \in Seq(Segment) /\ Compacted(mode, t) \in Seq(Segment)
    BY <1>1, ContextType DEF Context, Compacted
<1> QED BY <1>1, <1>2, <1>3, FlatType

LEMMA CoherentSaying ==
    ASSUME NEW mode, NEW t, NEW p, NEW hist, Coherent(mode, t, p, hist),
           NEW x \in Segment, ~IsBlock(x)
    PROVE  Coherent(mode, Append(t, x), p \o Words(x), hist)
<1> DEFINE u == Append(t, x)
           w == Words(x)
           q == p \o w
           d == Distinct(t)
           c == Flat(Context(mode, t))
           m == Flat(Compacted(mode, t))
<1>1. /\ t \in Seq(Segment) /\ Answered(t) /\ hist \in Seq(Entry) /\ p \in Seq(Word)
      /\ c \in Seq(Word) /\ m \in Seq(Word) /\ Len(hist) \in Nat
      /\ Context(mode, t) \in Seq(Segment) /\ Compacted(mode, t) \in Seq(Segment)
    BY CoherentTypes
<1>2. w \in Seq(Word) /\ BlockFree(w)
    BY SegmentWords
<1>3. /\ u \in Seq(Segment) /\ Answered(u) /\ Stands(u, hist)
      /\ \A k \in 1..Len(hist) : SummedUp(mode, hist[k])
    <2>1. Stands(t, hist) /\ \A k \in 1..Len(hist) : SummedUp(mode, hist[k])
        BY DEF Coherent
    <2> QED BY <1>1, <2>1, AnsweredAppend, StandsSaying
<1>4. Distinct(u) = d
    <2>1. Distinct(u) <=> d
        BY <1>1, DistinctSaying
    <2> QED BY <2>1 DEF Distinct
<1>5. Flat(Context(mode, u)) = c \o w /\ Flat(Compacted(mode, u)) = m \o w
    <2>1. /\ Context(mode, u) = Append(Context(mode, t), x)
          /\ Compacted(mode, u) = Append(Compacted(mode, t), x)
        BY <1>1, ContextOfSaying
    <2> QED BY <1>1, <2>1, FlatAppend
<1>6. Resembles(p, c, d)
    BY DEF Coherent
<1>7. Len(hist) = 0 => BlockFree(p) /\ Resembles(p, m, d)
    BY DEF Coherent
<1>8. Len(hist) > 0 => Latest(p, hist[Len(hist)], m, d)
    BY DEF Coherent
<1> HIDE DEF u, w, d, c, m
<1>9. q \in Seq(Word) /\ Resembles(q, c \o w, d)
    BY <1>1, <1>2, <1>6, ResemblesJoin
<1>10. Len(hist) = 0 => BlockFree(q) /\ Resembles(q, m \o w, d)
    BY <1>1, <1>2, <1>7, ResemblesJoin, JoinBlockFree
<1>11. Len(hist) > 0 => Latest(q, hist[Len(hist)], m \o w, d)
    <2> SUFFICES ASSUME Len(hist) > 0 PROVE Latest(q, hist[Len(hist)], m \o w, d)
        OBVIOUS
    <2> DEFINE h == hist[Len(hist)]
    <2>1. h \in Entry
        BY <1>1
    <2>2. Latest(p, h, m, d)
        BY <1>8
    <2> HIDE DEF h
    <2>3. h.summary \in Word /\ h.block \in Word /\ Words(h.output) \in Seq(Word)
        BY <2>1, EntryKinds
    <2>4. PICK a \in Seq(Word), z \in Seq(Word) :
              /\ BlockFree(a) /\ BlockFree(z)
              /\ p = Around(a \o Words(h.output), h.block, z)
              /\ Resembles(Around(a, h.summary, z), m, d)
        BY <2>2 DEF Latest
    <2>5. z \o w \in Seq(Word) /\ BlockFree(z \o w)
        BY <1>2, <2>4, JoinBlockFree
    <2>6. a \o Words(h.output) \in Seq(Word)
        BY <2>3
    <2>7. q = Around(a \o Words(h.output), h.block, z \o w)
        <3> DEFINE b == a \o Words(h.output)
        <3>1. b \in Seq(Word) /\ p = Around(b, h.block, z)
            BY <2>4, <2>6
        <3> HIDE DEF b
        <3>2. Around(b, h.block, z) \o w = Around(b, h.block, z \o w)
            <4>1. StaysBehind(b, h.block, z, w)
                BY <1>2, <2>3, <3>1, AroundJoin
            <4> QED BY <4>1 DEF StaysBehind
        <3> QED BY <3>1, <3>2 DEF b
    <2>8. Resembles(Around(a, h.summary, z \o w), m \o w, d)
        <3>1. Around(a, h.summary, z) \in Seq(Word)
            BY <2>3, AroundType
        <3>2. Around(a, h.summary, z) \o w = Around(a, h.summary, z \o w)
            <4>1. StaysBehind(a, h.summary, z, w)
                BY <1>2, <2>3, AroundJoin
            <4> QED BY <4>1 DEF StaysBehind
        <3> DEFINE r == Around(a, h.summary, z)
        <3>3. r \in Seq(Word) /\ Resembles(r, m, d)
            BY <2>4, <3>1
        <3> HIDE DEF r
        <3>4. Resembles(r \o w, m \o w, d)
            BY <1>1, <1>2, <3>3, ResemblesJoin
        <3> QED BY <3>2, <3>4 DEF r
    <2> HIDE DEF q
    <2>9. Latest(q, h, m \o w, d)
        BY <2>4, <2>5, <2>7, <2>8 DEF Latest
    <2> QED BY <2>9 DEF h
<1> HIDE DEF q
<1>12. Coherent(mode, u, q, hist)
    <2>1. Resembles(q, Flat(Context(mode, u)), Distinct(u))
        BY <1>4, <1>5, <1>9
    <2>2. Len(hist) = 0 => BlockFree(q) /\ Resembles(q, Flat(Compacted(mode, u)), Distinct(u))
        BY <1>4, <1>5, <1>10
    <2>3. Len(hist) > 0 => Latest(q, hist[Len(hist)], Flat(Compacted(mode, u)), Distinct(u))
        BY <1>4, <1>5, <1>11
    <2> QED BY <1>1, <1>3, <1>9, <2>1, <2>2, <2>3 DEF Coherent
<1> QED BY <1>12 DEF u, q, w

\* compact_previous_results compacts every result of the trajectory, whatever has been
\* said since, and nothing but free text makes a difference, if two outputs overlap.
Compacts(mode, t, p, hist, w, r) ==
    /\ r \in Seq(Word) /\ BlockFree(r)
    /\ Resembles(r, Flat(Compacted(mode, t)), AllDistinct(t))
    /\ CompactText(p \o w, hist) = r \o w

LEMMA CompactIsCompacted ==
    ASSUME NEW mode, NEW t, NEW p, NEW hist, Coherent(mode, t, p, hist),
           NEW w \in Seq(Word), BlockFree(w)
    PROVE  \E r : Compacts(mode, t, p, hist, w, r)
<1> DEFINE d == Distinct(t)
           e == AllDistinct(t)
           m == Flat(Compacted(mode, t))
<1>1. /\ t \in Seq(Segment) /\ Answered(t) /\ hist \in Seq(Entry) /\ p \in Seq(Word)
      /\ m \in Seq(Word) /\ Len(hist) \in Nat /\ (Len(hist) = 0 \/ Len(hist) > 0)
    BY CoherentTypes
<1>2. \A k \in 1..Len(hist) : SummedUp(mode, hist[k])
    BY DEF Coherent
<1>3. e \in BOOLEAN /\ (e => d)
    BY <1>1, DistinctParts
<1>4. Len(hist) = 0 => BlockFree(p) /\ Resembles(p, m, d)
    BY DEF Coherent
<1>5. Len(hist) > 0 => Latest(p, hist[Len(hist)], m, d)
    BY DEF Coherent
<1>6. e => \A k \in 1..Len(hist) : ~Confused(hist[k], hist[Len(hist)])
    BY <1>1, NotConfused DEF Coherent
<1> HIDE DEF d, e, m
<1>7. ASSUME Len(hist) = 0 PROVE \E r : Compacts(mode, t, p, hist, w, r)
    <2> DEFINE q == p \o w
    <2>1. q \in Seq(Word)
        BY <1>1
    <2> DEFINE V == {q}
    <2>2. q \in V /\ \A v \in V, i \in 1..Len(hist) : ReplaceFirst(v, hist[i]) \in V
        BY <1>7
    <2> HIDE DEF V, q
    <2>3. PICK f \in [0..Len(hist) -> V] : f[0] = q /\ CompactText(q, hist) = f[Len(hist)]
        BY <1>1, <2>2, CompactUnfolds
    <2>4. CompactText(q, hist) = q
        BY <1>7, <2>3
    <2>5. Resembles(p, m, e)
        BY <1>3, <1>4, <1>7 DEF Resembles
    <2> QED BY <1>1, <1>4, <1>7, <2>4, <2>5 DEF Compacts, q, m, e
<1>8. ASSUME Len(hist) > 0 PROVE \E r : Compacts(mode, t, p, hist, w, r)
    <2> DEFINE h == hist[Len(hist)]
    <2>1. h \in Entry
        BY <1>1, <1>8
    <2>2. Latest(p, h, m, d)
        BY <1>5, <1>8
    <2>3. PICK a \in Seq(Word), z \in Seq(Word) :
              /\ BlockFree(a) /\ BlockFree(z)
              /\ p = Around(a \o Words(h.output), h.block, z)
              /\ Resembles(Around(a, h.summary, z), m, d)
        <3> HIDE DEF h
        <3> QED BY <2>2 DEF Latest
    <2>4. h.summary \in Word /\ h.block \in Word /\ Words(h.output) \in Seq(Word) /\ ~IsBlock(h.summary)
        <3> HIDE DEF h
        <3> QED BY <2>1, EntryKinds
    <2> DEFINE b == a \o Words(h.output)
               y == z \o w
    <2>5. b \in Seq(Word) /\ y \in Seq(Word) /\ BlockFree(y)
        <3> HIDE DEF h
        <3> QED BY <2>3, <2>4, JoinBlockFree
    <2>6. p \o w = Around(b, h.block, y)
        <3>1. p = Around(b, h.block, z)
            BY <2>3
        <3>2. b \in Seq(Word)
            BY <2>5
        <3> HIDE DEF b, h
        <3>3. Around(b, h.block, z) \o w = Around(b, h.block, z \o w)
            <4>1. StaysBehind(b, h.block, z, w)
                BY <2>3, <2>4, <3>2, AroundJoin
            <4> QED BY <4>1 DEF StaysBehind
        <3> QED BY <3>1, <3>3
    <2>7. Leftover(CompactText(Around(b, h.block, y), hist), a, h, y, e)
        <3> HIDE DEF y
        <3> QED BY <1>1, <1>2, <1>3, <1>6, <1>8, <2>3, <2>5, CompactOne
    <2> HIDE DEF h, b, y
    <2>8. PICK x \in Seq(Word) :
              BlockFree(x) /\ Resembles(x, a, e) /\ CompactText(p \o w, hist) = Around(x, h.summary, y)
        BY <2>6, <2>7 DEF Leftover
    <2> DEFINE r == Around(x, h.summary, z)
               r0 == Around(a, h.summary, z)
    <2>9. r \in Seq(Word) /\ BlockFree(r)
        BY <2>3, <2>4, <2>8, AroundType
    <2>10. r \o w = Around(x, h.summary, y)
        <3>1. StaysBehind(x, h.summary, z, w)
            BY <2>3, <2>4, <2>8, AroundJoin
        <3> QED BY <3>1 DEF StaysBehind, y
    <2>11. Memory(r) = Memory(r0)
        <3>1. Memory(x) = Memory(a)
            BY <2>8 DEF Resembles
        <3> QED BY <2>3, <2>4, <3>1, AroundMemory
    <2>12. e => r = r0
        BY <2>8 DEF Resembles
    <2>13. Resembles(r0, m, d)
        BY <2>3
    <2> HIDE DEF r, r0
    <2>14. Resembles(r, m, e)
        BY <1>3, <2>11, <2>12, <2>13 DEF Resembles
    <2>15. CompactText(p \o w, hist) = r \o w
        BY <2>8, <2>10
    <2> QED BY <2>9, <2>14, <2>15 DEF Compacts, m, e
<1> QED BY <1>1, <1>7, <1>8

-------------------------------------------------------------------------------
(* A result enters the prompt                                                  *)

\* One more word.
AddsOne(b, s) == Append(b, s) = b \o <<s>> /\ Around(b, s, <<>>) = b \o <<s>>

LEMMA OneMore == ASSUME NEW b \in Seq(Word), NEW s \in Word PROVE AddsOne(b, s)
<1>1. Append(b, s) = b \o <<s>>
    OBVIOUS
<1> DEFINE c == Append(b, s)
<1>2. c \in Seq(Word)
    OBVIOUS
<1> HIDE DEF c
<1>3. c \o <<>> = c
    BY <1>2
<1> QED BY <1>1, <1>3 DEF AddsOne, Around, c

LEMMA CoherentResult ==
    ASSUME NEW mode, NEW t, NEW p, NEW hist, Coherent(mode, t, p, hist),
           NEW o \in SearchOutput, NEW b \in Block, b.reply.found => b.reply.query = o.query
    PROVE  Coherent(mode, Append(Append(t, o), b), Append(CompactText(p \o Words(o), hist), b),
                    Append(hist, EntryOf(mode, o, b)))
<1> DEFINE u == Append(t, o)
           v == Append(u, b)
           h == EntryOf(mode, o, b)
           more == Append(hist, h)
           q == Append(CompactText(p \o Words(o), hist), b)
           w == Words(o)
           m == Flat(Compacted(mode, t))
           d == Distinct(v)
           bs == <<b>>
           s == h.summary
           ss == <<s>>
           none == <<>>
<1>1. /\ t \in Seq(Segment) /\ Answered(t) /\ hist \in Seq(Entry) /\ p \in Seq(Word)
      /\ m \in Seq(Word) /\ Len(hist) \in Nat /\ Compacted(mode, t) \in Seq(Segment)
    BY CoherentTypes
<1>2. /\ o \in Segment /\ ~IsBlock(o) /\ o.query \in Query /\ b \in Segment /\ IsBlock(b)
      /\ b \in Word /\ w \in Seq(Word) /\ BlockFree(w)
    BY SearchKinds, SegmentParts, SegmentWords, WordKinds DEF Block, IsBlock
<1>3. h \in Entry /\ h.output = o /\ h.block = b /\ s = SummaryIn(mode, o.query, b)
    <2>1. SummaryIn(mode, o.query, b) \in Summarised
        BY <1>2, SummaryInType
    <2> QED BY <2>1 DEF EntryOf, Entry
<1>4. s \in Segment /\ s \in Word /\ s \in Summarised
    <2> HIDE DEF h
    <2> QED BY <1>3, EntryKinds DEF Entry
<1>5. v \in Seq(Segment) /\ Answered(u) /\ Answered(v)
    <2>1. u \in Seq(Segment) /\ Answered(u) /\ Len(u) > 0 /\ u[Len(u)] = o
        BY <1>1, <1>2, AnsweredAppend
    <2> HIDE DEF u
    <2> QED BY <1>2, <2>1, AnsweredAppend
<1>6. PICK r : Compacts(mode, t, p, hist, w, r)
    BY <1>2, CompactIsCompacted
<1>7. d => AllDistinct(t)
    BY <1>1, DistinctResult
<1>8. r \in Seq(Word) /\ BlockFree(r) /\ Resembles(r, m, d) /\ CompactText(p \o w, hist) = r \o w
    BY <1>6, <1>7 DEF Compacts, Resembles
<1>9. Stands(v, more)
    BY <1>1, StandsResult DEF Coherent
<1>10. bs \in Seq(Word) /\ ss \in Seq(Word) /\ Words(b) = bs /\ Words(s) = ss
    <2>1. b.says = "result" /\ s.says = "summary"
        BY <1>4 DEF Block, Summarised
    <2>2. Words(b) = <<b>> /\ Words(s) = <<s>>
        <3> HIDE DEF s
        <3> QED BY <2>1 DEF Words
    <2>3. \A e \in Word : <<e>> \in Seq(Word)
        OBVIOUS
    <2> HIDE DEF s
    <2> QED BY <1>2, <1>4, <2>2, <2>3
<1>11. Flat(Context(mode, v)) = (m \o w) \o bs /\ Flat(Compacted(mode, v)) = m \o ss
    <2> DEFINE k == Compacted(mode, t)
               k1 == Append(k, o)
    <2>1. Context(mode, v) = Append(k1, b) /\ Compacted(mode, v) = Append(k, s)
        <3>1. /\ Context(mode, v) = Append(Append(Compacted(mode, t), o), b)
              /\ Compacted(mode, v) = Append(Compacted(mode, t), SummaryIn(mode, o.query, b))
            BY <1>1, <1>5, ContextOfResult
        <3> QED BY <1>3, <3>1
    <2>2. k \in Seq(Segment) /\ k1 \in Seq(Segment)
        BY <1>1, <1>2
    <2>3. Flat(k) = m
        OBVIOUS
    <2> HIDE DEF k, m, s, v
    <2>4. Flat(k1) = Flat(k) \o Words(o) /\ Flat(Append(k, s)) = Flat(k) \o Words(s)
        BY <1>2, <1>4, <2>2, FlatAppend
    <2> HIDE DEF k1
    <2>5. Flat(Append(k1, b)) = Flat(k1) \o Words(b)
        BY <1>2, <2>2, FlatAppend
    <2> QED BY <1>10, <2>1, <2>3, <2>4, <2>5
<1>12. /\ Len(more) = Len(hist) + 1 /\ more[Len(hist) + 1] = h /\ more \in Seq(Entry)
       /\ \A k \in 1..Len(hist) : more[k] = hist[k]
    <2> HIDE DEF h
    <2> QED BY <1>1, <1>3
<1>13. \A k \in 1..Len(hist) : SummedUp(mode, hist[k])
    BY DEF Coherent
<1>14. SummedUp(mode, h)
    BY <1>3 DEF SummedUp
<1>15. q = Append(r \o w, b)
    BY <1>8
<1> HIDE DEF u, v, h, more, q, w, m, d, bs, ss, s, none
<1>16. r \o w \in Seq(Word) /\ m \o w \in Seq(Word)
    BY <1>1, <1>2, <1>8
<1>17. q = (r \o w) \o bs /\ q = Around(r \o w, b, none)
    <2> DEFINE c == r \o w
    <2>1. c \in Seq(Word) /\ q = Append(c, b)
        BY <1>15, <1>16
    <2> HIDE DEF c
    <2>2. AddsOne(c, b)
        BY <1>2, <2>1, OneMore
    <2> QED BY <2>1, <2>2 DEF AddsOne, c, bs, none
<1>18. Around(r, s, none) = r \o ss
    <2>1. AddsOne(r, s)
        BY <1>4, <1>8, OneMore
    <2> QED BY <2>1 DEF AddsOne, ss, none
<1>19. q \in Seq(Word) /\ Resembles(q, Flat(Context(mode, v)), d)
    <2>1. Resembles(r \o w, m \o w, d)
        BY <1>1, <1>2, <1>8, ResemblesJoin
    <2> DEFINE c == r \o w
               e == m \o w
    <2>2. c \in Seq(Word) /\ e \in Seq(Word) /\ Resembles(c, e, d)
        BY <1>16, <2>1
    <2> HIDE DEF c, e
    <2>3. Resembles(c \o bs, e \o bs, d) /\ c \o bs \in Seq(Word)
        BY <1>10, <2>2, ResemblesJoin
    <2> QED BY <1>11, <1>17, <2>3 DEF c, e
<1>20. Latest(q, h, Flat(Compacted(mode, v)), d)
    <2>1. Resembles(Around(r, s, none), m \o ss, d)
        <3>1. Resembles(r \o ss, m \o ss, d)
            BY <1>1, <1>8, <1>10, ResemblesJoin
        <3> QED BY <1>18, <3>1
    <2>2. none \in Seq(Word) /\ BlockFree(none)
        BY DEF none, BlockFree
    <2>3. q = Around(r \o Words(h.output), h.block, none)
        BY <1>3, <1>17 DEF w
    <2> QED BY <1>8, <1>11, <2>1, <2>2, <2>3 DEF Latest, s
<1>21. \A k \in 1..Len(more) : SummedUp(mode, more[k])
    BY <1>1, <1>12, <1>13, <1>14
<1>22. Len(more) > 0 /\ ~(Len(more) = 0) /\ more[Len(more)] = h
    BY <1>1, <1>12
<1>23. Coherent(mode, v, q, more)
    BY <1>5, <1>9, <1>12, <1>19, <1>20, <1>21, <1>22 DEF Coherent, d
<1> QED BY <1>23 DEF v, u, q, more, h, w

-------------------------------------------------------------------------------
(* The model's own texts in a trajectory                                       *)

ModelTexts(text) == Where(text, IsModelText)
Outputs(steps)   == [k \in DOMAIN steps |-> steps[k].output]
TextsTo(text, i) == {j \in 1..i : IsModelText(text[j])}
Spoken(text)     == Cardinality(TextsTo(text, Len(text)))

\* The places where the k-th text stands, and what stands before it.
PlacesOf(text, k) ==
    {i \in DOMAIN text : IsModelText(text[i]) /\ Cardinality(TextsTo(text, i)) = k}
TextBefore(text, k) ==
    IF PlacesOf(text, k) = {} THEN text
    ELSE SubSeq(text, 1, (CHOOSE i \in PlacesOf(text, k) : TRUE) - 1)

LEMMA ModelTextsAppend ==
    ASSUME NEW t \in Seq(Segment), NEW x \in Segment
    PROVE  /\ IsModelText(x) => ModelTexts(Append(t, x)) = Append(ModelTexts(t), x)
           /\ ~IsModelText(x) => ModelTexts(Append(t, x)) = ModelTexts(t)
<1> DEFINE u == Append(t, x)
           K == {i \in DOMAIN t : IsModelText(t[i])}
           L == {i \in DOMAIN u : IsModelText(u[i])}
<1>1. /\ Len(t) \in Nat /\ DOMAIN t = 1..Len(t) /\ DOMAIN u = 1..(Len(t) + 1)
      /\ u[Len(t) + 1] = x /\ \A i \in 1..Len(t) : u[i] = t[i]
    OBVIOUS
<1> HIDE DEF u
<1>2. Len(t) + 1 \in L <=> IsModelText(x)
    BY <1>1
<1>3. \A i \in 1..Len(t) : i \in K <=> i \in L
    BY <1>1
<1> HIDE DEF K, L
<1>4. /\ Len(t) + 1 \in L => Pick(u, L) = Append(Pick(t, L), x)
      /\ Len(t) + 1 \notin L => Pick(u, L) = Pick(t, L)
    BY PickAppend DEF u
<1>5. Pick(t, L) = Pick(t, K)
    BY <1>3, PickAgree
<1> QED BY <1>2, <1>4, <1>5 DEF ModelTexts, Where, u, K, L

LEMMA OutputsAppend ==
    ASSUME NEW steps \in Seq(StepRecord), NEW step \in StepRecord
    PROVE  /\ Outputs(steps) \in Seq(Segment)
           /\ Outputs(Append(steps, step)) = Append(Outputs(steps), step.output)
<1> DEFINE n == Len(steps)
           a == Outputs(steps)
           b == Outputs(Append(steps, step))
           s == Append(steps, step)
<1>1. /\ n \in Nat /\ DOMAIN steps = 1..n /\ DOMAIN s = 1..(n + 1)
      /\ s \in Seq(StepRecord) /\ Len(s) = n + 1 /\ s[n + 1] = step
      /\ \A i \in 1..n : s[i] = steps[i]
    OBVIOUS
<1>2. \A r \in StepRecord : r.output \in Segment
    BY DEF StepRecord
<1>3. a \in Seq(Segment) /\ Len(a) = n /\ \A i \in 1..n : a[i] = steps[i].output
    <2>1. \A i \in 1..n : steps[i].output \in Segment
        BY <1>2
    <2> QED BY <1>1, <2>1 DEF Outputs
<1> HIDE DEF s, n
<1>4. b \in Seq(Segment) /\ Len(b) = n + 1 /\ \A i \in 1..(n + 1) : b[i] = s[i].output
    <2>1. \A i \in 1..(n + 1) : s[i].output \in Segment
        BY <1>1, <1>2
    <2>2. b = [i \in 1..(n + 1) |-> s[i].output]
        BY <1>1 DEF Outputs, s
    <2>3. n + 1 \in Nat
        BY <1>1
    <2> HIDE DEF b
    <2> QED BY <2>1, <2>2, <2>3
<1> HIDE DEF a, b
<1> DEFINE c == Append(a, step.output)
<1>5. /\ c \in Seq(Segment) /\ Len(c) = n + 1 /\ c[n + 1] = step.output
      /\ \A i \in 1..n : c[i] = a[i]
    BY <1>1, <1>2, <1>3
<1> HIDE DEF c
<1>6. ASSUME NEW i \in 1..(n + 1) PROVE b[i] = c[i]
    <2>1. CASE i \in 1..n
        BY <1>1, <1>3, <1>4, <1>5, <2>1
    <2>2. CASE i = n + 1
        BY <1>1, <1>4, <1>5, <2>2
    <2> QED BY <1>1, <2>1, <2>2
<1>7. b = c
    BY <1>4, <1>5, <1>6, SeqEqual
<1> QED BY <1>3, <1>7 DEF a, b, c, s

LEMMA TextsAppend ==
    ASSUME NEW t \in Seq(Segment), NEW x \in Segment
    PROVE  /\ Spoken(t) \in Nat
           /\ \A i \in 1..Len(t) : /\ TextsTo(Append(t, x), i) = TextsTo(t, i)
                                   /\ Cardinality(TextsTo(t, i)) \in Nat
                                   /\ Cardinality(TextsTo(t, i)) <= Spoken(t)
           /\ Cardinality(TextsTo(Append(t, x), Len(t) + 1)) = Spoken(Append(t, x))
           /\ IsModelText(x) => Spoken(Append(t, x)) = Spoken(t) + 1
           /\ ~IsModelText(x) => Spoken(Append(t, x)) = Spoken(t)
<1> DEFINE u == Append(t, x)
           n == Len(t)
<1>1. n \in Nat /\ Len(u) = n + 1 /\ u[n + 1] = x /\ \A i \in 1..n : u[i] = t[i]
    OBVIOUS
<1> HIDE DEF u, n
<1>2. IsFiniteSet(TextsTo(t, n)) /\ Spoken(t) \in Nat
    <2>1. IsFiniteSet(1..n) /\ TextsTo(t, n) \in SUBSET (1..n)
        BY <1>1, FS_Interval DEF TextsTo
    <2> QED BY <2>1, FS_Subset, FS_CardinalityType DEF Spoken, n
<1>3. ASSUME NEW i \in 1..n
      PROVE  /\ TextsTo(u, i) = TextsTo(t, i) /\ Cardinality(TextsTo(t, i)) \in Nat
             /\ Cardinality(TextsTo(t, i)) <= Spoken(t)
    <2>1. TextsTo(u, i) = TextsTo(t, i)
        BY <1>1 DEF TextsTo
    <2>2. TextsTo(t, i) \in SUBSET TextsTo(t, n)
        BY <1>1 DEF TextsTo
    <2> QED BY <1>2, <2>1, <2>2, FS_Subset, FS_CardinalityType DEF Spoken, n
<1>4. /\ IsModelText(x) => TextsTo(u, n + 1) = TextsTo(t, n) \cup {n + 1}
      /\ ~IsModelText(x) => TextsTo(u, n + 1) = TextsTo(t, n)
    <2>1. \A j \in 1..(n + 1) : j \in 1..n \/ j = n + 1
        BY <1>1
    <2>2. \A j \in 1..n : j \in 1..(n + 1) /\ u[j] = t[j]
        BY <1>1
    <2>3. n + 1 \in 1..(n + 1)
        BY <1>1
    <2> QED BY <1>1, <2>1, <2>2, <2>3 DEF TextsTo
<1>5. n + 1 \notin TextsTo(t, n)
    BY <1>1 DEF TextsTo
<1>6. Cardinality(TextsTo(t, n) \cup {n + 1}) = Cardinality(TextsTo(t, n)) + 1
    BY <1>2, <1>5, FS_AddElement
<1> QED BY <1>1, <1>2, <1>3, <1>4, <1>6 DEF Spoken, u, n

\* Where the texts stand does not change when the trajectory grows.
LEMMA PlacesAppend ==
    ASSUME NEW t \in Seq(Segment), NEW x \in Segment, NEW k \in Int
    PROVE  /\ k <= Spoken(t) => PlacesOf(Append(t, x), k) = PlacesOf(t, k)
           /\ k = Spoken(t) + 1 => PlacesOf(t, k) = {}
           /\ k = Spoken(t) + 1 /\ IsModelText(x) => PlacesOf(Append(t, x), k) = {Len(t) + 1}
<1> DEFINE u == Append(t, x)
           n == Len(t)
<1>1. /\ n \in Nat /\ DOMAIN t = 1..n /\ DOMAIN u = 1..(n + 1) /\ Len(u) = n + 1
      /\ u[n + 1] = x /\ \A i \in 1..n : u[i] = t[i]
    OBVIOUS
<1>2. /\ Spoken(t) \in Nat
      /\ \A i \in 1..n : /\ TextsTo(u, i) = TextsTo(t, i)
                         /\ Cardinality(TextsTo(t, i)) \in Nat
                         /\ Cardinality(TextsTo(t, i)) <= Spoken(t)
      /\ IsModelText(x) => Cardinality(TextsTo(u, n + 1)) = Spoken(t) + 1
    BY TextsAppend
<1> HIDE DEF u, n
<1>3. \A i \in 1..(n + 1) : i \in 1..n \/ i = n + 1
    BY <1>1
<1>4. \A i \in 1..n : i \in PlacesOf(u, k) <=> i \in PlacesOf(t, k)
    <2>1. \A i \in 1..n : i \in 1..(n + 1)
        BY <1>1
    <2> QED BY <1>1, <1>2, <2>1 DEF PlacesOf
<1>5. PlacesOf(u, k) \subseteq 1..(n + 1) /\ PlacesOf(t, k) \subseteq 1..n
    BY <1>1 DEF PlacesOf
<1>6. n + 1 \in PlacesOf(u, k) <=> IsModelText(x) /\ k = Spoken(t) + 1
    <2>1. n + 1 \in 1..(n + 1)
        BY <1>1
    <2> QED BY <1>1, <1>2, <2>1 DEF PlacesOf
<1>7. k = Spoken(t) + 1 => PlacesOf(t, k) = {}
    BY <1>1, <1>2 DEF PlacesOf
<1>8. ASSUME k <= Spoken(t) PROVE PlacesOf(u, k) = PlacesOf(t, k)
    <2>1. k # Spoken(t) + 1
        BY <1>2, <1>8
    <2> QED BY <1>3, <1>4, <1>5, <1>6, <2>1
<1>9. ASSUME k = Spoken(t) + 1, IsModelText(x) PROVE PlacesOf(u, k) = {n + 1}
    BY <1>3, <1>4, <1>5, <1>6, <1>7, <1>9
<1> QED BY <1>7, <1>8, <1>9 DEF u, n

\* What stands before the k-th text does not change when the trajectory grows.
LEMMA BeforeAppend ==
    ASSUME NEW t \in Seq(Segment), NEW x \in Segment, NEW k \in Int
    PROVE  /\ k <= Spoken(t) /\ PlacesOf(t, k) # {}
                  => TextBefore(Append(t, x), k) = TextBefore(t, k)
           /\ k = Spoken(t) + 1 => TextBefore(t, k) = t
           /\ k = Spoken(t) + 1 /\ IsModelText(x) => TextBefore(Append(t, x), k) = t
<1> DEFINE u == Append(t, x)
           n == Len(t)
<1>1. /\ n \in Nat /\ Len(u) = n + 1 /\ DOMAIN t = 1..n /\ u \in Seq(Segment)
      /\ \A i \in 1..n : u[i] = t[i]
    OBVIOUS
<1>2. ASSUME NEW m \in 0..n PROVE SubSeq(u, 1, m) = SubSeq(t, 1, m)
    <2>1. \A i \in 1..m : i \in 1..n
        BY <1>1
    <2>2. \A i \in 1..m : u[i] = t[i] /\ t[i] \in Segment
        BY <1>1, <2>1
    <2> HIDE DEF u, n
    <2>3. m \in Nat /\ (1 <= m => m - 1 + 1 = m) /\ (~(1 <= m) => m = 0)
        BY <1>1
    <2>4. /\ SubSeq(u, 1, m) \in Seq(Segment) /\ SubSeq(t, 1, m) \in Seq(Segment)
          /\ Len(SubSeq(u, 1, m)) = m /\ Len(SubSeq(t, 1, m)) = m
          /\ \A i \in 1..m : SubSeq(u, 1, m)[i] = u[i] /\ SubSeq(t, 1, m)[i] = t[i]
        BY <2>2, <2>3
    <2> QED BY <2>2, <2>4, SeqEqual
<1>3. SubSeq(t, 1, n) = t
    BY SubSeqFull
<1> HIDE DEF u, n
<1>4. ASSUME k <= Spoken(t), PlacesOf(t, k) # {} PROVE TextBefore(u, k) = TextBefore(t, k)
    <2>1. PlacesOf(u, k) = PlacesOf(t, k)
        BY <1>4, PlacesAppend DEF u
    <2> DEFINE c == CHOOSE i \in PlacesOf(t, k) : TRUE
    <2>2. c \in PlacesOf(t, k)
        BY <1>4
    <2>3. c \in 1..n
        BY <1>1, <2>2 DEF PlacesOf
    <2>4. c - 1 \in 0..n
        BY <1>1, <2>3
    <2> HIDE DEF c
    <2>5. SubSeq(u, 1, c - 1) = SubSeq(t, 1, c - 1)
        BY <1>2, <2>4
    <2> QED BY <1>4, <2>1, <2>5 DEF TextBefore, c
<1>5. ASSUME k = Spoken(t) + 1 PROVE TextBefore(t, k) = t
    BY <1>5, PlacesAppend DEF TextBefore
<1>6. ASSUME k = Spoken(t) + 1, IsModelText(x) PROVE TextBefore(u, k) = t
    <2>1. PlacesOf(u, k) = {n + 1}
        BY <1>6, PlacesAppend DEF u, n
    <2>2. (CHOOSE i \in PlacesOf(u, k) : TRUE) = n + 1
        BY <2>1
    <2>3. (n + 1) - 1 = n /\ n \in 0..n
        BY <1>1
    <2> QED BY <1>2, <1>3, <2>1, <2>2, <2>3 DEF TextBefore
<1> QED BY <1>4, <1>5, <1>6 DEF u

\* The words show the context of the text.
Shows(mode, words, text) == Resembles(words, Flat(Context(mode, text)), Distinct(text))

\* The model steps of a rollout are its trajectory's texts, each with what the
\* policy was shown before it; an empty output leaves no text.
Replays(mode, t, steps) ==
    /\ t \in Seq(Segment) /\ steps \in Seq(StepRecord)
    /\ Len(steps) >= Spoken(t)
    /\ \A k \in 1..Spoken(t) : PlacesOf(t, k) # {}
    /\ \A k \in 1..Len(steps) : Shows(mode, steps[k].prompt, TextBefore(t, k))
    /\ ModelTexts(t) = ModelTexts(Outputs(steps))

LEMMA ReplaysRetrieving ==
    ASSUME NEW mode, NEW t, NEW steps, Replays(mode, t, steps), Len(steps) = Spoken(t),
           NEW x \in Segment, ~IsModelText(x)
    PROVE  Replays(mode, Append(t, x), steps) /\ Spoken(Append(t, x)) = Spoken(t)
<1>1. /\ t \in Seq(Segment) /\ Append(t, x) \in Seq(Segment) /\ Spoken(t) \in Nat
      /\ Spoken(Append(t, x)) = Spoken(t)
    BY TextsAppend DEF Replays
<1>2. ASSUME NEW k \in 1..Spoken(t)
      PROVE  /\ PlacesOf(Append(t, x), k) # {}
             /\ TextBefore(Append(t, x), k) = TextBefore(t, k)
    <2>1. k \in Int /\ k <= Spoken(t) /\ PlacesOf(t, k) # {}
        BY <1>1 DEF Replays
    <2> QED BY <1>1, <2>1, PlacesAppend, BeforeAppend
<1>3. ModelTexts(Append(t, x)) = ModelTexts(t)
    BY <1>1, ModelTextsAppend
<1> QED BY <1>1, <1>2, <1>3 DEF Replays

LEMMA ReplaysSpeaking ==
    ASSUME NEW mode, NEW t, NEW steps, Replays(mode, t, steps), Len(steps) = Spoken(t),
           NEW step \in StepRecord, Shows(mode, step.prompt, t)
    PROVE  /\ IsModelText(step.output) =>
                  /\ Replays(mode, Append(t, step.output), Append(steps, step))
                  /\ Len(Append(steps, step)) = Spoken(Append(t, step.output))
           /\ ~IsModelText(step.output) => Replays(mode, t, Append(steps, step))
<1> DEFINE x == step.output
           u == Append(t, x)
           more == Append(steps, step)
           n == Spoken(t)
<1>1. t \in Seq(Segment) /\ steps \in Seq(StepRecord) /\ x \in Segment
    BY DEF Replays, StepRecord
<1>2. n \in Nat /\ (IsModelText(x) => Spoken(u) = n + 1)
    BY <1>1, TextsAppend
<1>3. u \in Seq(Segment)
    BY <1>1
<1>4. /\ more \in Seq(StepRecord) /\ Len(more) = n + 1 /\ more[n + 1] = step
      /\ \A k \in 1..n : more[k] = steps[k]
    BY <1>1
<1>5. /\ Outputs(steps) \in Seq(Segment) /\ Outputs(more) = Append(Outputs(steps), x)
    BY <1>1, OutputsAppend
<1> HIDE DEF x, u, more, n
<1>6. ASSUME NEW k \in 1..n
      PROVE  /\ PlacesOf(t, k) # {} /\ Shows(mode, steps[k].prompt, TextBefore(t, k))
             /\ PlacesOf(u, k) # {} /\ TextBefore(u, k) = TextBefore(t, k)
    <2>1. k \in Int /\ k <= Spoken(t) /\ PlacesOf(t, k) # {}
        BY <1>2 DEF Replays, n
    <2>2. Shows(mode, steps[k].prompt, TextBefore(t, k))
        BY DEF Replays, n
    <2> QED BY <1>1, <2>1, <2>2, PlacesAppend, BeforeAppend DEF u
<1>7. \A k \in 1..(n + 1) : k \in 1..n \/ k = n + 1
    BY <1>2
<1>8. ASSUME IsModelText(x) PROVE Replays(mode, u, more) /\ Len(more) = Spoken(u)
    <2>1. TextBefore(u, n + 1) = t /\ PlacesOf(u, n + 1) # {}
        <3>1. n + 1 \in Int /\ n + 1 = Spoken(t) + 1
            BY <1>2 DEF n
        <3> QED BY <1>1, <1>8, <3>1, PlacesAppend, BeforeAppend DEF u
    <2>2. \A k \in 1..(n + 1) :
              PlacesOf(u, k) # {} /\ Shows(mode, more[k].prompt, TextBefore(u, k))
        BY <1>4, <1>6, <1>7, <2>1
    <2>3. ModelTexts(u) = Append(ModelTexts(t), x)
        BY <1>1, <1>8, ModelTextsAppend DEF u
    <2>4. ModelTexts(Outputs(more)) = Append(ModelTexts(Outputs(steps)), x)
        BY <1>1, <1>5, <1>8, ModelTextsAppend
    <2>5. ModelTexts(u) = ModelTexts(Outputs(more))
        BY <2>3, <2>4 DEF Replays
    <2>6. Spoken(u) = n + 1 /\ n + 1 >= n + 1
        BY <1>2, <1>8
    <2> QED BY <1>3, <1>4, <2>2, <2>5, <2>6 DEF Replays
<1>9. ASSUME ~IsModelText(x) PROVE Replays(mode, t, more)
    <2>1. TextBefore(t, n + 1) = t
        <3>1. n + 1 \in Int /\ n + 1 = Spoken(t) + 1
            BY <1>2 DEF n
        <3> QED BY <1>1, <3>1, BeforeAppend
    <2>2. \A k \in 1..(n + 1) : Shows(mode, more[k].prompt, TextBefore(t, k))
        BY <1>4, <1>6, <1>7, <2>1
    <2>3. ModelTexts(Outputs(more)) = ModelTexts(Outputs(steps))
        BY <1>1, <1>5, <1>9, ModelTextsAppend
    <2>4. Len(more) >= Spoken(t)
        BY <1>2, <1>4 DEF n
    <2> QED BY <1>1, <1>4, <1>6, <2>2, <2>3, <2>4 DEF Replays, n
<1> QED BY <1>8, <1>9 DEF x, u, more

-------------------------------------------------------------------------------
(* One trajectory                                                              *)

LEMMA BlocksAppend ==
    ASSUME NEW t \in Seq(Segment), NEW x \in Segment
    PROVE  /\ Cardinality(Blocks(t)) \in Nat
           /\ IsBlock(x) => Cardinality(Blocks(Append(t, x))) = Cardinality(Blocks(t)) + 1
           /\ ~IsBlock(x) => Blocks(Append(t, x)) = Blocks(t)
<1> DEFINE u == Append(t, x)
           n == Len(t)
<1>1. /\ n \in Nat /\ DOMAIN t = 1..n /\ DOMAIN u = 1..(n + 1) /\ u[n + 1] = x
      /\ \A i \in 1..n : u[i] = t[i]
    OBVIOUS
<1> HIDE DEF u, n
<1>2. IsFiniteSet(Blocks(t)) /\ Cardinality(Blocks(t)) \in Nat
    <2>1. IsFiniteSet(1..n) /\ Blocks(t) \in SUBSET (1..n)
        BY <1>1, FS_Interval DEF Blocks
    <2> QED BY <2>1, FS_Subset, FS_CardinalityType
<1>3. /\ IsBlock(x) => Blocks(u) = Blocks(t) \cup {n + 1}
      /\ ~IsBlock(x) => Blocks(u) = Blocks(t)
    <2>1. \A j \in 1..(n + 1) : j \in 1..n \/ j = n + 1
        BY <1>1
    <2>2. \A j \in 1..n : j \in 1..(n + 1)
        BY <1>1
    <2>3. n + 1 \in 1..(n + 1)
        BY <1>1
    <2> QED BY <1>1, <2>1, <2>2, <2>3 DEF Blocks
<1>4. n + 1 \notin Blocks(t)
    BY <1>1 DEF Blocks
<1>5. Cardinality(Blocks(t) \cup {n + 1}) = Cardinality(Blocks(t)) + 1
    BY <1>2, <1>4, FS_AddElement
<1> QED BY <1>2, <1>3, <1>5 DEF u

LEMMA FoundGoldAppend ==
    ASSUME NEW t \in Seq(Segment), NEW x \in Segment
    PROVE  /\ ~IsBlock(x) => (FoundGold(Append(t, x)) <=> FoundGold(t))
           /\ IsBlock(x) => (FoundGold(Append(t, x)) <=> FoundGold(t) \/ IsGold(x))
<1> DEFINE u == Append(t, x)
           n == Len(t)
           Golden(y) == /\ IsBlock(y)
                        /\ \/ \E q \in GoldQuery : y.reply = [found |-> TRUE, query |-> q]
                           \/ y.reply = [found |-> FALSE, names |-> TRUE]
<1>1. /\ n \in Nat /\ DOMAIN t = 1..n /\ DOMAIN u = 1..(n + 1) /\ u[n + 1] = x
      /\ \A i \in 1..n : u[i] = t[i] /\ i \in 1..(n + 1)
      /\ \A i \in 1..(n + 1) : i \in 1..n \/ i = n + 1
      /\ n + 1 \in 1..(n + 1)
    OBVIOUS
<1> HIDE DEF u, n
<1>2. ASSUME IsBlock(x) PROVE IsGold(x) <=> Golden(x)
    <2>1. x \in Block
        BY <1>2, SegmentKinds DEF IsBlock
    <2>2. PICK q \in Query : x.reply \in Reply(q)
        BY <2>1 DEF Block, AnyReply
    <2>3. CASE x.reply = [found |-> TRUE, query |-> q]
        <3>1. x.reply.found = TRUE /\ x.reply.query = q
            BY <2>3
        <3>2. \A r : [found |-> TRUE, query |-> q] = [found |-> TRUE, query |-> r] => q = r
            OBVIOUS
        <3>3. [found |-> FALSE, names |-> TRUE].found = FALSE
            OBVIOUS
        <3>4. x.reply # [found |-> FALSE, names |-> TRUE]
            BY <3>1, <3>3
        <3> QED BY <1>2, <2>3, <3>1, <3>2, <3>4 DEF IsGold
    <2>4. CASE \E k \in BOOLEAN : x.reply = [found |-> FALSE, names |-> k]
        <3>1. PICK k \in BOOLEAN : x.reply = [found |-> FALSE, names |-> k]
            BY <2>4
        <3>2. x.reply.found = FALSE /\ x.reply.names = k
            BY <3>1
        <3>3. \A r : [found |-> TRUE, query |-> r].found = TRUE
            OBVIOUS
        <3>4. x.reply = [found |-> FALSE, names |-> TRUE] <=> k = TRUE
            <4>1. [found |-> FALSE, names |-> TRUE].names = TRUE
                OBVIOUS
            <4> QED BY <3>1, <3>2, <4>1
        <3>5. IsGold(x) = k
            BY <3>2 DEF IsGold
        <3> QED BY <1>2, <3>2, <3>3, <3>4, <3>5
    <2> QED BY <2>2, <2>3, <2>4 DEF Reply
<1> HIDE DEF Golden
<1>3. FoundGold(u) <=> \E i \in 1..(n + 1) : Golden(u[i])
    BY <1>1 DEF FoundGold, Golden
<1>4. FoundGold(t) <=> \E i \in 1..n : Golden(t[i])
    BY <1>1 DEF FoundGold, Golden
<1>5. FoundGold(u) <=> FoundGold(t) \/ Golden(x)
    BY <1>1, <1>3, <1>4
<1>6. Golden(x) => IsBlock(x)
    BY DEF Golden
<1> QED BY <1>2, <1>5, <1>6 DEF u

\* Everything that is kept of one trajectory fits together.
Thread(mode, t, p, steps, hist, count, found, done) ==
    /\ Coherent(mode, t, p, hist)
    /\ Replays(mode, t, steps)
    /\ ~done => Len(steps) = Spoken(t)
    /\ count = Cardinality(Blocks(t)) /\ count = Len(hist)
    /\ found \in BOOLEAN /\ (found <=> FoundGold(t))

LEMMA ThreadStarts ==
    ASSUME NEW mode
    PROVE  Thread(mode, <<>>, <<>>, <<>>, <<>>, 0, FALSE, FALSE)
<1>1. <<>> \in Seq(Segment) /\ <<>> \in Seq(Entry) /\ <<>> \in Seq(StepRecord) /\ Len(<<>>) = 0
    OBVIOUS
<1>2. 1..0 = {} /\ DOMAIN <<>> = {}
    OBVIOUS
<1>3. Answered(<<>>) /\ BlockFree(<<>>)
    BY <1>1, <1>2 DEF Answered, BlockFree
<1>4. \A last : ContextTo(mode, <<>>, last) = <<>>
    <2>1. \A last : [i \in 1..0 |-> Shown(mode, <<>>, last, i)] = <<>>
        BY <1>2
    <2> QED BY <1>1, <1>2, <2>1, PickEmpty DEF ContextTo
<1>5. Flat(Context(mode, <<>>)) = <<>> /\ Flat(Compacted(mode, <<>>)) = <<>>
    <2>1. Context(mode, <<>>) = <<>> /\ Compacted(mode, <<>>) = <<>>
        BY <1>4 DEF Context, Compacted
    <2>2. [i \in DOMAIN <<>> |-> Words(<<>>[i])] = <<>>
        BY <1>2
    <2>3. Flat(<<>>) = <<>>
        BY <2>2, FlattenEmpty DEF Flat
    <2> QED BY <2>1, <2>3
<1>6. Coherent(mode, <<>>, <<>>, <<>>)
    <2>1. Stands(<<>>, <<>>) /\ <<>> \in Seq(Word) /\ ~(Len(<<>>) > 0)
        BY <1>1, <1>2 DEF Stands
    <2> QED BY <1>1, <1>2, <1>3, <1>5, <2>1 DEF Coherent, Resembles
<1>7. Spoken(<<>>) = 0
    <2>1. TextsTo(<<>>, 0) = {}
        BY <1>2 DEF TextsTo
    <2> QED BY <1>1, <2>1, FS_EmptySet DEF Spoken
<1>8. ModelTexts(<<>>) = ModelTexts(Outputs(<<>>))
    <2>1. Outputs(<<>>) = <<>>
        BY <1>2 DEF Outputs
    <2> QED BY <2>1
<1>9. Replays(mode, <<>>, <<>>)
    BY <1>1, <1>2, <1>7, <1>8 DEF Replays
<1>10. Blocks(<<>>) = {} /\ ~FoundGold(<<>>)
    BY <1>2 DEF Blocks, FoundGold
<1> QED BY <1>1, <1>6, <1>7, <1>9, <1>10, FS_EmptySet DEF Thread

\* An unfinished trajectory says something, and the loop goes on or finishes it.
LEMMA ThreadSaying ==
    ASSUME NEW mode, NEW t, NEW p, NEW steps, NEW hist, NEW count, NEW found,
           Thread(mode, t, p, steps, hist, count, found, FALSE), NEW o \in Output
    PROVE  Thread(mode, Extend(t, o), ExtendPrompt(p, o), Append(steps, ModelStep(p, o, o, FALSE)),
                  hist, count, found, Ends(o))
<1> DEFINE step == ModelStep(p, o, o, FALSE)
<1>1. /\ t \in Seq(Segment) /\ p \in Seq(Word) /\ Shows(mode, p, t)
      /\ Coherent(mode, t, p, hist) /\ Replays(mode, t, steps) /\ Len(steps) = Spoken(t)
    <2>1. Coherent(mode, t, p, hist) /\ Replays(mode, t, steps) /\ Len(steps) = Spoken(t)
        BY DEF Thread
    <2> QED BY <2>1 DEF Coherent, Shows
<1>2. o \in Segment /\ ~IsBlock(o)
    BY OutputKinds
<1>3. step \in StepRecord /\ Shows(mode, step.prompt, t) /\ step.output = o
    BY <1>1, <1>2 DEF ModelStep, StepRecord
<1> HIDE DEF step
<1>4. CASE o = Empty
    <2>1. ~IsModelText(o) /\ Ends(o) /\ Extend(t, o) = t /\ ExtendPrompt(p, o) = p
        BY <1>4 DEF Empty, IsModelText, Ends, Extend, ExtendPrompt
    <2>2. Replays(mode, t, Append(steps, step))
        BY <1>1, <1>3, <2>1, ReplaysSpeaking
    <2> QED BY <2>1, <2>2 DEF Thread, step
<1>5. CASE o # Empty
    <2>1. IsModelText(o) /\ Extend(t, o) = Append(t, o) /\ ExtendPrompt(p, o) = p \o Words(o)
        BY <1>5, OutputKinds DEF IsModelText, Extend, ExtendPrompt
    <2>2. /\ Replays(mode, Append(t, o), Append(steps, step))
          /\ Len(Append(steps, step)) = Spoken(Append(t, o))
        BY <1>1, <1>3, <2>1, ReplaysSpeaking
    <2>3. Coherent(mode, Append(t, o), p \o Words(o), hist)
        BY <1>1, <1>2, CoherentSaying
    <2>4. Blocks(Append(t, o)) = Blocks(t) /\ (FoundGold(Append(t, o)) <=> FoundGold(t))
        BY <1>1, <1>2, BlocksAppend, FoundGoldAppend
    <2> QED BY <2>1, <2>2, <2>3, <2>4 DEF Thread, step
<1> QED BY <1>4, <1>5

LEMMA OneWordMore ==
    ASSUME NEW p \in Seq(Word), NEW x \in Segment, x.says \notin {"search", "think"}
    PROVE  Append(p, x) = p \o Words(x)
<1>1. AddsOne(p, x)
    BY WordKinds, OneMore
<1> QED BY <1>1, SegmentWords DEF AddsOne

\* An unfinished trajectory is forced to answer.
LEMMA ThreadForced ==
    ASSUME NEW mode, NEW t, NEW p, NEW steps, NEW hist, NEW count, NEW found,
           Thread(mode, t, p, steps, hist, count, found, FALSE),
           NEW target \in Final, NEW generated \in Final
    PROVE  Thread(mode, t \o <<FinalPrefix, target>>, Append(Append(p, FinalPrefix), target),
                  Append(steps, ModelStep(Append(p, FinalPrefix), target, generated, TRUE)),
                  hist, count, found, TRUE)
<1> DEFINE u == Append(t, FinalPrefix)
           q == Append(p, FinalPrefix)
           step == ModelStep(q, target, generated, TRUE)
<1>1. /\ t \in Seq(Segment) /\ Coherent(mode, t, p, hist) /\ Replays(mode, t, steps)
      /\ Len(steps) = Spoken(t)
    BY DEF Thread, Coherent
<1>2. /\ FinalPrefix \in Segment /\ ~IsBlock(FinalPrefix) /\ ~IsModelText(FinalPrefix)
      /\ target \in Segment /\ ~IsBlock(target) /\ IsModelText(target) /\ generated \in Segment
      /\ FinalPrefix.says = "prefix" /\ target.says = "final"
    BY SegmentParts DEF FinalPrefix, Final, IsBlock, IsModelText
<1>3. t \o <<FinalPrefix, target>> = Append(u, target)
    BY <1>1, <1>2
<1>4. /\ u \in Seq(Segment) /\ Coherent(mode, u, q, hist)
      /\ Replays(mode, u, steps) /\ Len(steps) = Spoken(u)
    <2>1. Coherent(mode, u, p \o Words(FinalPrefix), hist)
        BY <1>1, <1>2, CoherentSaying
    <2>2. q = p \o Words(FinalPrefix)
        BY <1>1, <1>2, OneWordMore DEF Coherent
    <2>3. u \in Seq(Segment) /\ Replays(mode, u, steps) /\ Len(steps) = Spoken(u)
        BY <1>1, <1>2, ReplaysRetrieving
    <2> QED BY <2>1, <2>2, <2>3
<1> HIDE DEF u, q
<1>5. q \in Seq(Word) /\ Shows(mode, q, u)
    BY <1>4 DEF Coherent, Shows
<1>6. step \in StepRecord /\ Shows(mode, step.prompt, u) /\ step.output = target
    BY <1>2, <1>5 DEF ModelStep, StepRecord
<1> HIDE DEF step
<1>7. Replays(mode, Append(u, target), Append(steps, step))
    BY <1>2, <1>4, <1>6, ReplaysSpeaking
<1>8. Coherent(mode, Append(u, target), Append(q, target), hist)
    <2>1. Coherent(mode, Append(u, target), q \o Words(target), hist)
        BY <1>2, <1>4, CoherentSaying
    <2> QED BY <1>2, <1>5, <2>1, OneWordMore
<1>9. /\ Blocks(Append(u, target)) = Blocks(u)
      /\ FoundGold(Append(u, target)) <=> FoundGold(u)
    BY <1>2, <1>4, BlocksAppend, FoundGoldAppend
<1>10. Blocks(u) = Blocks(t) /\ (FoundGold(u) <=> FoundGold(t))
    BY <1>1, <1>2, BlocksAppend, FoundGoldAppend DEF u
<1>11. Thread(mode, Append(u, target), Append(q, target), Append(steps, step),
              hist, count, found, TRUE)
    BY <1>7, <1>8, <1>9, <1>10 DEF Thread
<1> QED BY <1>3, <1>11 DEF q, step

\* An unfinished trajectory that has asked for a search gets its result.
LEMMA ThreadRetrieving ==
    ASSUME NEW mode, NEW t, NEW shown, NEW hist, Coherent(mode, t, shown, hist),
           NEW o \in SearchOutput, NEW p, p = shown \o Words(o),
           NEW steps, NEW count, NEW found,
           Thread(mode, Append(t, o), p, steps, hist, count, found, FALSE),
           NEW reply \in Reply(o.query), NEW b, b = ResultBlock(reply),
           NEW golden, golden = (found = TRUE \/ IsGold(b))
    PROVE  Thread(mode, Append(Append(t, o), b), Append(CompactText(p, hist), b), steps,
                  Append(hist, EntryOf(mode, o, b)), count + 1, golden, FALSE)
<1> DEFINE u == Append(t, o)
           h == EntryOf(mode, o, b)
<1>1. o.query \in Query
    BY SearchKinds
<1>2. b \in Block /\ b \in Segment /\ IsBlock(b) /\ (b.reply.found => b.reply.query = o.query)
    BY <1>1, ReplyKinds DEF ResultBlock
<1>3. /\ u \in Seq(Segment) /\ Replays(mode, u, steps)
      /\ Len(steps) = Spoken(u) /\ hist \in Seq(Entry)
    BY DEF Thread, Coherent
<1>4. Coherent(mode, Append(u, b), Append(CompactText(p, hist), b), Append(hist, h))
    <2> DEFINE q == shown \o Words(o)
    <2>1. Coherent(mode, Append(u, b), Append(CompactText(q, hist), b), Append(hist, h))
        BY <1>2, CoherentResult
    <2> QED BY <2>1
<1>5. ~IsModelText(b)
    BY <1>2 DEF IsBlock, IsModelText
<1> HIDE DEF u
<1>6. Replays(mode, Append(u, b), steps) /\ Len(steps) = Spoken(Append(u, b))
    BY <1>2, <1>3, <1>5, ReplaysRetrieving
<1>7. /\ Cardinality(Blocks(Append(u, b))) = Cardinality(Blocks(u)) + 1
      /\ Cardinality(Blocks(u)) \in Nat
      /\ FoundGold(Append(u, b)) <=> FoundGold(u) \/ IsGold(b)
    BY <1>2, <1>3, BlocksAppend, FoundGoldAppend
<1>8. Len(Append(hist, h)) = Len(hist) + 1
    BY <1>3
<1>9. /\ count = Cardinality(Blocks(u)) /\ count = Len(hist)
      /\ found \in BOOLEAN /\ (found <=> FoundGold(u))
    BY DEF Thread, u
<1>10. (found \/ IsGold(b)) \in BOOLEAN
    OBVIOUS
<1> QED BY <1>4, <1>6, <1>7, <1>8, <1>9, <1>10 DEF Thread, u

-------------------------------------------------------------------------------
(* The batch                                                                   *)

LEMMA StateIsRange ==
    ASSUME args \in Args
    PROVE  /\ Len(args.labels) \in Nat \ {0} /\ args.group_size \in Nat \ {0}
           /\ args.max_turns \in Nat \ {0} /\ args.micro_batch \in Nat \ {0}
           /\ args.search_cost \in Nat
           /\ Len(args.labels) * args.group_size \in Nat
           /\ \A g \in 1..Len(args.labels) : args.labels[g] \in Label
<1>1. /\ args.labels \in Seq(Label) /\ args.labels # <<>>
      /\ {args.group_size, args.max_turns, args.micro_batch} \subseteq Nat \ {0}
      /\ args.search_cost \in Nat
    BY RolloutAssumption DEF Label
<1>2. args.group_size \in Nat \ {0} /\ args.max_turns \in Nat \ {0}
      /\ args.micro_batch \in Nat \ {0}
    BY <1>1
<1>3. Len(args.labels) \in Nat \ {0} /\ \A g \in 1..Len(args.labels) : args.labels[g] \in Label
    BY <1>1
<1>4. Len(args.labels) * args.group_size \in Nat
    BY <1>2, <1>3
<1> QED BY <1>1, <1>2, <1>3, <1>4

OnStates(f) == f = [s \in State |-> f[s]]

\* t ends in o and p in its words, and what comes before fits together.
Behind(mode, t, p, hist, o) ==
    \E before, shown :
        /\ Coherent(mode, before, shown, hist)
        /\ t = Append(before, o) /\ p = shown \o Words(o)

RolloutTypes ==
    /\ args \in Args
    /\ pc \in {"generate", "search", "force", "done"}
             \cup {"rewarded", "selected", "paired", "learnt"}
    /\ turn \in 1..(args.max_turns + 1)
    /\ pc = "search" => turn <= args.max_turns
    /\ OnStates(prompt) /\ OnStates(trajectory) /\ OnStates(model_steps)
    /\ OnStates(search_count) /\ OnStates(gold) /\ OnStates(history)
    /\ finished \in [State -> BOOLEAN] /\ forced \in [State -> BOOLEAN]
    /\ DOMAIN outputs \subseteq State
    /\ prediction \in [State -> Label]
    /\ reward \in [State -> Int]
    /\ \A i \in DOMAIN selected : selected[i].state \in State
    /\ DOMAIN summed \subseteq DOMAIN selected
    /\ pc # "learnt" => DOMAIN summed = {}

\* A trajectory that waits for a search is unfinished and ends in it; the answer
\* is to its own query or has not come.
WaitsFor(item, result) ==
    /\ item.state \in State /\ item.output \in SearchOutput
    /\ ~finished[item.state]
    /\ Behind(args.summary_mode, trajectory[item.state], prompt[item.state],
              history[item.state], item.output)
    /\ result \in Reply(item.output.query) \cup {NoReply}
Searching ==
    /\ DOMAIN search_items = 1..Len(search_items) /\ Len(search_items) \in Nat
    /\ DOMAIN results = DOMAIN search_items /\ Len(results) = Len(search_items)
    /\ pc # "search" => DOMAIN search_items = {}
    /\ \A i \in DOMAIN search_items : WaitsFor(search_items[i], results[i])

Threads ==
    \A s \in State :
        Thread(args.summary_mode, trajectory[s], prompt[s], model_steps[s], history[s],
               search_count[s], gold[s], finished[s])

\* No trajectory has searched more often than turns are over.
Counted == \A s \in State : search_count[s] <= turn - 1

\* The predictions are read off the finished trajectories, the rewards off those.
Rewarded ==
    /\ pc \in {"done", "rewarded", "selected", "paired", "learnt"} =>
           \A s \in State : prediction[s] = ExtractAnswerLabel(trajectory[s])
    /\ pc \in {"rewarded", "selected", "paired", "learnt"} =>
           \A s \in State :
               reward[s] = Reward(prediction[s], args.labels[GroupIndex(s)], gold[s],
                                  search_count[s], args.search_cost)

RolloutInv == RolloutTypes /\ Searching /\ Threads /\ Counted /\ Rewarded

LEMMA RolloutInvInit == ASSUME Init PROVE RolloutInv
<1>1. RolloutTypes
    <2>1. args.max_turns \in Nat \ {0} /\ args \in Args
        BY StateIsRange DEF Init
    <2>2. DOMAIN outputs = {} /\ DOMAIN selected = {} /\ DOMAIN summed = {}
        BY DEF Init
    <2>3. turn \in 1..(args.max_turns + 1) /\ pc = "generate"
        BY <2>1 DEF Init
    <2> QED BY <2>1, <2>2, <2>3 DEF Init, RolloutTypes, OnStates, Label
<1>2. Searching
    <2>1. search_items = <<>> /\ results = <<>>
        BY DEF Init
    <2>2. /\ DOMAIN search_items = {} /\ Len(search_items) = 0 /\ 1..0 = {}
          /\ DOMAIN results = {} /\ Len(results) = 0
        BY <2>1
    <2> QED BY <2>2 DEF Searching
<1>3. Threads
    <2> SUFFICES ASSUME NEW s \in State
                 PROVE  Thread(args.summary_mode, trajectory[s], prompt[s], model_steps[s],
                               history[s], search_count[s], gold[s], finished[s])
        BY DEF Threads
    <2>1. /\ trajectory[s] = <<>> /\ prompt[s] = <<>> /\ model_steps[s] = <<>>
          /\ history[s] = <<>> /\ search_count[s] = 0 /\ gold[s] = FALSE /\ finished[s] = FALSE
        BY DEF Init
    <2>2. Thread(args.summary_mode, <<>>, <<>>, <<>>, <<>>, 0, FALSE, FALSE)
        BY ThreadStarts
    <2> QED BY <2>1, <2>2
<1>4. Counted /\ Rewarded
    BY DEF Init, Counted, Rewarded
<1> QED BY <1>1, <1>2, <1>3, <1>4 DEF RolloutInv

\* The searches of a turn are those of the active trajectories that ask for one.
LEMMA SearchItemsAsk ==
    ASSUME args \in Args, NEW out
    PROVE  /\ DOMAIN SearchItems(out) = 1..Len(SearchItems(out)) /\ Len(SearchItems(out)) \in Nat
           /\ \A i \in DOMAIN SearchItems(out) :
                 LET item == SearchItems(out)[i]
                 IN  /\ item.state \in Active /\ item.output = out[item.state]
                     /\ out[item.state].says = "search"
<1> DEFINE all == [s \in State |-> s]
           K == {i \in DOMAIN all : all[i] \in Active /\ out[all[i]].says = "search"}
           asking == Pick(all, K)
           n == Len(args.labels) * args.group_size
<1>1. n \in Nat /\ State = 1..n
    BY StateIsRange DEF State
<1>2. all \in Seq(State) /\ Len(all) = n /\ \A i \in 1..n : all[i] = i
    BY <1>1
<1>3. asking \in Seq(State)
    BY <1>2, PickType
<1>4. \A j \in 1..Len(asking) : asking[j] \in Active /\ out[asking[j]].says = "search"
    <2>1. PICK pos \in [1..Len(asking) -> 1..Len(all)] : PickedFrom(pos, all, K)
        BY <1>2, PickPlaces
    <2>2. \A j \in 1..Len(asking) : pos[j] \in K /\ asking[j] = all[pos[j]]
        BY <2>1 DEF PickedFrom
    <2> QED BY <2>2
<1>5. SearchItems(out) = [i \in 1..Len(asking) |-> [state |-> asking[i], output |-> out[asking[i]]]]
    BY DEF SearchItems, Where
<1> HIDE DEF asking
<1>6. Len(asking) \in Nat
    BY <1>3
<1>7. DOMAIN SearchItems(out) = 1..Len(asking) /\ Len(SearchItems(out)) = Len(asking)
    BY <1>5, <1>6
<1> QED BY <1>4, <1>5, <1>6, <1>7

-------------------------------------------------------------------------------
(* What each step keeps                                                        *)

LEMMA ThreadTypes ==
    ASSUME NEW mode, NEW t, NEW p, NEW steps, NEW hist, NEW count, NEW found, NEW done,
           Thread(mode, t, p, steps, hist, count, found, done)
    PROVE  /\ t \in Seq(Segment) /\ p \in Seq(Word) /\ steps \in Seq(StepRecord)
           /\ hist \in Seq(Entry) /\ count \in Nat /\ found \in BOOLEAN
<1>1. Coherent(mode, t, p, hist) /\ Replays(mode, t, steps) /\ found \in BOOLEAN
      /\ count = Cardinality(Blocks(t))
    BY DEF Thread
<1>2. t \in Seq(Segment) /\ steps \in Seq(StepRecord)
    BY <1>1 DEF Replays
<1>3. p \in Seq(Word) /\ hist \in Seq(Entry)
    BY <1>1 DEF Coherent
<1>4. Cardinality(Blocks(t)) \in Nat
    BY <1>2, SegmentParts, BlocksAppend
<1> QED BY <1>1, <1>2, <1>3, <1>4

LEMMA GenerateKeeps ==
    ASSUME RolloutInv, Generate
    PROVE  RolloutInv'
<1>1. State' = State
    BY DEF Generate, State
<1>2. /\ RolloutTypes /\ Searching /\ Threads /\ Counted
      /\ args \in Args /\ args.max_turns \in Nat \ {0}
    BY StateIsRange DEF RolloutInv, RolloutTypes
<1>3. \A s \in State : s \in Active <=> finished[s] = FALSE
    BY <1>2 DEF Active, RolloutTypes
<1>p. args.policy \subseteq Output
    BY <1>2, RolloutAssumption
<1>f. outputs' \in [Active -> args.policy]
    BY DEF Generate
<1>4. \A s \in Active : s \in State /\ outputs'[s] \in Output
    BY <1>p, <1>f DEF Active
<1>5. /\ DOMAIN search_items' = 1..Len(search_items') /\ Len(search_items') \in Nat
      /\ \A i \in DOMAIN search_items' :
            /\ search_items'[i].state \in Active
            /\ search_items'[i].output = outputs'[search_items'[i].state]
            /\ outputs'[search_items'[i].state].says = "search"
    BY <1>2, SearchItemsAsk DEF Generate
<1>6. DOMAIN search_items' = {} <=> search_items' = <<>>
    BY <1>5
<1>7. ASSUME NEW s \in State
      PROVE  Thread(args.summary_mode, trajectory'[s], prompt'[s], model_steps'[s], history[s],
                    search_count[s], gold[s], finished'[s])
    <2>1. Thread(args.summary_mode, trajectory[s], prompt[s], model_steps[s], history[s],
                 search_count[s], gold[s], finished[s])
        BY <1>2 DEF Threads
    <2>2. CASE s \in Active
        <3>1. /\ trajectory'[s] = Extend(trajectory[s], outputs'[s])
              /\ prompt'[s] = ExtendPrompt(prompt[s], outputs'[s])
              /\ model_steps'[s] = Append(model_steps[s],
                                          ModelStep(prompt[s], outputs'[s], outputs'[s], FALSE))
            BY <2>2 DEF Generate
        <3>3. finished'[s] = Ends(outputs'[s])
            <4>1. finished'[s] = (s \in Active => Ends(outputs'[s]))
                BY DEF Generate
            <4>2. (s \in Active => Ends(outputs'[s])) = Ends(outputs'[s])
                BY <2>2 DEF Ends
            <4> QED BY <4>1, <4>2
        <3>2. finished[s] = FALSE /\ outputs'[s] \in Output
            BY <1>3, <1>4, <2>2
        <3> QED BY <2>1, <3>1, <3>2, <3>3, ThreadSaying
    <2>3. CASE s \notin Active
        <3>1. /\ trajectory'[s] = trajectory[s] /\ prompt'[s] = prompt[s]
              /\ model_steps'[s] = model_steps[s] /\ finished'[s] = TRUE
            BY <2>3 DEF Generate
        <3>2. finished[s] = TRUE
            BY <1>2, <1>3, <2>3 DEF RolloutTypes
        <3> QED BY <2>1, <3>1, <3>2
    <2> QED BY <2>2, <2>3
<1>8. Threads'
    BY <1>1, <1>7 DEF Threads, Generate, countVars
<1>9. turn' \in 1..(args.max_turns + 1) /\ (pc' = "search" => turn' <= args.max_turns)
      /\ turn' >= turn /\ pc' \in {"generate", "search"} /\ turn \in Int
      /\ (pc' # "search" => search_items' = <<>>)
    BY <1>2 DEF Generate, RolloutTypes
<1>10. RolloutTypes'
    <2>1. finished' \in [State -> BOOLEAN]
        BY DEF Generate, Ends
    <2>2. DOMAIN outputs' \subseteq State
        BY DEF Generate, Active
    <2> QED BY <1>1, <1>2, <1>9, <2>1, <2>2 DEF RolloutTypes, OnStates, Generate, countVars, lossVars
<1>11. Searching'
    <2>1. DOMAIN results' = DOMAIN search_items' /\ Len(results') = Len(search_items')
          /\ \A i \in DOMAIN search_items' : results'[i] = NoReply
        BY <1>5 DEF Generate
    <2>2. ASSUME NEW i \in DOMAIN search_items'
          PROVE  WaitsFor(search_items[i], results[i])'
        <3> DEFINE s == search_items'[i].state
                   o == search_items'[i].output
        <3>1. s \in Active /\ o = outputs'[s] /\ o.says = "search" /\ s \in State
            BY <1>4, <1>5
        <3> HIDE DEF s, o
        <3>2. o \in SearchOutput /\ o # Empty
            BY <1>4, <3>1, OutputKinds
        <3>3. Coherent(args.summary_mode, trajectory[s], prompt[s], history[s])
            BY <1>2, <3>1 DEF Threads, Thread
        <3>4. /\ trajectory'[s] = Append(trajectory[s], o) /\ ~finished'[s]
              /\ prompt'[s] = prompt[s] \o Words(o)
            BY <3>1, <3>2 DEF Generate, Extend, ExtendPrompt, Ends
        <3>5. Behind(args.summary_mode, trajectory'[s], prompt'[s], history[s], o)
            BY <3>3, <3>4 DEF Behind
        <3>6. args' = args /\ history' = history
            BY DEF Generate, countVars
        <3> QED BY <1>1, <2>1, <3>1, <3>2, <3>4, <3>5, <3>6 DEF WaitsFor, s, o
    <2> QED BY <1>5, <1>6, <1>9, <2>1, <2>2 DEF Searching
<1>12. Counted'
    <2>1. \A s \in State : search_count[s] \in Nat
        BY <1>2, ThreadTypes DEF Threads
    <2>2. args.max_turns \in Nat /\ turn' \in Int
        BY <1>2, <1>9
    <2> QED BY <1>1, <1>2, <1>9, <2>1, <2>2 DEF Counted, Generate, countVars
<1>13. Rewarded'
    BY <1>9 DEF Rewarded
<1> QED BY <1>8, <1>10, <1>11, <1>12, <1>13 DEF RolloutInv

LEMMA FetchResultKeeps ==
    ASSUME RolloutInv, NEW i \in 1..Len(results), FetchResult(i)
    PROVE  RolloutInv'
<1>1. State' = State
    BY DEF FetchResult, State
<1>2. RolloutTypes /\ Searching /\ Threads /\ Counted /\ Rewarded
    BY DEF RolloutInv
<1>3. /\ DOMAIN results = 1..Len(search_items) /\ Len(search_items) \in Nat
      /\ DOMAIN search_items = 1..Len(search_items) /\ i \in 1..Len(search_items)
    BY <1>2 DEF Searching
<1>4. PICK reply \in Reply(search_items[i].output.query) : results' = [results EXCEPT ![i] = reply]
    BY DEF FetchResult
<1>5. results' = [j \in 1..Len(search_items) |-> IF j = i THEN reply ELSE results[j]]
    BY <1>3, <1>4
<1>6. Searching'
    <2>1. DOMAIN results' = DOMAIN search_items /\ Len(results') = Len(search_items)
        BY <1>3, <1>5
    <2>2. ASSUME NEW j \in DOMAIN search_items
          PROVE  WaitsFor(search_items[j], results[j])'
        <3>1. WaitsFor(search_items[j], results[j])
            BY <1>2 DEF Searching
        <3>2. results'[j] \in Reply(search_items[j].output.query) \cup {NoReply}
            BY <1>3, <1>4, <1>5, <3>1 DEF WaitsFor
        <3> QED BY <1>1, <3>1, <3>2 DEF WaitsFor, FetchResult, textVars, countVars
    <2> QED BY <1>2, <1>3, <2>1, <2>2 DEF Searching, FetchResult
<1>7. RolloutTypes' /\ Threads' /\ Counted' /\ Rewarded'
    BY <1>1, <1>2 DEF RolloutTypes, OnStates, Threads, Counted, Rewarded, GroupIndex,
                      FetchResult, textVars, countVars, lossVars
<1> QED BY <1>6, <1>7 DEF RolloutInv

LEMMA EndTurnsKeeps ==
    ASSUME RolloutInv, EndTurns
    PROVE  RolloutInv'
<1>1. State' = State
    BY DEF EndTurns, State
<1>2. RolloutTypes /\ Searching /\ Threads /\ Counted /\ Rewarded
    BY DEF RolloutInv
<1>3. Searching'
    BY <1>1, <1>2 DEF Searching, EndTurns
<1>4. RolloutTypes' /\ Threads' /\ Counted' /\ Rewarded'
    BY <1>1, <1>2 DEF RolloutTypes, OnStates, Threads, Counted, Rewarded,
                      EndTurns, textVars, countVars, lossVars
<1> QED BY <1>3, <1>4 DEF RolloutInv

LEMMA StutterKeeps ==
    ASSUME RolloutInv, UNCHANGED vars
    PROVE  RolloutInv'
<1>1. State' = State
    BY DEF vars, State
<1>2. RolloutTypes /\ Searching /\ Threads /\ Counted /\ Rewarded
    BY DEF RolloutInv
<1>3. Searching'
    BY <1>1, <1>2 DEF Searching, WaitsFor, vars, textVars, countVars
<1>4. RolloutTypes' /\ Threads' /\ Counted' /\ Rewarded'
    BY <1>1, <1>2 DEF RolloutTypes, OnStates, Threads, Counted, Rewarded, GroupIndex,
                      vars, textVars, countVars, lossVars
<1> QED BY <1>3, <1>4 DEF RolloutInv

\* What a pass of the loop over search_items works with.
LEMMA AskedParts ==
    ASSUME RolloutInv, pc = "search", Settled, NEW s \in State, Asked(s)
    PROVE  /\ Said(s) \in SearchOutput /\ ~finished[s]
           /\ Behind(args.summary_mode, trajectory[s], prompt[s], history[s], Said(s))
           /\ \E reply \in Reply(Said(s).query) : Received(s) = ResultBlock(reply)
<1>1. Item(s) \in DOMAIN search_items /\ search_items[Item(s)].state = s
    BY DEF Asked, Item
<1>2. WaitsFor(search_items[Item(s)], results[Item(s)]) /\ Item(s) \in DOMAIN results
    BY <1>1 DEF RolloutInv, Searching
<1>3. results[Item(s)] # NoReply
    BY <1>2 DEF Settled
<1>4. results[Item(s)] \in Reply(Said(s).query)
    BY <1>2, <1>3 DEF WaitsFor, Said
<1> QED BY <1>1, <1>2, <1>4 DEF WaitsFor, Said, Received

LEMMA ApplyResultsKeeps ==
    ASSUME RolloutInv, ApplyResults
    PROVE  RolloutInv'
<1>1. State' = State
    BY DEF ApplyResults, State
<1>2. RolloutTypes /\ Searching /\ Threads /\ Counted /\ args \in Args
    BY DEF RolloutInv, RolloutTypes
<1>3. turn \in Int /\ turn' = turn + 1 /\ turn' \in 1..(args.max_turns + 1)
    BY <1>2, StateIsRange DEF RolloutTypes, ApplyResults
<1>4. ASSUME NEW s \in State
      PROVE  /\ Thread(args.summary_mode, trajectory'[s], prompt'[s], model_steps[s], history'[s],
                       search_count'[s], gold'[s], finished[s])
             /\ search_count'[s] <= turn' - 1
    <2>1. Thread(args.summary_mode, trajectory[s], prompt[s], model_steps[s], history[s],
                 search_count[s], gold[s], finished[s])
        BY <1>2 DEF Threads
    <2>2. search_count[s] <= turn - 1 /\ search_count[s] \in Nat
        BY <1>2, <2>1, ThreadTypes DEF Counted
    <2>3. CASE Asked(s)
        <3>1. /\ Said(s) \in SearchOutput /\ ~finished[s]
              /\ Behind(args.summary_mode, trajectory[s], prompt[s], history[s], Said(s))
            BY <2>3, AskedParts DEF ApplyResults
        <3>2. PICK reply \in Reply(Said(s).query) : Received(s) = ResultBlock(reply)
            BY <2>3, AskedParts DEF ApplyResults
        <3>3. PICK before, shown :
                  /\ Coherent(args.summary_mode, before, shown, history[s])
                  /\ trajectory[s] = Append(before, Said(s)) /\ prompt[s] = shown \o Words(Said(s))
            BY <3>1 DEF Behind
        <3>4. finished[s] = FALSE
            BY <1>2, <3>1 DEF RolloutTypes
        <3>5. /\ trajectory'[s] = Append(trajectory[s], Received(s))
              /\ prompt'[s] = Append(Compact(s), Received(s))
              /\ history'[s] = Append(history[s], HistoryEntry(s))
              /\ search_count'[s] = search_count[s] + 1
            BY <2>3 DEF ApplyResults
        <3>6. gold'[s] = (gold[s] = TRUE \/ IsGold(Received(s)))
            <4>1. gold'[s] = (gold[s] \/ IsGold(Received(s))) /\ gold[s] \in BOOLEAN
                BY <2>1, <2>3, ThreadTypes DEF ApplyResults
            <4> QED BY <4>1
        <3>7. Compact(s) = CompactText(prompt[s], history[s])
            BY DEF Compact, CompactText
        <3>8. HistoryEntry(s) = EntryOf(args.summary_mode, Said(s), Received(s))
            BY DEF HistoryEntry, EntryOf, Summary, SummaryIn
        <3> HIDE DEF Received, Said, HistoryEntry, Compact
        <3>9. Thread(args.summary_mode, Append(before, Said(s)), prompt[s], model_steps[s],
                     history[s], search_count[s], gold[s], FALSE)
            BY <2>1, <3>3, <3>4
        <3>10. Thread(args.summary_mode, Append(Append(before, Said(s)), Received(s)),
                      Append(CompactText(prompt[s], history[s]), Received(s)), model_steps[s],
                      Append(history[s], EntryOf(args.summary_mode, Said(s), Received(s))),
                      search_count[s] + 1, gold'[s], FALSE)
            BY <3>1, <3>2, <3>3, <3>6, <3>9, ThreadRetrieving
        <3>11. search_count'[s] <= turn' - 1
            BY <1>3, <2>2, <3>5
        <3> QED BY <3>3, <3>4, <3>5, <3>6, <3>7, <3>8, <3>10, <3>11
    <2>4. CASE ~Asked(s)
        <3>1. /\ trajectory'[s] = trajectory[s] /\ prompt'[s] = prompt[s]
              /\ history'[s] = history[s] /\ search_count'[s] = search_count[s]
            BY <2>4 DEF ApplyResults
        <3>2. gold'[s] = (gold[s] \/ FALSE)
            BY <2>4 DEF ApplyResults
        <3>3. gold[s] \in BOOLEAN
            BY <2>1, ThreadTypes
        <3>4. search_count'[s] <= turn' - 1
            BY <1>3, <2>2, <3>1
        <3> QED BY <2>1, <3>1, <3>2, <3>3, <3>4
    <2> QED BY <2>3, <2>4
<1>5. Threads' /\ Counted'
    BY <1>1, <1>4 DEF Threads, Counted, ApplyResults
<1>6. RolloutTypes'
    BY <1>1, <1>2, <1>3 DEF RolloutTypes, OnStates, ApplyResults, lossVars
<1>7. Searching'
    <2>1. search_items' = <<>> /\ results' = <<>>
        BY DEF ApplyResults
    <2>2. /\ DOMAIN search_items' = {} /\ Len(search_items') = 0 /\ 1..0 = {}
          /\ DOMAIN results' = {} /\ Len(results') = 0
        BY <2>1
    <2> QED BY <2>2 DEF Searching
<1>8. Rewarded'
    BY DEF Rewarded, ApplyResults
<1> QED BY <1>5, <1>6, <1>7, <1>8 DEF RolloutInv

\* The label read off a trajectory is one of the labels.
LEMMA ExtractedLabel ==
    ASSUME NEW t \in Seq(Segment)
    PROVE  ExtractAnswerLabel(t) \in Label
<1> DEFINE answers == {i \in DOMAIN t : \/ t[i].says = "answer"
                                       \/ (t[i].says = "final" /\ t[i].closed)}
<1>1. CASE answers = {}
    BY <1>1 DEF ExtractAnswerLabel, Label
<1>2. CASE answers # {}
    <2>1. Max(answers) \in answers
        <3>1. answers \in SUBSET (1..Len(t)) /\ Len(t) \in Nat
            OBVIOUS
        <3> HIDE DEF answers
        <3> QED BY <1>2, <3>1, MaxIsLargest
    <2>2. t[Max(answers)] \in Segment
        BY <2>1
    <2>3. t[Max(answers)].label \in Label
        <3>1. CASE t[Max(answers)].says = "answer"
            BY <2>2, <3>1, SegmentKinds, OutputKinds
        <3>2. CASE t[Max(answers)].says = "final"
            BY <2>2, <3>2, SegmentKinds DEF Final
        <3> QED BY <2>1, <3>1, <3>2
    <2> QED BY <1>2, <2>3 DEF ExtractAnswerLabel
<1> QED BY <1>1, <1>2

LEMMA ForceAnswersKeeps ==
    ASSUME RolloutInv, ForceAnswers
    PROVE  RolloutInv'
<1>1. State' = State
    BY DEF ForceAnswers, State
<1>2. RolloutTypes /\ Searching /\ Threads /\ Counted
    BY DEF RolloutInv
<1>3. /\ DOMAIN outputs' \subseteq Active
      /\ \A s \in DOMAIN outputs' : \E l \in Label, c \in BOOLEAN : outputs'[s] = Target(l, c)
    BY DEF ForceAnswers
<1>4. DOMAIN outputs' \subseteq State /\ \A s \in DOMAIN outputs' : finished[s] = FALSE
    BY <1>2, <1>3 DEF Active, RolloutTypes
<1>5. ASSUME NEW s \in State
      PROVE  Thread(args.summary_mode, trajectory'[s], prompt'[s], model_steps'[s], history[s],
                    search_count[s], gold[s], finished'[s])
    <2>1. Thread(args.summary_mode, trajectory[s], prompt[s], model_steps[s], history[s],
                 search_count[s], gold[s], finished[s])
        BY <1>2 DEF Threads
    <2>2. finished'[s] = (finished[s] \/ s \in DOMAIN outputs') /\ finished[s] \in BOOLEAN
        BY <1>2 DEF ForceAnswers, RolloutTypes
    <2>3. CASE s \in DOMAIN outputs'
        <3> DEFINE target == NormalizeFinalTarget(outputs'[s])
        <3>1. outputs'[s] \in Final /\ target \in Final
            <4>1. PICK l \in Label, c \in BOOLEAN : outputs'[s] = Target(l, c)
                BY <1>3, <2>3
            <4> QED BY <4>1 DEF Target, Final, NormalizeFinalTarget
        <3>2. /\ trajectory'[s] = trajectory[s] \o <<FinalPrefix, target>>
              /\ prompt'[s] = Append(Append(prompt[s], FinalPrefix), target)
              /\ model_steps'[s] =
                     Append(model_steps[s],
                            ModelStep(Append(prompt[s], FinalPrefix), target, outputs'[s], TRUE))
            BY <2>3 DEF ForceAnswers, ForcedPrompt
        <3>3. finished[s] = FALSE /\ finished'[s] = TRUE
            BY <1>4, <2>2, <2>3
        <3> HIDE DEF target
        <3> QED BY <2>1, <3>1, <3>2, <3>3, ThreadForced
    <2>4. CASE s \notin DOMAIN outputs'
        <3>1. /\ trajectory'[s] = trajectory[s] /\ prompt'[s] = prompt[s]
              /\ model_steps'[s] = model_steps[s]
            BY <2>4 DEF ForceAnswers
        <3>2. finished'[s] = finished[s]
            BY <2>2, <2>4
        <3> QED BY <2>1, <3>1, <3>2
    <2> QED BY <2>3, <2>4
<1>6. Threads' /\ Counted'
    BY <1>1, <1>2, <1>5 DEF Threads, Counted, ForceAnswers, countVars
<1>7. prediction' = [s \in State |-> ExtractAnswerLabel(trajectory'[s])] /\ pc' = "done"
    BY DEF ForceAnswers
<1>8. Rewarded'
    BY <1>1, <1>7 DEF Rewarded
<1>9. prediction' \in [State -> Label]
    <2>1. \A s \in State : ExtractAnswerLabel(trajectory'[s]) \in Label
        BY <1>5, ThreadTypes, ExtractedLabel
    <2> QED BY <1>7, <2>1
<1>10. RolloutTypes'
    <2>1. finished' \in [State -> BOOLEAN] /\ forced' \in [State -> BOOLEAN]
        BY <1>2 DEF ForceAnswers, RolloutTypes
    <2>2. OnStates(prompt)' /\ OnStates(trajectory)' /\ OnStates(model_steps)'
        BY <1>1 DEF OnStates, ForceAnswers
    <2> QED BY <1>1, <1>2, <1>4, <1>7, <1>9, <2>1, <2>2
            DEF RolloutTypes, OnStates, ForceAnswers, countVars, lossVars
<1>11. Searching'
    BY <1>2 DEF Searching, ForceAnswers
<1> QED BY <1>6, <1>8, <1>10, <1>11 DEF RolloutInv

-------------------------------------------------------------------------------
(* What main makes of the rollout                                              *)

LEMMA MaxOfTwo ==
    ASSUME NEW k \in Int
    PROVE  Max({0, k}) = IF k > 0 THEN k ELSE 0
<1>1. \E x \in {0, k} : \A y \in {0, k} : x >= y
    <2>1. CASE k > 0
        BY <2>1
    <2>2. CASE ~(k > 0)
        BY <2>2
    <2> QED BY <2>1, <2>2
<1>2. Max({0, k}) \in {0, k} /\ \A y \in {0, k} : Max({0, k}) >= y
    BY <1>1 DEF Max
<1> QED BY <1>2

\* A reward is what its verdict is worth less the price of the searches charged.
Worth(said, label, evidence) ==
    IF said = "unknown" THEN -50
    ELSE IF said # label THEN 0 ELSE IF evidence THEN 150 ELSE 100
ChargedFor(searches) == IF searches > 1 THEN searches - 1 ELSE 0

LEMMA RewardIsWorth ==
    ASSUME NEW said, NEW label, NEW evidence \in BOOLEAN, NEW searches \in Nat,
           NEW cost \in Nat
    PROVE  /\ Reward(said, label, evidence, searches, cost) =
                 Worth(said, label, evidence) - cost * ChargedFor(searches)
           /\ Reward(said, label, evidence, searches, cost) \in Int
<1>1. Max({0, searches - 1}) = ChargedFor(searches)
    BY MaxOfTwo DEF ChargedFor
<1>2. ChargedFor(searches) \in Nat /\ Worth(said, label, evidence) \in Int
    BY DEF ChargedFor, Worth
<1>3. cost * ChargedFor(searches) \in Nat
    BY <1>2
<1>4. Reward(said, label, evidence, searches, cost) =
         Worth(said, label, evidence) - cost * ChargedFor(searches)
    <2>1. CASE said = "unknown"
        BY <1>1, <1>2, <1>3, <2>1 DEF Reward, Worth
    <2>2. CASE said # "unknown" /\ said # label
        BY <1>1, <1>2, <1>3, <2>2 DEF Reward, Worth
    <2>3. CASE said # "unknown" /\ said = label
        BY <1>1, <1>2, <1>3, <2>3 DEF Reward, Worth
    <2> QED BY <2>1, <2>2, <2>3
<1> QED BY <1>2, <1>3, <1>4

LEMMA RewardRolloutKeeps ==
    ASSUME RolloutInv, RewardRollout
    PROVE  RolloutInv'
<1>1. State' = State
    BY DEF RewardRollout, State
<1>2. /\ RolloutTypes /\ Searching /\ Threads /\ Counted /\ Rewarded
      /\ args.search_cost \in Nat
    BY StateIsRange DEF RolloutInv, RolloutTypes
<1>3. ASSUME NEW s \in State
      PROVE  Reward(prediction[s], args.labels[GroupIndex(s)], gold[s], search_count[s],
                    args.search_cost) \in Int
    <2>1. search_count[s] \in Nat /\ gold[s] \in BOOLEAN
        BY <1>2, ThreadTypes DEF Threads
    <2> QED BY <1>2, <2>1, RewardIsWorth
<1>4. reward' \in [State -> Int]
    BY <1>3 DEF RewardRollout
<1>5. Rewarded'
    BY <1>1, <1>2 DEF Rewarded, GroupIndex, RewardRollout, textVars, countVars
<1>6. RolloutTypes' /\ Searching'
    BY <1>1, <1>2, <1>4
       DEF RolloutTypes, OnStates, Searching, WaitsFor, RewardRollout, textVars, countVars
<1>7. Threads' /\ Counted'
    BY <1>1, <1>2 DEF Threads, Counted, RewardRollout, textVars, countVars
<1> QED BY <1>5, <1>6, <1>7 DEF RolloutInv

LEMMA SelectedAreOfBatch ==
    ASSUME NEW groups \in Nat, NEW size \in Nat \ {0}, NEW rewards,
           Numeric(rewards, groups * size)
    PROVE  \A i \in DOMAIN SelectGrpoSamples(rewards, groups, size) :
               SelectGrpoSamples(rewards, groups, size)[i].state \in 1..(groups * size)
<1> DEFINE q == SelectGrpoSamples(rewards, groups, size)
<1>1. \A g \in 1..groups : HasRewards(rewards, g, size)
    BY MemberInBatch DEF HasRewards, Numeric
<1>2. SelectsUpTo(q, rewards, groups, size)
    BY <1>1, SelectsWholeMixedGroups
<1> HIDE DEF q
<1>3. ASSUME NEW i \in DOMAIN q PROVE q[i].state \in 1..(groups * size)
    <2>1. q \in Seq(Numbered) /\ Chosen(q, rewards, groups, size)
        BY <1>2 DEF SelectsUpTo
    <2>2. i \in 1..Len(q)
        BY <2>1
    <2>3. PICK g \in 1..groups, k \in 1..size : q[i] = Sample(rewards, g, size, k)
        BY <2>1, <2>2 DEF Chosen
    <2>4. q[i].state = Member(g, size, k)
        BY <2>3 DEF Sample
    <2> QED BY <2>4, MemberInBatch
<1> QED BY <1>3 DEF q

LEMMA SelectSamplesKeeps ==
    ASSUME RolloutInv, SelectSamples
    PROVE  RolloutInv'
<1>1. State' = State
    BY DEF SelectSamples, State
<1>2. /\ RolloutTypes /\ Searching /\ Threads /\ Counted /\ Rewarded /\ pc = "rewarded"
      /\ Len(args.labels) \in Nat /\ args.group_size \in Nat \ {0}
    BY StateIsRange DEF RolloutInv, RolloutTypes, SelectSamples
<1>3. \A i \in DOMAIN selected' : selected'[i].state \in State
    <2>1. Numeric(reward, Len(args.labels) * args.group_size)
        BY <1>2 DEF RolloutTypes, Numeric, State
    <2> QED BY <1>2, <2>1, SelectedAreOfBatch DEF SelectSamples, State
<1>4. DOMAIN summed' = {}
    BY <1>2 DEF SelectSamples, RolloutTypes
<1>5. RolloutTypes'
    BY <1>1, <1>2, <1>3, <1>4 DEF RolloutTypes, OnStates, SelectSamples, textVars, countVars
<1>6. Threads' /\ Counted' /\ Rewarded' /\ Searching'
    BY <1>1, <1>2 DEF Threads, Counted, Rewarded, Searching, WaitsFor, GroupIndex,
                      SelectSamples, textVars, countVars
<1> QED BY <1>5, <1>6 DEF RolloutInv

LEMMA CollectPairsKeeps ==
    ASSUME RolloutInv, CollectPairs
    PROVE  RolloutInv'
<1>1. State' = State
    BY DEF CollectPairs, State
<1>2. RolloutTypes /\ Searching /\ Threads /\ Counted /\ Rewarded
    BY DEF RolloutInv
<1>3. RolloutTypes' /\ Searching' /\ Threads' /\ Counted' /\ Rewarded'
    BY <1>1, <1>2 DEF RolloutTypes, OnStates, Searching, WaitsFor, Threads, Counted, Rewarded,
                      GroupIndex, CollectPairs, textVars, countVars
<1> QED BY <1>3 DEF RolloutInv

LEMMA SumLogProbsKeeps ==
    ASSUME RolloutInv, SumLogProbs
    PROVE  RolloutInv'
<1>1. State' = State
    BY DEF SumLogProbs, State
<1>2. RolloutTypes /\ Searching /\ Threads /\ Counted /\ Rewarded
    BY DEF RolloutInv
<1>3. DOMAIN summed' = DOMAIN selected
    BY DEF SumLogProbs
<1>4. RolloutTypes' /\ Searching' /\ Threads' /\ Counted' /\ Rewarded'
    BY <1>1, <1>2, <1>3 DEF RolloutTypes, OnStates, Searching, WaitsFor, Threads, Counted,
                            Rewarded, GroupIndex, SumLogProbs, textVars, countVars
<1> QED BY <1>4 DEF RolloutInv

LEMMA RolloutInvNext == ASSUME RolloutInv, [Next]_vars PROVE RolloutInv'
<1>1. CASE Generate
    BY <1>1, GenerateKeeps
<1>2. CASE \E i \in 1..Len(results) : FetchResult(i)
    BY <1>2, FetchResultKeeps
<1>3. CASE ApplyResults
    BY <1>3, ApplyResultsKeeps
<1>4. CASE EndTurns
    BY <1>4, EndTurnsKeeps
<1>5. CASE ForceAnswers
    BY <1>5, ForceAnswersKeeps
<1>6. CASE RewardRollout
    BY <1>6, RewardRolloutKeeps
<1>7. CASE SelectSamples
    BY <1>7, SelectSamplesKeeps
<1>8. CASE CollectPairs
    BY <1>8, CollectPairsKeeps
<1>9. CASE SumLogProbs
    BY <1>9, SumLogProbsKeeps
<1>10. CASE UNCHANGED vars
    BY <1>10, StutterKeeps
<1> QED BY <1>1, <1>2, <1>3, <1>4, <1>5, <1>6, <1>7, <1>8, <1>9, <1>10 DEF Next

-------------------------------------------------------------------------------
(* What the loss is made of                                                    *)

OwnSteps(s) == Where(model_steps[s], LAMBDA m : m.output # Empty)
SumsOfPairs ==
    [i \in DOMAIN selected |->
        LET own == Where(InMicroBatches(pairs, args.micro_batch), LAMBDA p : p.traj = i)
        IN  [k \in DOMAIN own |-> own[k].step]]

\* From the selection on: each of its results is what the step before made of the
\* rollout, which no longer changes.
LossInv ==
    /\ pc \in {"selected", "paired", "learnt"} =>
           selected = SelectGrpoSamples(reward, Len(args.labels), args.group_size)
    /\ pc \in {"paired", "learnt"} => pairs = ModelPairs
    /\ pc = "learnt" => summed = SumsOfPairs

LEMMA LossInvNext == ASSUME LossInv, [Next]_vars PROVE LossInv'
<1>1. CASE Generate
    BY <1>1 DEF Generate, LossInv
<1>2. CASE \E i \in 1..Len(results) : FetchResult(i)
    BY <1>2 DEF FetchResult, LossInv
<1>3. CASE ApplyResults
    BY <1>3 DEF ApplyResults, LossInv
<1>4. CASE EndTurns
    BY <1>4 DEF EndTurns, LossInv
<1>5. CASE ForceAnswers
    BY <1>5 DEF ForceAnswers, LossInv
<1>6. CASE RewardRollout
    BY <1>6 DEF RewardRollout, LossInv
<1>7. CASE SelectSamples
    BY <1>7 DEF SelectSamples, LossInv
<1>8. CASE CollectPairs
    <2>1. ModelPairs' = ModelPairs
        BY <1>8 DEF CollectPairs, ModelPairs, textVars, Where
    <2> QED BY <1>8, <2>1 DEF CollectPairs, LossInv
<1>9. CASE SumLogProbs
    <2>1. ModelPairs' = ModelPairs /\ SumsOfPairs' = SumsOfPairs
        BY <1>9 DEF SumLogProbs, ModelPairs, SumsOfPairs, textVars, Where
    <2>2. summed' = SumsOfPairs
        BY <1>9 DEF SumLogProbs, SumsOfPairs
    <2> QED BY <1>9, <2>1, <2>2 DEF SumLogProbs, LossInv
<1>10. CASE UNCHANGED vars
    <2>1. ModelPairs' = ModelPairs /\ SumsOfPairs' = SumsOfPairs
        BY <1>10 DEF vars, ModelPairs, SumsOfPairs, textVars, lossVars, Where
    <2> QED BY <1>10, <2>1 DEF vars, lossVars, LossInv
<1> QED BY <1>1, <1>2, <1>3, <1>4, <1>5, <1>6, <1>7, <1>8, <1>9, <1>10 DEF Next

LEMMA LossInvAlways == Spec => []LossInv
<1>1. Init => LossInv
    BY DEF Init, LossInv
<1>2. LossInv /\ [Next]_vars => LossInv'
    BY LossInvNext
<1> QED BY <1>1, <1>2, PTL DEF Spec

-------------------------------------------------------------------------------
(* Theorems                                                                    *)

LEMMA RolloutInvAlways == Spec => []RolloutInv
<1>1. Init => RolloutInv
    BY RolloutInvInit
<1>2. RolloutInv /\ [Next]_vars => RolloutInv'
    BY RolloutInvNext
<1> QED BY <1>1, <1>2, PTL DEF Spec

\* The rollout keeps its types: prompts are sequences of words, a step's target is a
\* segment, predictions are labels, and only trajectories of the batch are selected and
\* summed, whatever the policy says and the searches return.
THEOREM RolloutTypeCorrect == Spec => []TypeOK
<1>1. ASSUME RolloutInv PROVE TypeOK
    <2>1. RolloutTypes /\ Threads
        BY <1>1 DEF RolloutInv
    <2>2. ASSUME NEW s \in State
          PROVE  /\ prompt[s] \in Seq(Word) /\ trajectory[s] \in Seq(Segment)
                 /\ model_steps[s] \in Seq(StepRecord) /\ search_count[s] \in Nat
                 /\ gold[s] \in BOOLEAN
        BY <2>1, ThreadTypes DEF Threads
    <2>3. ASSUME NEW s \in State, NEW k \in DOMAIN model_steps[s]
          PROVE  model_steps[s][k].output \in Segment
        <3>1. model_steps[s][k] \in StepRecord
            BY <2>2
        <3> QED BY <3>1 DEF StepRecord
    <2>4. /\ prompt \in [State -> Seq(Word)] /\ trajectory \in [State -> Seq(Segment)]
          /\ search_count \in [State -> Nat] /\ gold \in [State -> BOOLEAN]
        BY <2>1, <2>2 DEF RolloutTypes, OnStates
    <2> QED BY <2>1, <2>3, <2>4 DEF RolloutTypes, TypeOK, Word
<1> QED BY <1>1, RolloutInvAlways, PTL

LEMMA ShowsIterative ==
    ASSUME NEW words, NEW text, Shows(args.summary_mode, words, text)
    PROVE  ShowsContext(words, text)
BY ContextIsIterative DEF Shows, Resembles, ShowsContext

\* Whatever the order in which the threads of search_many come back, a result block
\* follows the search it answers.
THEOREM ResultsAnswerTheirSearch == Spec => []ResultsFollowTheirSearch
<1>1. ASSUME RolloutInv PROVE ResultsFollowTheirSearch
    <2> SUFFICES ASSUME NEW s \in State, NEW i \in DOMAIN trajectory[s],
                        IsBlock(trajectory[s][i])
                 PROVE  /\ i > 1 /\ trajectory[s][i - 1].says = "search"
                        /\ trajectory[s][i].reply.found =>
                               trajectory[s][i].reply.query = trajectory[s][i - 1].query
        BY DEF ResultsFollowTheirSearch
    <2>1. Thread(args.summary_mode, trajectory[s], prompt[s], model_steps[s], history[s],
                 search_count[s], gold[s], finished[s])
        BY <1>1 DEF RolloutInv, Threads
    <2>2. Answered(trajectory[s]) /\ trajectory[s] \in Seq(Segment)
        BY <2>1 DEF Thread, Coherent
    <2>3. Answers(trajectory[s], i)
        BY <2>2 DEF Answered
    <2> QED BY <2>3, SearchKinds DEF Answers
<1> QED BY <1>1, RolloutInvAlways, PTL

\* The repeated string replacement of compact_previous_results leaves every prompt as
\* the iterative context of its trajectory, for every number of turns and every summary:
\* exactly, unless two outputs with the same result overlap, and then but for free text.
THEOREM PromptsAreIterative == Spec => []PromptIsIterativeContext
<1>1. ASSUME RolloutInv PROVE PromptIsIterativeContext
    <2> SUFFICES ASSUME NEW s \in State
                 PROVE  ShowsContext(prompt[s], trajectory[s])
        BY DEF PromptIsIterativeContext
    <2>1. Thread(args.summary_mode, trajectory[s], prompt[s], model_steps[s], history[s],
                 search_count[s], gold[s], finished[s])
        BY <1>1 DEF RolloutInv, Threads
    <2>2. Shows(args.summary_mode, prompt[s], trajectory[s])
        BY <2>1 DEF Thread, Coherent, Shows
    <2> QED BY <2>2, ShowsIterative
<1> QED BY <1>1, RolloutInvAlways, PTL

\* Every step of the loss was conditioned on the iterative context of what came before
\* it, and the steps' outputs are all the policy said, in its order.
THEOREM StepsReplayTheRollout == Spec => []StepsReplay
<1>1. ASSUME RolloutInv PROVE StepsReplay
    <2> SUFFICES ASSUME NEW s \in State
                 PROVE  /\ \A k \in DOMAIN model_steps[s] :
                               ShowsContext(model_steps[s][k].prompt, Before(s, k))
                        /\ Where(trajectory[s], IsModelText) =
                               Where([k \in DOMAIN model_steps[s] |-> model_steps[s][k].output],
                                     IsModelText)
        BY DEF StepsReplay
    <2>1. Thread(args.summary_mode, trajectory[s], prompt[s], model_steps[s], history[s],
                 search_count[s], gold[s], finished[s])
        BY <1>1 DEF RolloutInv, Threads
    <2>2. Replays(args.summary_mode, trajectory[s], model_steps[s])
        BY <2>1 DEF Thread
    <2>3. \A k : Before(s, k) = TextBefore(trajectory[s], k)
        BY DEF Before, TextBefore, PlacesOf, TextsTo
    <2>4. \A k \in DOMAIN model_steps[s] :
              ShowsContext(model_steps[s][k].prompt, Before(s, k))
        BY <2>2, <2>3, ShowsIterative DEF Replays
    <2>5. ModelTexts(trajectory[s]) = ModelTexts(Outputs(model_steps[s]))
        BY <2>2 DEF Replays
    <2> QED BY <2>4, <2>5 DEF ModelTexts, Outputs
<1> QED BY <1>1, RolloutInvAlways, PTL

\* What a verdict is worth.
Value(verdict) == CASE verdict = 0 -> -50 [] verdict = 1 -> 0 [] verdict = 2 -> 100 [] OTHER -> 150

LEMMA WorthOfVerdict ==
    ASSUME RolloutInv, pc = "learnt", NEW s \in State
    PROVE  /\ Verdict(s) \in 0..3 /\ Charged(s) \in 0..(args.max_turns - 1)
           /\ reward[s] = Value(Verdict(s)) - args.search_cost * Charged(s)
<1>1. /\ RolloutTypes /\ Threads /\ Counted /\ Rewarded
      /\ args.search_cost \in Nat /\ args.max_turns \in Nat \ {0} /\ turn <= args.max_turns + 1
      /\ turn \in Int
    BY StateIsRange DEF RolloutInv, RolloutTypes
<1>2. Thread(args.summary_mode, trajectory[s], prompt[s], model_steps[s], history[s],
             search_count[s], gold[s], finished[s])
    BY <1>1 DEF Threads
<1>3. /\ search_count[s] = Cardinality(Blocks(trajectory[s])) /\ search_count[s] \in Nat
      /\ gold[s] \in BOOLEAN /\ (gold[s] <=> FoundGold(trajectory[s]))
    BY <1>2, ThreadTypes DEF Thread
<1>4. search_count[s] <= args.max_turns
    BY <1>1, <1>3 DEF Counted
<1>5. Charged(s) = ChargedFor(search_count[s])
    BY <1>3, MaxOfTwo DEF Charged, ChargedFor
<1>6. Charged(s) \in 0..(args.max_turns - 1)
    BY <1>1, <1>3, <1>4, <1>5 DEF ChargedFor
<1>7. prediction[s] = ExtractAnswerLabel(trajectory[s])
    BY <1>1 DEF Rewarded
<1>8. reward[s] = Worth(prediction[s], args.labels[GroupIndex(s)], gold[s])
                      - args.search_cost * Charged(s)
    BY <1>1, <1>3, <1>5, RewardIsWorth DEF Rewarded
<1>9. /\ Verdict(s) \in 0..3
      /\ Worth(prediction[s], args.labels[GroupIndex(s)], gold[s]) = Value(Verdict(s))
    BY <1>3, <1>7 DEF Verdict, Worth, Value
<1> QED BY <1>6, <1>8, <1>9

\* A reward is larger for a better verdict, or for the same with fewer searches.
Ranked(x, y, v, w, a, b) == x > y <=> v > w \/ (v = w /\ a < b)

\* A cost per search that never adds up to a verdict orders rewards as it should.
LEMMA CheapSearchesOrder ==
    ASSUME NEW cost \in Nat, NEW most \in Nat, cost > 0, cost * most < 50,
           NEW a \in 0..most, NEW b \in 0..most, NEW v \in 0..3, NEW w \in 0..3,
           NEW x, x = Value(v) - cost * a, NEW y, y = Value(w) - cost * b
    PROVE  Ranked(x, y, v, w, a, b)
<1>1. ASSUME NEW n \in 0..most
      PROVE  cost * n \in Nat /\ cost * n < 50
    <2>1. cost * n + cost * (most - n) = cost * most
        OBVIOUS
    <2>2. most - n \in Nat
        OBVIOUS
    <2>3. cost * n \in Nat /\ cost * (most - n) \in Nat
        BY <2>2
    <2> QED BY <2>1, <2>3
<1>2. cost * a < cost * b <=> a < b
    <2>1. \A c, d \in Nat : c < d => cost * c < cost * d
        <3> SUFFICES ASSUME NEW c \in Nat, NEW d \in Nat, c < d PROVE cost * c < cost * d
            OBVIOUS
        <3>1. cost * d = cost * c + cost + cost * (d - c - 1)
            OBVIOUS
        <3>2. d - c - 1 \in Nat
            OBVIOUS
        <3>3. cost * (d - c - 1) \in Nat /\ cost * c \in Nat /\ cost * d \in Nat
            BY <3>2
        <3> QED BY <3>1, <3>3
    <2>2. CASE a < b
        BY <2>1, <2>2
    <2>3. CASE a = b
        BY <2>3
    <2>4. CASE b < a
        <3>1. cost * b < cost * a
            BY <2>1, <2>4
        <3> QED BY <1>1, <2>4, <3>1
    <2> QED BY <2>2, <2>3, <2>4
<1> DEFINE p == cost * a
           q == cost * b
<1>3. p \in Nat /\ q \in Nat /\ p < 50 /\ q < 50 /\ (p < q <=> a < b)
    BY <1>1, <1>2
<1> HIDE DEF p, q
<1>4. Value(v) - p > Value(w) - q <=> v > w \/ (v = w /\ a < b)
    <2>1. CASE v = w
        <3>1. Value(v) \in Int
            BY DEF Value
        <3> QED BY <1>3, <2>1, <3>1
    <2>2. CASE v > w
        <3>1. Value(v) >= Value(w) + 50 /\ Value(v) \in Int /\ Value(w) \in Int
            BY <2>2 DEF Value
        <3> QED BY <1>3, <2>2, <3>1
    <2>3. CASE v < w
        <3>1. Value(w) >= Value(v) + 50 /\ Value(v) \in Int /\ Value(w) \in Int
            BY <2>3 DEF Value
        <3> QED BY <1>3, <2>3, <3>1
    <2> QED BY <2>1, <2>2, <2>3
<1> QED BY <1>4 DEF p, q, Ranked

\* The searches charged and the evidence credited are those of the trajectory, and, as
\* long as the searches of max_turns cost less than half a point, the rewards of a group
\* stand in the order of the verdicts, then of the searches.
THEOREM RewardsReflectTheRollout ==
    ASSUME SearchesNeverOutweigh
    PROVE  Spec => []RewardsAreEarned
<1>1. ASSUME RolloutInv PROVE RewardsAreEarned
    <2>1. ASSUME NEW s \in State
          PROVE  /\ search_count[s] = Cardinality(Blocks(trajectory[s]))
                 /\ search_count[s] = Len(history[s])
                 /\ gold[s] = FoundGold(trajectory[s])
        <3>1. Thread(args.summary_mode, trajectory[s], prompt[s], model_steps[s], history[s],
                     search_count[s], gold[s], finished[s])
            BY <1>1 DEF RolloutInv, Threads
        <3>2. FoundGold(trajectory[s]) \in BOOLEAN
            BY DEF FoundGold
        <3> QED BY <3>1, <3>2 DEF Thread
    <2>2. ASSUME pc = "learnt", NEW s \in State, NEW t \in State
          PROVE  reward[s] > reward[t] <=> \/ Verdict(s) > Verdict(t)
                                           \/ Verdict(s) = Verdict(t) /\ Charged(s) < Charged(t)
        <3> DEFINE most == args.max_turns - 1
        <3>1. args \in Args
            BY <1>1 DEF RolloutInv, RolloutTypes
        <3>2. args.search_cost \in Nat /\ most \in Nat
            BY <3>1, StateIsRange
        <3>3. args.search_cost > 0 /\ args.search_cost * most < 50
            BY <3>1 DEF SearchesNeverOutweigh
        <3>4. /\ Verdict(s) \in 0..3 /\ Charged(s) \in 0..most
              /\ reward[s] = Value(Verdict(s)) - args.search_cost * Charged(s)
            BY <1>1, <2>2, WorthOfVerdict
        <3>5. /\ Verdict(t) \in 0..3 /\ Charged(t) \in 0..most
              /\ reward[t] = Value(Verdict(t)) - args.search_cost * Charged(t)
            BY <1>1, <2>2, WorthOfVerdict
        <3> HIDE DEF most
        <3>6. Ranked(reward[s], reward[t], Verdict(s), Verdict(t), Charged(s), Charged(t))
            BY <3>2, <3>3, <3>4, <3>5, CheapSearchesOrder
        <3> QED BY <3>6 DEF Ranked
    <2> QED BY <2>1, <2>2 DEF RewardsAreEarned
<1> QED BY <1>1, RolloutInvAlways, PTL

LEMMA ModelPairsAreTagged ==
    ASSUME RolloutInv, LossInv, pc = "learnt"
    PROVE  /\ DOMAIN selected = 1..Len(selected) /\ Len(selected) \in Nat
           /\ InMicroBatches(pairs, args.micro_batch) = pairs
           /\ \A i \in 1..Len(selected) :
                  Pick(pairs, OfTraj(pairs, i)) = Tagged(OwnSteps(selected[i].state), i)
<1> DEFINE n == Len(selected)
           own == [j \in 1..n |-> OwnSteps(selected[j].state)]
<1>1. args \in Args /\ reward \in [State -> Int]
    BY DEF RolloutInv, RolloutTypes
<1>2. SelectsUpTo(selected, reward, Len(args.labels), args.group_size)
    <2>1. Numeric(reward, Len(args.labels) * args.group_size)
        BY <1>1 DEF Numeric, State
    <2>2. \A g \in 1..Len(args.labels) : HasRewards(reward, g, args.group_size)
        BY <1>1, <2>1, StateIsRange, MemberInBatch DEF HasRewards, Numeric
    <2>3. selected = SelectGrpoSamples(reward, Len(args.labels), args.group_size)
        BY DEF LossInv
    <2> QED BY <1>1, <2>2, <2>3, StateIsRange, SelectsWholeMixedGroups
<1>3. selected \in Seq(Numbered)
    BY <1>2 DEF SelectsUpTo
<1>4. DOMAIN selected = 1..n /\ n \in Nat
    BY <1>3
<1>5. ASSUME NEW s \in State PROVE OwnSteps(s) \in Seq(StepRecord)
    <2>1. model_steps[s] \in Seq(StepRecord)
        BY DEF RolloutInv, Threads, Thread, Replays
    <2> QED BY <2>1, PickType DEF OwnSteps, Where
<1>6. Steps(own, n, StepRecord)
    BY <1>4, <1>5 DEF RolloutInv, RolloutTypes, Steps
<1>7. pairs = AllTagged(own, n)
    <2>1. pairs = FlattenSeq([j \in DOMAIN selected |-> Tagged(OwnSteps(selected[j].state), j)])
        BY DEF LossInv, ModelPairs, Tagged, OwnSteps
    <2>2. [j \in DOMAIN selected |-> Tagged(OwnSteps(selected[j].state), j)]
              = [j \in 1..n |-> Tagged(own[j], j)]
        BY <1>4
    <2> QED BY <2>1, <2>2 DEF AllTagged
<1> HIDE DEF n
<1>8. \A j \in 1..n : own[j] = OwnSteps(selected[j].state)
    OBVIOUS
<1> HIDE DEF own
<1>9. \A i \in 1..n : pairs \in Seq(Pair(StepRecord))
                      /\ Pick(pairs, OfTraj(pairs, i)) = Tagged(own[i], i)
    BY <1>4, <1>6, <1>7, OwnOfTagged
<1>10. InMicroBatches(pairs, args.micro_batch) = pairs
    <2>1. pairs \in Seq(Pair(StepRecord))
        <3>1. [j \in 1..n |-> Tagged(own[j], j)] \in Seq(Seq(Pair(StepRecord)))
            <4>1. \A j \in 1..n : Tagged(own[j], j) \in Seq(Pair(StepRecord))
                BY <1>4, <1>6, TaggedType DEF Steps
            <4> QED BY <1>4, <4>1
        <3> QED BY <1>7, <3>1, FlattenType DEF AllTagged
    <2> QED BY <1>1, <2>1, StateIsRange, MicroBatchesJoin
<1> QED BY <1>4, <1>8, <1>9, <1>10 DEF n

\* The loss is made of whole groups with different rewards, in the order of the batch,
\* pushes the better of a group up against the worse, and sums for a trajectory the
\* log-probabilities of all its own outputs and no other: for every batch, group and
\* micro-batch size.
THEOREM LossesAreOwn == Spec => []LossIsOwn
<1>1. ASSUME RolloutInv, LossInv PROVE LossIsOwn
    <2> SUFFICES ASSUME pc = "learnt" PROVE LossIsOwn
        BY DEF LossIsOwn
    <2> DEFINE groups == Len(args.labels)
               size == args.group_size
    <2>1. args \in Args /\ reward \in [State -> Int]
        BY <1>1 DEF RolloutInv, RolloutTypes
    <2>2. groups \in Nat /\ size \in Nat \ {0} /\ State = 1..(groups * size)
        BY <2>1, StateIsRange DEF State
    <2>3. Numeric(reward, groups * size)
        BY <2>1, <2>2 DEF Numeric
    <2>4. SelectsUpTo(selected, reward, groups, size)
        <3>1. \A g \in 1..groups : HasRewards(reward, g, size)
            BY <2>2, <2>3, MemberInBatch DEF HasRewards, Numeric
        <3>2. selected = SelectGrpoSamples(reward, groups, size)
            BY <1>1 DEF LossInv
        <3> QED BY <2>2, <3>1, <3>2, SelectsWholeMixedGroups
    <2>5. \A s : GroupIndex(s) = GroupOf(s, size)
        BY DEF GroupIndex, GroupOf
    <2>6. DOMAIN selected = 1..Len(selected) /\ Len(selected) \in Nat
        BY <1>1, ModelPairsAreTagged
    <2> HIDE DEF groups, size
    <2>7. /\ \A s \in State : (\E i \in DOMAIN selected : selected[i].state = s)
                                  <=> ~Alike(reward, groups * size, size, s)
          /\ PushesRightly(selected, reward, size) /\ PushesBothWays(selected, size)
        <3>1. /\ SelectsMixed(selected, reward, groups * size, size)
              /\ PushesRightly(selected, reward, size) /\ PushesBothWays(selected, size)
            BY <2>2, <2>3, <2>4, SelectionIsFair
        <3> QED BY <2>2, <3>1 DEF SelectsMixed
    <2>8. \A i, j \in DOMAIN selected : i < j => selected[i].state < selected[j].state
        BY <2>4, <2>6 DEF SelectsUpTo, InOrder
    <2>9. ASSUME NEW s \in State
          PROVE  Cardinality({i \in DOMAIN selected : selected[i].state = s}) =
                     IF \A t \in {t \in State : GroupIndex(t) = GroupIndex(s)} :
                            reward[t] = reward[s]
                     THEN 0 ELSE 1
        <3> DEFINE at == {i \in DOMAIN selected : selected[i].state = s}
        <3>1. (\A t \in {t \in State : GroupIndex(t) = GroupIndex(s)} : reward[t] = reward[s])
                  <=> Alike(reward, groups * size, size, s)
            BY <2>2, <2>5 DEF Alike
        <3>2. CASE Alike(reward, groups * size, size, s)
            <4>1. at = {}
                BY <2>7, <3>2
            <4> QED BY <3>1, <3>2, <4>1, FS_EmptySet
        <3>3. CASE ~Alike(reward, groups * size, size, s)
            <4>1. PICK i \in DOMAIN selected : selected[i].state = s
                BY <2>7, <3>3
            <4>2. ASSUME NEW j \in DOMAIN selected, selected[j].state = s PROVE j = i
                <5>1. ~(i < j) /\ ~(j < i)
                    BY <2>2, <2>8, <4>1, <4>2
                <5> QED BY <2>6, <5>1
            <4>3. at = {i}
                BY <4>1, <4>2
            <4> QED BY <3>1, <3>3, <4>3, FS_Singleton
        <3> QED BY <3>2, <3>3
    <2>10. ASSUME NEW i \in DOMAIN selected
           PROVE  summed[i] = Where(model_steps[selected[i].state], LAMBDA m : m.output # Empty)
        <3> DEFINE own == OwnSteps(selected[i].state)
                   mine == Pick(pairs, OfTraj(pairs, i))
        <3>1. /\ InMicroBatches(pairs, args.micro_batch) = pairs
              /\ mine = Tagged(own, i)
            BY <1>1, <2>6, ModelPairsAreTagged
        <3>2. summed[i] = [k \in DOMAIN mine |-> mine[k].step]
            BY <1>1, <3>1 DEF LossInv, SumsOfPairs, Where, OfTraj
        <3>3. own \in Seq(StepRecord)
            <4>1. selected[i].state \in State
                BY <1>1 DEF RolloutInv, RolloutTypes
            <4>2. model_steps[selected[i].state] \in Seq(StepRecord)
                BY <1>1, <4>1 DEF RolloutInv, Threads, Thread, Replays
            <4> QED BY <4>2, PickType DEF OwnSteps, Where
        <3>4. own = Where(model_steps[selected[i].state], LAMBDA m : m.output # Empty)
            BY DEF OwnSteps
        <3> HIDE DEF own, mine
        <3>5. i \in Nat
            BY <2>6
        <3>6. /\ Tagged(own, i) \in Seq(Pair(StepRecord)) /\ Len(Tagged(own, i)) = Len(own)
              /\ \A k \in 1..Len(own) : Tagged(own, i)[k].step = own[k]
            BY <3>3, <3>5, TaggedType
        <3>7. DOMAIN mine = 1..Len(own) /\ own = [k \in 1..Len(own) |-> own[k]]
            BY <3>1, <3>3, <3>6
        <3> QED BY <3>1, <3>2, <3>4, <3>6, <3>7
    <2> QED BY <2>5, <2>7, <2>8, <2>9, <2>10 DEF LossIsOwn, PushesRightly, PushesBothWays
<1> QED BY <1>1, RolloutInvAlways, LossInvAlways, PTL
===============================================================================
