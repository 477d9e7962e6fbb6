---------------------------- MODULE PpoStepProofs ----------------------------
(***************************************************************************)
(* Theorems about PpoStep.tla and what it is composed of, for every        *)
(* setting that PpoAssumption admits and rows of whatever lengths.         *)
(*                                                                         *)
(* First the pure parts: that collecting what was dispatched gives back    *)
(* the rows of every layout, that micro-batches and mini-batches deal the  *)
(* rows out once each, and that padding and taking the padding off cancel. *)
(* Then the inductive invariants, each with a lemma for every action:      *)
(* PpoInv (types, shapes and what has been computed when), ValidationNow,  *)
(* OwnInv (what the columns of a row hold), ScaleInv (what advantages are  *)
(* whitened with), UpdatesAreGradients (what the updates so far are),      *)
(* BalancedInv (the tokens of each rank after balance_batch) and EpochInv  *)
(* (which updates each group has taken).                                   *)
(***************************************************************************)
EXTENDS PpoStep, SeqlenBalancingProofs

-------------------------------------------------------------------------------
(* Numbers *)

\* a * k + b, for b < k, leaves a and b.
LEMMA DivisionIs ==
    ASSUME NEW k \in Nat \ {0}, NEW a \in Nat, NEW b \in 0..(k - 1)
    PROVE  (a * k + b) \div k = a /\ (a * k + b) % k = b
<1> DEFINE x == a * k + b
           d == x \div k
<1>1. a * k \in Nat /\ x \in Nat
    OBVIOUS
<1>2. d \in Int /\ k * d <= x /\ x < k * d + k /\ x % k = x - k * d
    BY <1>1
<1> HIDE DEF d
<1>3. ~(d >= a + 1)
    <2> SUFFICES ASSUME d >= a + 1 PROVE FALSE
        OBVIOUS
    <2>1. d - (a + 1) \in Nat
        BY <1>2
    <2>2. k * (d - (a + 1)) \in Nat
        BY <2>1
    <2>3. k * d = a * k + k + k * (d - (a + 1))
        BY <1>2
    <2> QED BY <1>1, <1>2, <2>2, <2>3
<1>4. ~(a >= d + 1)
    <2> SUFFICES ASSUME a >= d + 1 PROVE FALSE
        OBVIOUS
    <2>1. a - (d + 1) \in Nat
        BY <1>2
    <2>2. k * (a - (d + 1)) \in Nat
        BY <2>1
    <2>3. a * k = k * d + k + k * (a - (d + 1))
        BY <1>2
    <2> QED BY <1>1, <1>2, <2>2, <2>3
<1>5. d = a
    BY <1>2, <1>3, <1>4
<1>6. k * d = a * k
    BY <1>5
<1>7. x % k = b
    BY <1>1, <1>2, <1>6
<1> QED BY <1>5, <1>7 DEF d

\* x falls into a block of k numbers.
LEMMA DivisionOf ==
    ASSUME NEW k \in Nat \ {0}, NEW x \in Nat
    PROVE  /\ x \div k \in Nat /\ x % k \in 0..(k - 1)
           /\ x = (x \div k) * k + (x % k)
           /\ \A q \in Nat : x < q * k => x \div k < q
<1> DEFINE d == x \div k
<1>1. d \in Int /\ k * d <= x /\ x < k * d + k /\ x % k = x - k * d
    OBVIOUS
<1> HIDE DEF d
<1>2. k * d = d * k /\ d * k \in Int
    BY <1>1
<1>3. d >= 0
    <2> SUFFICES ASSUME d <= 0 - 1 PROVE FALSE
        BY <1>1
    <2>1. (0 - 1) - d \in Nat
        BY <1>1
    <2>2. k * ((0 - 1) - d) \in Nat
        BY <2>1
    <2>3. k * d = (0 - k) - k * ((0 - 1) - d)
        BY <1>1
    <2> QED BY <1>1, <2>2, <2>3
<1>4. ASSUME NEW q \in Nat, x < q * k PROVE d < q
    <2> SUFFICES ASSUME d >= q PROVE FALSE
        BY <1>1
    <2>1. d - q \in Nat
        BY <1>1
    <2>2. (d - q) * k \in Nat
        BY <2>1
    <2>3. d * k = q * k + (d - q) * k
        BY <1>1
    <2>4. q * k \in Int
        OBVIOUS
    <2> QED BY <1>1, <1>2, <1>4, <2>2, <2>3, <2>4
<1>5. d \in Nat /\ x % k \in 0..(k - 1) /\ x = d * k + (x % k)
    <2> DEFINE m == x % k
               e == k * d
    <2>1. e \in Int /\ e <= x /\ x < e + k /\ m = x - e /\ e = d * k
        BY <1>1, <1>2
    <2> HIDE DEF m, e
    <2>2. m \in 0..(k - 1) /\ x = d * k + m
        BY <2>1
    <2>3. d \in Nat
        BY <1>1, <1>3
    <2> QED BY <2>2, <2>3, Zenon DEF m
<1> QED BY <1>4, <1>5 DEF d

\* Steps of c in the same direction.
LEMMA Multiples ==
    ASSUME NEW a \in Int, NEW b \in Int, NEW c \in Nat, a <= b
    PROVE  a * c \in Int /\ b * c \in Int /\ a * c <= b * c
<1>1. b - a \in Nat
    OBVIOUS
<1>2. (b - a) * c \in Nat
    BY <1>1
<1>3. b * c = a * c + (b - a) * c /\ a * c \in Int
    OBVIOUS
<1> QED BY <1>2, <1>3

\* The d-th of n blocks of c numbers.
LEMMA InBlock ==
    ASSUME NEW n \in Nat, NEW c \in Nat, NEW d \in 0..(n - 1), NEW j \in 1..c
    PROVE  d * c \in Nat /\ d * c + c <= n * c /\ d * c + j \in 1..(n * c)
<1>1. d \in Nat /\ d + 1 <= n /\ d + 1 \in Int /\ n \in Int
    OBVIOUS
<1>2. (d + 1) * c <= n * c /\ n * c \in Int
    BY <1>1, Multiples
<1>3. (d + 1) * c = d * c + c /\ d * c \in Nat
    BY <1>1
<1> QED BY <1>2, <1>3

InSomeBlock(x, n, c) == \E d \in 0..(n - 1), j \in 1..c : x = d * c + j

LEMMA Blocks ==
    ASSUME NEW n \in Nat, NEW c \in Nat, NEW x \in 1..(n * c)
    PROVE  InSomeBlock(x, n, c)
<1>1. n * c \in Nat /\ x \in Nat /\ x >= 1 /\ x <= n * c
    OBVIOUS
<1>2. c # 0
    <2> SUFFICES ASSUME c = 0 PROVE FALSE
        OBVIOUS
    <2>1. n * c = 0
        OBVIOUS
    <2> QED BY <1>1, <2>1
<1>3. x - 1 \in Nat /\ x - 1 < n * c /\ c \in Nat \ {0}
    BY <1>1, <1>2
<1> DEFINE y == x - 1
           d == y \div c
           b == y % c
<1>4. /\ d \in Nat /\ b \in 0..(c - 1) /\ y = d * c + b /\ d < n
    <2> HIDE DEF y
    <2> QED BY <1>3, DivisionOf DEF y
<1> HIDE DEF d, b
<1>5. d * c \in Nat
    BY <1>4
<1>6. b + 1 \in 1..c /\ x = d * c + (b + 1) /\ d \in 0..(n - 1)
    BY <1>1, <1>4, <1>5
<1> QED BY <1>6 DEF InSomeBlock

-------------------------------------------------------------------------------
(* Joining parts *)

\* t is the d-th block of c elements of q.
IsBlock(t, q, d, c) == Len(t) = c /\ \A j \in 1..c : t[j] = q[d * c + j]

LEMMA ChunkIs ==
    ASSUME NEW S, NEW q \in Seq(S), NEW k \in Nat \ {0}, NEW c \in Nat, Len(q) = k * c,
           NEW i \in 0..(k - 1)
    PROVE  Chunk(q, k, i) \in Seq(S) /\ IsBlock(Chunk(q, k, i), q, i, c)
<1>1. Len(q) \div k = c
    <2>1. c * k = k * c /\ Len(q) \in Nat
        OBVIOUS
    <2> QED BY <2>1, QuotientIs
<1>2. i * c \in Nat /\ (i + 1) * c = i * c + c /\ i * c + c <= k * c
    <2>1. k * c \in Nat /\ i + 1 <= k /\ i + 1 \in Int /\ k \in Int /\ i \in Nat
        OBVIOUS
    <2>2. (i + 1) * c <= k * c
        BY <2>1, Multiples
    <2>3. i * c \in Nat /\ (i + 1) * c = i * c + c
        BY <2>1
    <2> QED BY <2>2, <2>3
<1> DEFINE a == i * c
           b == a + c
<1>3. Chunk(q, k, i) = SubSeq(q, a + 1, b)
    BY <1>1, <1>2 DEF Chunk
<1>4. a \in Nat /\ b \in Nat /\ a <= b /\ b <= Len(q) /\ b - a = c
    BY <1>2
<1> HIDE DEF b
<1>5. /\ SubSeq(q, a + 1, b) \in Seq(S) /\ Len(SubSeq(q, a + 1, b)) = b - a
      /\ \A j \in 1..(b - a) : SubSeq(q, a + 1, b)[j] = q[a + j]
    <2> HIDE DEF a
    <2> QED BY <1>4, SliceIs
<1> QED BY <1>3, <1>4, <1>5 DEF IsBlock

InGroupsOf(w, n, s) == w = n * s

\* Of m0 + n blocks of t parts, the first part of the last n blocks has c elements
\* and the others have none.
Sparse(parts, t, m0, n, c) ==
    \A a \in 0..(m0 + n - 1) : \A b \in 0..(t - 1) :
        Len(parts[a * t + b]) = IF b = 0 /\ a >= m0 THEN c ELSE 0

\* The d-th block of f is the part that begins the d-th of the last n blocks.
HoldsHeads(f, parts, t, m0, n, c) ==
    \A d \in 0..(n - 1) : \A j \in 1..c : f[d * c + j] = parts[(m0 + d) * t][j]

LEMMA SparseConcat ==
    ASSUME NEW S, NEW t \in Nat \ {0}, NEW m0 \in Nat, NEW n \in Nat, NEW c \in Nat, NEW w \in Nat,
           InGroupsOf(w, m0 + n, t), NEW parts \in [0..(w - 1) -> Seq(S)], Sparse(parts, t, m0, n, c)
    PROVE  /\ ConcatParts(w, parts) \in Seq(S) /\ Len(ConcatParts(w, parts)) = n * c
           /\ HoldsHeads(ConcatParts(w, parts), parts, t, m0, n, c)
<1> DEFINE ss == [i \in 1..w |-> parts[i - 1]]
           Ceil(r) == (r + t - 1) \div t
           h(r) == IF Ceil(r) > m0 THEN Ceil(r) - m0 ELSE 0
           g == [r \in 0..w |-> h(r) * c]
<1>0. w = (m0 + n) * t
    BY DEF InGroupsOf
<1>1. ss \in Seq(Seq(S)) /\ Len(ss) = w /\ \A i \in 1..w : ss[i] = parts[i - 1]
    <2>1. \A i \in 1..w : i - 1 \in 0..(w - 1)
        OBVIOUS
    <2>2. ss \in [1..w -> Seq(S)]
        BY <2>1
    <2> QED BY <2>2, FunctionIsSeq
<1>2. ConcatParts(w, parts) = FlattenSeq(ss)
    BY DEF ConcatParts
<1> HIDE DEF ss
<1>3. ASSUME NEW a \in Nat
      PROVE  /\ Ceil(a * t) = a
             /\ \A b \in 1..(t - 1) : Ceil(a * t + b) = a + 1
             /\ \A b \in 0..(t - 1) : Ceil((a * t + b) + 1) = a + 1
    <2>1. a * t \in Nat /\ (a + 1) * t = a * t + t /\ a + 1 \in Nat /\ t - 1 \in 0..(t - 1)
        OBVIOUS
    <2>2. (a * t + (t - 1)) \div t = a
        BY <2>1, DivisionIs
    <2>3. Ceil(a * t) = a
        <3>1. a * t + t - 1 = a * t + (t - 1)
            BY <2>1
        <3> QED BY <2>2, <3>1
    <2>4. ASSUME NEW b \in 0..(t - 1) PROVE Ceil((a * t + b) + 1) = a + 1
        <3>1. ((a + 1) * t + b) \div t = a + 1
            BY <2>1, DivisionIs
        <3>2. ((a * t + b) + 1) + t - 1 = (a + 1) * t + b
            BY <2>1
        <3> QED BY <3>1, <3>2
    <2>5. ASSUME NEW b \in 1..(t - 1) PROVE Ceil(a * t + b) = a + 1
        <3>1. b - 1 \in 0..(t - 1)
            OBVIOUS
        <3>2. Ceil((a * t + (b - 1)) + 1) = a + 1
            BY <2>4, <3>1
        <3>3. (a * t + (b - 1)) + 1 = a * t + b
            BY <2>1
        <3> QED BY <3>2, <3>3
    <2> HIDE DEF Ceil
    <2> QED BY <2>3, <2>4, <2>5
<1>4. \A r \in 0..w : Ceil(r) \in Nat
    <2> TAKE r \in 0..w
    <2>1. r + t - 1 \in Nat
        OBVIOUS
    <2> QED BY <2>1, DivisionOf
<1>5. ASSUME NEW r \in 0..(w - 1)
      PROVE  \E a \in 0..(m0 + n - 1), b \in 0..(t - 1) :
                 r = a * t + b /\ h(r + 1) = h(r) + (IF b = 0 /\ a >= m0 THEN 1 ELSE 0)
    <2> DEFINE a == r \div t
               b == r % t
    <2>1. /\ a \in Nat /\ b \in 0..(t - 1) /\ r = a * t + b /\ a < m0 + n
        <3>1. r \in Nat /\ m0 + n \in Nat /\ r < (m0 + n) * t
            BY <1>0
        <3> QED BY <3>1, DivisionOf
    <2> HIDE DEF a, b, Ceil
    <2>2. Ceil(r + 1) = a + 1 /\ (b = 0 => Ceil(r) = a) /\ (b # 0 => Ceil(r) = a + 1)
        <3>1. b = 0 => r = a * t
            BY <2>1
        <3>2. b # 0 => b \in 1..(t - 1)
            BY <2>1
        <3> QED BY <1>3, <2>1, <3>1, <3>2
    <2>3. h(r + 1) = h(r) + (IF b = 0 /\ a >= m0 THEN 1 ELSE 0)
        <3> DEFINE x == Ceil(r)
                   y == Ceil(r + 1)
        <3>1. a \in Nat /\ y = a + 1 /\ (b = 0 => x = a) /\ (b # 0 => x = a + 1)
            BY <2>1, <2>2
        <3> HIDE DEF x, y
        <3>2. (IF y > m0 THEN y - m0 ELSE 0)
                  = (IF x > m0 THEN x - m0 ELSE 0) + (IF b = 0 /\ a >= m0 THEN 1 ELSE 0)
            BY <3>1
        <3> QED BY <3>2 DEF x, y
    <2>4. a \in 0..(m0 + n - 1)
        BY <2>1
    <2> HIDE DEF h
    <2> QED BY <2>1, <2>3, <2>4
<1>6. g \in [0..w -> Nat] /\ g[0] = 0
    <2>1. \A r \in 0..w : h(r) \in Nat
        <3> HIDE DEF Ceil
        <3> QED BY <1>4
    <2>2. \A r \in 0..w : h(r) * c \in Nat
        <3> HIDE DEF h
        <3> QED BY <2>1
    <2>3. h(0) = 0
        <3>1. Ceil(0 * t) = 0
            BY <1>3
        <3>2. 0 * t = 0
            OBVIOUS
        <3> HIDE DEF Ceil
        <3> QED BY <3>1, <3>2
    <2> HIDE DEF h
    <2>4. h(0) * c = 0 /\ 0 \in 0..w
        BY <2>3
    <2> QED BY <2>2, <2>4
<1>7. Offsets(g, ss)
    <2> SUFFICES ASSUME NEW i \in 1..w PROVE g[i] = g[i - 1] + Len(ss[i])
        BY <1>1, <1>6 DEF Offsets
    <2> DEFINE r == i - 1
    <2>1. r \in 0..(w - 1) /\ r \in 0..w /\ r + 1 = i /\ i \in 0..w
        OBVIOUS
    <2> HIDE DEF r
    <2>2. PICK a \in 0..(m0 + n - 1), b \in 0..(t - 1) :
              r = a * t + b /\ h(r + 1) = h(r) + (IF b = 0 /\ a >= m0 THEN 1 ELSE 0)
        <3> HIDE DEF h
        <3> QED BY <1>5, <2>1
    <2>3. Len(ss[i]) = IF b = 0 /\ a >= m0 THEN c ELSE 0
        <3>1. Len(parts[a * t + b]) = IF b = 0 /\ a >= m0 THEN c ELSE 0
            BY DEF Sparse
        <3>2. ss[i] = parts[r]
            BY <1>1 DEF r
        <3> QED BY <2>2, <3>1, <3>2
    <2>4. h(r) \in Int
        <3> HIDE DEF Ceil
        <3> QED BY <1>4, <2>1
    <2> HIDE DEF h
    <2>5. CASE b = 0 /\ a >= m0
        <3>1. h(r + 1) = h(r) + 1
            BY <2>2, <2>5
        <3>2. (h(r) + 1) * c = h(r) * c + c
            BY <2>4
        <3> QED BY <2>1, <2>3, <2>5, <3>1, <3>2 DEF r
    <2>6. CASE ~(b = 0 /\ a >= m0)
        <3>1. h(r + 1) = h(r)
            BY <2>2, <2>4, <2>6
        <3>2. h(r) * c \in Int
            BY <2>4
        <3> QED BY <2>1, <2>3, <2>6, <3>1, <3>2 DEF r
    <2> QED BY <2>5, <2>6
<1>8. /\ FlattenSeq(ss) \in Seq(S) /\ Len(FlattenSeq(ss)) = g[w]
      /\ \A i \in 1..w : \A j \in 1..Len(ss[i]) : FlattenSeq(ss)[g[i - 1] + j] = ss[i][j]
    <2>1. g \in [0..Len(ss) -> Nat]
        BY <1>1, <1>6
    <2> HIDE DEF g
    <2>2. /\ FlattenSeq(ss) \in Seq(S) /\ Len(FlattenSeq(ss)) = g[Len(ss)]
          /\ LaidOut(FlattenSeq(ss), g, ss)
        BY <1>1, <1>7, <2>1, FlattenAt
    <2> QED BY <1>1, <2>2 DEF LaidOut
<1>9. \A d \in 0..n : h((m0 + d) * t) = d
    <2> TAKE d \in 0..n
    <2>1. m0 + d \in Nat
        OBVIOUS
    <2>2. Ceil((m0 + d) * t) = m0 + d
        BY <1>3, <2>1
    <2> HIDE DEF Ceil
    <2> QED BY <2>2
<1>10. g[w] = n * c
    <2>1. n \in 0..n /\ w \in 0..w
        OBVIOUS
    <2>2. h(w) = n
        <3> HIDE DEF h
        <3> QED BY <1>0, <1>9, <2>1
    <2> HIDE DEF h
    <2> QED BY <2>1, <2>2
<1>11. ASSUME NEW d \in 0..(n - 1), NEW j \in 1..c
       PROVE  ConcatParts(w, parts)[d * c + j] = parts[(m0 + d) * t][j]
    <2> DEFINE r == (m0 + d) * t
    <2>1. r \in Nat /\ r + 1 <= w
        <3> DEFINE e == m0 + d
                   m == m0 + n
        <3>1. e \in 0..(m - 1) /\ m \in Nat /\ 1 \in 1..t
            OBVIOUS
        <3> HIDE DEF e, m
        <3>2. e * t \in Nat /\ e * t + 1 \in 1..(m * t)
            BY <3>1, InBlock
        <3> QED BY <1>0, <3>2 DEF e, m
    <2>2. h(r) = d
        <3>1. d \in 0..n
            OBVIOUS
        <3> HIDE DEF h
        <3> QED BY <1>9, <3>1
    <2>3. Len(parts[r]) = c
        <3>1. m0 + d \in 0..(m0 + n - 1) /\ 0 \in 0..(t - 1) /\ m0 + d >= m0
            OBVIOUS
        <3>2. Len(parts[(m0 + d) * t + 0]) = c
            BY <3>1 DEF Sparse
        <3>3. (m0 + d) * t + 0 = r
            BY <2>1
        <3> QED BY <3>2, <3>3
    <2> HIDE DEF r, h
    <2>4. r + 1 \in 1..w /\ (r + 1) - 1 = r /\ r \in 0..w
        BY <2>1
    <2>5. ss[r + 1] = parts[r]
        BY <1>1, <2>4
    <2>6. FlattenSeq(ss)[g[r] + j] = parts[r][j]
        <3> HIDE DEF g
        <3> QED BY <1>8, <2>3, <2>4, <2>5
    <2>7. g[r] = d * c
        BY <2>2, <2>4
    <2> QED BY <1>2, <2>6, <2>7 DEF r
<1> QED BY <1>2, <1>8, <1>10, <1>11 DEF HoldsHeads

LEMMA EvenConcat ==
    ASSUME NEW S, NEW k \in Nat, NEW c \in Nat, NEW parts \in [0..(k - 1) -> Seq(S)],
           \A i \in 0..(k - 1) : Len(parts[i]) = c
    PROVE  /\ ConcatParts(k, parts) \in Seq(S) /\ Len(ConcatParts(k, parts)) = k * c
           /\ \A i \in 0..(k - 1) : IsBlock(parts[i], ConcatParts(k, parts), i, c)
<1>1. 0 + k = k /\ k * 1 = k /\ 0 \in Nat /\ 1 \in Nat \ {0} /\ InGroupsOf(k, 0 + k, 1)
    BY DEF InGroupsOf
<1>2. Sparse(parts, 1, 0, k, c)
    BY DEF Sparse
<1>3. /\ ConcatParts(k, parts) \in Seq(S) /\ Len(ConcatParts(k, parts)) = k * c
      /\ HoldsHeads(ConcatParts(k, parts), parts, 1, 0, k, c)
    BY <1>1, <1>2, SparseConcat, Zenon
<1>4. \A d \in 0..(k - 1) : (0 + d) * 1 = d
    OBVIOUS
<1> QED BY <1>3, <1>4 DEF IsBlock, HoldsHeads

\* The rows of the d-th group of s ranks among w, and what the ranks of all groups
\* answer when the d-th group answers out[d].
GroupRows(w, s, q, d) == ConcatParts(s, [i \in 0..(s - 1) |-> Chunk(q, w, d * s + i)])
Gathered(w, s, out) == ConcatParts(w, [r \in 0..(w - 1) |-> Chunk(out[r \div s], s, r % s)])

LEMMA GroupRowsAre ==
    ASSUME NEW S, NEW s \in Nat \ {0}, NEW n \in Nat, NEW w \in Nat, InGroupsOf(w, n, s), NEW c \in Nat,
           NEW q \in Seq(S), Len(q) = w * c, NEW d \in 0..(n - 1)
    PROVE  GroupRows(w, s, q, d) \in Seq(S) /\ IsBlock(GroupRows(w, s, q, d), q, d, s * c)
<1> DEFINE parts == [i \in 0..(s - 1) |-> Chunk(q, w, d * s + i)]
<1>1. \A i \in 0..(s - 1) : d * s \in Nat /\ d * s + i \in 0..(w - 1)
    <2> TAKE i \in 0..(s - 1)
    <2>1. i + 1 \in 1..s
        OBVIOUS
    <2>2. d * s \in Nat /\ d * s + (i + 1) \in 1..(n * s)
        BY <2>1, InBlock
    <2> QED BY <2>2 DEF InGroupsOf
<1>2. w \in Nat \ {0}
    <2>1. 0 \in 0..(s - 1)
        OBVIOUS
    <2>2. d * s \in Nat /\ d * s + 0 \in 0..(w - 1)
        BY <1>1, <2>1
    <2> QED BY <2>2
<1>3. \A i \in 0..(s - 1) : parts[i] \in Seq(S) /\ IsBlock(parts[i], q, d * s + i, c)
    <2> TAKE i \in 0..(s - 1)
    <2> DEFINE e == d * s + i
    <2>1. e \in 0..(w - 1) /\ parts[i] = Chunk(q, w, e)
        BY <1>1
    <2> HIDE DEF e, parts
    <2>2. Chunk(q, w, e) \in Seq(S) /\ IsBlock(Chunk(q, w, e), q, e, c)
        BY <1>2, <2>1, ChunkIs
    <2> QED BY <2>1, <2>2 DEF e
<1>4. parts \in [0..(s - 1) -> Seq(S)]
    BY <1>3
<1> DEFINE g == ConcatParts(s, parts)
<1>5. g = GroupRows(w, s, q, d)
    BY DEF GroupRows
<1> HIDE DEF parts
<1> HIDE DEF g
<1>6. /\ g \in Seq(S) /\ Len(g) = s * c
      /\ \A i \in 0..(s - 1) : IsBlock(parts[i], g, i, c)
    <2>1. s \in Nat /\ \A i \in 0..(s - 1) : Len(parts[i]) = c
        BY <1>3 DEF IsBlock
    <2> QED BY <1>4, <2>1, EvenConcat, Zenon DEF g
<1>7. ASSUME NEW x \in 1..(s * c) PROVE g[x] = q[d * (s * c) + x]
    <2>1. PICK i \in 0..(s - 1), j \in 1..c : x = i * c + j
        <3>1. s \in Nat
            OBVIOUS
        <3>2. InSomeBlock(x, s, c)
            BY <3>1, Blocks, Zenon
        <3> QED BY <3>2, Zenon DEF InSomeBlock
    <2>2. g[x] = parts[i][j]
        BY <1>6, <2>1 DEF IsBlock
    <2>3. parts[i][j] = q[(d * s + i) * c + j]
        BY <1>3 DEF IsBlock
    <2>4. (d * s + i) * c + j = d * (s * c) + x
        BY <2>1
    <2> QED BY <2>2, <2>3, <2>4
<1> QED BY <1>5, <1>6, <1>7 DEF IsBlock

LEMMA GatheredIs ==
    ASSUME NEW S, NEW s \in Nat \ {0}, NEW n \in Nat, NEW w \in Nat, InGroupsOf(w, n, s), NEW c \in Nat,
           NEW out \in [0..(n - 1) -> Seq(S)], \A d \in 0..(n - 1) : Len(out[d]) = s * c
    PROVE  /\ Gathered(w, s, out) \in Seq(S) /\ Len(Gathered(w, s, out)) = n * (s * c)
           /\ \A d \in 0..(n - 1) : IsBlock(out[d], Gathered(w, s, out), d, s * c)
<1> DEFINE parts == [r \in 0..(w - 1) |-> Chunk(out[r \div s], s, r % s)]
<1>1. \A r \in 0..(w - 1) : r \div s \in 0..(n - 1) /\ r % s \in 0..(s - 1)
    <2> TAKE r \in 0..(w - 1)
    <2>1. r \in Nat /\ r < n * s
        BY DEF InGroupsOf
    <2>2. r \div s \in Nat /\ r % s \in 0..(s - 1) /\ r \div s < n
        BY <2>1, DivisionOf
    <2> QED BY <2>2
<1>3. \A r \in 0..(w - 1) :
          parts[r] \in Seq(S) /\ IsBlock(parts[r], out[r \div s], r % s, c)
    <2> TAKE r \in 0..(w - 1)
    <2> DEFINE d == r \div s
               i == r % s
    <2>1. d \in 0..(n - 1) /\ i \in 0..(s - 1) /\ parts[r] = Chunk(out[d], s, i)
        BY <1>1
    <2> HIDE DEF d, i, parts
    <2>2. Chunk(out[d], s, i) \in Seq(S) /\ IsBlock(Chunk(out[d], s, i), out[d], i, c)
        BY <2>1, ChunkIs
    <2> QED BY <2>1, <2>2 DEF d, i
<1>4. parts \in [0..(w - 1) -> Seq(S)]
    BY <1>3
<1> DEFINE g == ConcatParts(w, parts)
<1>5. g = Gathered(w, s, out)
    BY DEF Gathered
<1> HIDE DEF parts
<1> HIDE DEF g
<1>6. /\ g \in Seq(S) /\ Len(g) = w * c
      /\ \A i \in 0..(w - 1) : IsBlock(parts[i], g, i, c)
    <2>1. \A i \in 0..(w - 1) : Len(parts[i]) = c
        BY <1>3 DEF IsBlock
    <2>2. w \in Nat /\ c \in Nat
        OBVIOUS
    <2>3. /\ ConcatParts(w, parts) \in Seq(S) /\ Len(ConcatParts(w, parts)) = w * c
          /\ \A i \in 0..(w - 1) : IsBlock(parts[i], ConcatParts(w, parts), i, c)
        BY <1>4, <2>1, <2>2, EvenConcat
    <2> QED BY <2>3 DEF g
<1>7. ASSUME NEW d \in 0..(n - 1), NEW x \in 1..(s * c) PROVE out[d][x] = g[d * (s * c) + x]
    <2>1. PICK i \in 0..(s - 1), j \in 1..c : x = i * c + j
        <3>1. s \in Nat
            OBVIOUS
        <3>2. InSomeBlock(x, s, c)
            BY <3>1, Blocks, Zenon
        <3> QED BY <3>2, Zenon DEF InSomeBlock
    <2> DEFINE r == d * s + i
    <2>2. r \div s = d /\ r % s = i
        <3>1. d \in Nat
            OBVIOUS
        <3> QED BY <3>1, DivisionIs
    <2>3. r \in 0..(w - 1)
        <3>1. i + 1 \in 1..s
            OBVIOUS
        <3>2. d * s \in Nat /\ d * s + (i + 1) \in 1..(n * s)
            BY <3>1, InBlock
        <3> QED BY <3>2 DEF InGroupsOf
    <2>4. r * c + j = d * (s * c) + x
        BY <2>1
    <2> HIDE DEF r
    <2>5. g[r * c + j] = parts[r][j]
        BY <1>6, <2>3 DEF IsBlock
    <2>6. parts[r][j] = out[d][i * c + j]
        BY <1>3, <2>2, <2>3 DEF IsBlock
    <2> QED BY <2>1, <2>4, <2>5, <2>6
<1>8. w * c = n * (s * c)
    BY DEF InGroupsOf
<1> QED BY <1>5, <1>6, <1>7, <1>8 DEF IsBlock

-------------------------------------------------------------------------------
(* Layouts *)

LEMMA NoRemainder ==
    ASSUME NEW k \in Nat \ {0}, NEW x \in Nat, x % k = 0
    PROVE  x \div k \in Nat /\ x = (x \div k) * k
<1> DEFINE d == x \div k
           m == x % k
<1>1. d \in Nat /\ x = d * k + m
    BY DivisionOf
<1>2. m = 0
    OBVIOUS
<1> HIDE DEF d, m
<1>3. d * k \in Nat
    BY <1>1
<1>4. d \in Nat /\ x = d * k
    BY <1>1, <1>2, <1>3
<1> QED BY <1>4 DEF d

LEMMA NoneRemains ==
    ASSUME NEW k \in Nat \ {0}, NEW a \in Nat
    PROVE  (a * k) % k = 0 /\ (a * k) \div k = a
<1>1. a * k + 0 = a * k /\ 0 \in 0..(k - 1)
    OBVIOUS
<1> QED BY <1>1, DivisionIs

\* Backends and sizes of a layout.
IsLayout(l) ==
    /\ l.backend \in {"fsdp", "megatron"}
    /\ l.world \in Nat \ {0} /\ l.sp \in Nat \ {0} /\ l.tp \in Nat \ {0} /\ l.pp \in Nat \ {0}
    /\ l.infer \in Nat \ {0} /\ Dp(l) \in Nat \ {0}
    /\ l.backend = "fsdp" => InGroupsOf(l.world, Dp(l), l.sp)
    /\ l.backend = "megatron" => l.world = (Dp(l) * l.pp) * l.tp
    /\ l.world % l.infer = 0

LEMMA SettingsAreLayouts == ASSUME NEW l \in Settings PROVE IsLayout(l)
<1>1. /\ l.backend \in {"fsdp", "megatron"}
      /\ l.world \in Nat \ {0} /\ l.sp \in Nat \ {0} /\ l.tp \in Nat \ {0} /\ l.pp \in Nat \ {0}
      /\ l.infer \in Nat \ {0}
      /\ l.world % (l.sp * l.tp * l.pp) = 0 /\ l.world % l.infer = 0
      /\ l.backend = "megatron" => l.sp = 1
    BY PpoAssumption
<1> DEFINE w == l.world
           s == l.sp
           t == l.tp
           p == l.pp
           m == s * t * p
           y == w \div m
<1>2. w \in Nat \ {0} /\ s \in Nat \ {0} /\ t \in Nat \ {0} /\ p \in Nat \ {0}
    BY <1>1
<1>3. w % m = 0
    BY <1>1
<1> HIDE DEF w, s, t, p
<1>4. t * p \in Nat /\ t * p # 0
    BY <1>2
<1>5. m = s * (t * p)
    BY <1>2
<1> DEFINE tp == t * p
<1>6. m \in Nat /\ m # 0
    <2> HIDE DEF tp
    <2>1. s * tp \in Nat /\ s * tp # 0
        BY <1>2, <1>4 DEF tp
    <2> QED BY <1>5, <2>1 DEF tp
<1> HIDE DEF m
<1>7. y \in Nat /\ w = y * m
    BY <1>2, <1>3, <1>6, NoRemainder
<1> HIDE DEF y
<1>8. y # 0
    <2> SUFFICES ASSUME y = 0 PROVE FALSE
        OBVIOUS
    <2>1. y * m = 0
        BY <1>6
    <2> QED BY <1>2, <1>7, <2>1
<1>9. CASE l.backend = "fsdp"
    <2>1. Dp(l) = w \div s
        BY <1>9 DEF Dp, w, s
    <2> DEFINE e == y * tp
    <2>2. e \in Nat /\ e # 0
        <3> HIDE DEF tp
        <3> QED BY <1>4, <1>7, <1>8 DEF tp
    <2>3. w = e * s
        <3>1. tp \in Nat
            BY <1>4
        <3> HIDE DEF tp
        <3>2. w = y * (s * tp)
            BY <1>5, <1>7 DEF tp
        <3> QED BY <1>2, <1>7, <3>1, <3>2
    <2> HIDE DEF e
    <2>4. w \div s = e
        BY <1>2, <2>2, <2>3, QuotientIs
    <2> QED BY <1>1, <1>9, <2>1, <2>2, <2>3, <2>4 DEF IsLayout, InGroupsOf, w, s
<1>10. CASE l.backend = "megatron"
    <2>1. Dp(l) = w \div tp
        BY <1>10 DEF Dp, w, t, p
    <2>2. m = tp
        <3>1. s = 1
            BY <1>1, <1>10 DEF s
        <3> QED BY <1>4, <1>5, <3>1
    <2>3. tp \in Nat \ {0}
        BY <1>4
    <2> HIDE DEF tp
    <2>4. w \div tp = y
        BY <1>2, <1>7, <2>2, <2>3, QuotientIs
    <2>5. w = (y * p) * t
        BY <1>2, <1>7, <2>2 DEF tp
    <2>6. l.world = (Dp(l) * l.pp) * l.tp
        BY <2>1, <2>4, <2>5 DEF w, p, t
    <2> QED BY <1>1, <1>7, <1>8, <1>10, <2>1, <2>4, <2>6 DEF IsLayout
<1> QED BY <1>1, <1>9, <1>10

\* m rows are shared by the data parallel ranks of l, share to each.
Shares(l, m, share) ==
    /\ m = Dp(l) * share
    /\ l.backend = "fsdp" => \E c \in Nat : share = l.sp * c

LEMMA SharesAre ==
    ASSUME NEW l, IsLayout(l), NEW m \in Nat, m % l.world = 0
    PROVE  m \div Dp(l) \in Nat /\ Shares(l, m, m \div Dp(l))
<1> DEFINE w == l.world
           D == Dp(l)
           y == m \div w
<1>1. w \in Nat \ {0} /\ D \in Nat \ {0} /\ l.sp \in Nat /\ l.pp \in Nat /\ l.tp \in Nat
    BY DEF IsLayout
<1>2. y \in Nat /\ m = y * w
    BY <1>1, NoRemainder
<1>3. CASE l.backend = "fsdp"
    <2> DEFINE a == l.sp * y
    <2>1. a \in Nat
        BY <1>1, <1>2
    <2>2. w = D * l.sp
        BY <1>3 DEF IsLayout, InGroupsOf
    <2> HIDE DEF w, D, y
    <2>3. m = a * D /\ m = D * a
        BY <1>1, <1>2, <2>2
    <2> HIDE DEF a
    <2>4. m \div D = a
        BY <1>1, <2>1, <2>3, QuotientIs
    <2> QED BY <1>2, <2>1, <2>3, <2>4 DEF Shares, D, a
<1>4. CASE l.backend = "megatron"
    <2> DEFINE a == (l.pp * l.tp) * y
    <2>1. l.pp * l.tp \in Nat
        BY <1>1
    <2>2. a \in Nat
        <3> DEFINE b == l.pp * l.tp
        <3> HIDE DEF b, y
        <3> QED BY <1>2, <2>1 DEF b
    <2>3. w = (D * l.pp) * l.tp
        BY <1>4 DEF IsLayout
    <2> HIDE DEF w, D, y
    <2>4. m = a * D /\ m = D * a
        BY <1>1, <1>2, <2>3
    <2> HIDE DEF a
    <2>5. m \div D = a
        BY <1>1, <2>2, <2>4, QuotientIs
    <2> QED BY <1>4, <2>2, <2>4, <2>5 DEF Shares, D
<1> QED BY <1>3, <1>4 DEF IsLayout

\* A data parallel rank works on its block of the rows.
LEMMA LocalRowsAre ==
    ASSUME NEW l, IsLayout(l), NEW S, NEW q \in Seq(S), NEW share \in Nat,
           Shares(l, Len(q), share), NEW d \in 0..(Dp(l) - 1)
    PROVE  LocalRows(l, q, d) \in Seq(S) /\ IsBlock(LocalRows(l, q, d), q, d, share)
<1> DEFINE n == Dp(l)
           w == l.world
           s == l.sp
<1>1. n \in Nat \ {0} /\ w \in Nat \ {0} /\ s \in Nat \ {0} /\ Len(q) = n * share /\ d \in 0..(n - 1)
    BY DEF IsLayout, Shares
<1>2. CASE l.backend = "fsdp"
    <2>1. PICK c \in Nat : share = s * c
        BY <1>2 DEF Shares
    <2>2. InGroupsOf(w, n, s)
        BY <1>2 DEF IsLayout
    <2>3. LocalRows(l, q, d) = GroupRows(w, s, q, d)
        BY <1>2 DEF LocalRows, GroupRows
    <2> HIDE DEF n, w, s
    <2>4. Len(q) = w * c
        BY <1>1, <2>1, <2>2 DEF InGroupsOf
    <2>5. n \in Nat /\ w \in Nat
        BY <1>1
    <2>6. GroupRows(w, s, q, d) \in Seq(S) /\ IsBlock(GroupRows(w, s, q, d), q, d, s * c)
        BY <1>1, <2>2, <2>4, <2>5, GroupRowsAre
    <2> QED BY <2>1, <2>3, <2>6
<1>3. CASE l.backend = "megatron"
    <2>1. LocalRows(l, q, d) = Chunk(q, n, d)
        BY <1>3 DEF LocalRows
    <2> HIDE DEF n
    <2> QED BY <1>1, <2>1, ChunkIs
<1> QED BY <1>2, <1>3 DEF IsLayout

\* Where the rank r = a * tp + b of a Megatron layout is.
LEMMA MegatronRank ==
    ASSUME NEW l, IsLayout(l), NEW a \in Nat, NEW b \in 0..(l.tp - 1)
    PROVE  /\ TpRank(l, a * l.tp + b) = b
           /\ DpRank(l, a * l.tp + b) = a % Dp(l)
           /\ PpRank(l, a * l.tp + b) = a \div Dp(l)
<1> DEFINE t == l.tp
           n == Dp(l)
           r == a * t + b
           p == a \div n
           e == a % n
<1>1. t \in Nat \ {0} /\ n \in Nat \ {0} /\ b \in 0..(t - 1)
    BY DEF IsLayout
<1>2. r \div t = a /\ r % t = b
    <2> HIDE DEF t
    <2> QED BY <1>1, DivisionIs
<1>3. p \in Nat /\ e \in 0..(n - 1) /\ a = p * n + e
    <2> HIDE DEF n
    <2> QED BY <1>1, DivisionOf
<1> DEFINE u == e * t + b
           k == t * n
<1> HIDE DEF t, n, p, e
<1>4. u \in 0..(k - 1) /\ k \in Nat \ {0}
    <2>1. b + 1 \in 1..t /\ n \in Nat /\ t \in Nat
        BY <1>1
    <2>2. e * t \in Nat /\ e * t + (b + 1) \in 1..(n * t)
        BY <1>3, <2>1, InBlock
    <2>3. t * n = n * t
        BY <1>1
    <2> QED BY <1>1, <2>2, <2>3
<1>5. r = p * k + u
    BY <1>1, <1>3
<1>6. r \div k = p
    <2> HIDE DEF u, k, r
    <2> QED BY <1>3, <1>4, <1>5, DivisionIs
<1>7. TpRank(l, r) = b
    BY <1>2 DEF TpRank, t
<1>8. DpRank(l, r) = e
    BY <1>2 DEF DpRank, t, e, n
<1>9. PpRank(l, r) = p
    BY <1>6 DEF PpRank, t, n
<1> QED BY <1>7, <1>8, <1>9 DEF t, n, p, e

LEMMA CollectedIs ==
    ASSUME NEW l, IsLayout(l), NEW S, NEW share \in Nat, NEW m, Shares(l, m, share),
           NEW out \in [0..(Dp(l) - 1) -> Seq(S)], \A d \in 0..(Dp(l) - 1) : Len(out[d]) = share
    PROVE  /\ Collected(l, out) \in Seq(S) /\ Len(Collected(l, out)) = m
           /\ \A d \in 0..(Dp(l) - 1) : IsBlock(out[d], Collected(l, out), d, share)
<1> DEFINE n == Dp(l)
           w == l.world
           s == l.sp
<1>1. /\ n \in Nat \ {0} /\ w \in Nat \ {0} /\ s \in Nat \ {0} /\ m = n * share
      /\ l.tp \in Nat \ {0} /\ l.pp \in Nat \ {0}
    BY DEF IsLayout, Shares
<1>2. CASE l.backend = "fsdp"
    <2>1. PICK c \in Nat : share = s * c
        BY <1>2 DEF Shares
    <2>2. InGroupsOf(w, n, s)
        BY <1>2 DEF IsLayout
    <2>3. Collected(l, out) = Gathered(w, s, out)
        BY <1>2 DEF Collected, Gathered
    <2>4. out \in [0..(n - 1) -> Seq(S)] /\ \A d \in 0..(n - 1) : Len(out[d]) = s * c
        BY <2>1
    <2> HIDE DEF n, w, s
    <2>5. n \in Nat /\ w \in Nat
        BY <1>1
    <2>6. /\ Gathered(w, s, out) \in Seq(S) /\ Len(Gathered(w, s, out)) = n * (s * c)
          /\ \A d \in 0..(n - 1) : IsBlock(out[d], Gathered(w, s, out), d, s * c)
        BY <1>1, <2>2, <2>4, <2>5, GatheredIs
    <2> QED BY <1>1, <2>1, <2>3, <2>6 DEF n
<1>3. CASE l.backend = "megatron"
    <2> DEFINE parts == [r \in 0..(w - 1) |->
                            IF TpRank(l, r) = 0 /\ PpRank(l, r) = l.pp - 1
                            THEN out[DpRank(l, r)] ELSE <<>>]
               t == l.tp
               m0 == n * (l.pp - 1)
               C == ConcatParts(w, parts)
    <2>1. Collected(l, out) = C
        BY <1>3 DEF Collected
    <2>2. /\ m0 \in Nat /\ t \in Nat \ {0} /\ w = (m0 + n) * t
        <3> DEFINE u == l.pp
        <3>1. u \in Nat \ {0} /\ w = (n * u) * t
            BY <1>1, <1>3 DEF IsLayout
        <3>2. m0 = n * (u - 1)
            OBVIOUS
        <3> HIDE DEF n, u, m0
        <3>3. n * (u - 1) + n = n * u /\ n * (u - 1) \in Nat
            BY <1>1, <3>1
        <3> QED BY <1>1, <3>1, <3>2, <3>3
    <2>3. ASSUME NEW a \in 0..(m0 + n - 1), NEW b \in 0..(t - 1)
          PROVE  /\ a * t + b \in 0..(w - 1)
                 /\ b = 0 /\ a >= m0 => /\ parts[a * t + b] = out[a % n]
                                        /\ a % n \in 0..(n - 1) /\ a = m0 + (a % n)
                 /\ ~(b = 0 /\ a >= m0) => parts[a * t + b] = <<>>
        <3> DEFINE r == a * t + b
                   p == a \div n
                   e == a % n
        <3>1. a \in Nat /\ b + 1 \in 1..t /\ m0 + n \in Nat
            <4> HIDE DEF m0, n, t
            <4> QED BY <1>1, <2>2
        <3>2. r \in 0..(w - 1)
            <4> HIDE DEF t, m0, w, n
            <4>1. t \in Nat
                BY <2>2
            <4>2. a * t \in Nat /\ a * t + (b + 1) \in 1..((m0 + n) * t)
                <5> DEFINE k == m0 + n
                <5>1. a \in 0..(k - 1) /\ k \in Nat
                    BY <1>1, <2>2, <3>1
                <5> HIDE DEF k
                <5> QED BY <3>1, <4>1, <5>1, InBlock DEF k
            <4> QED BY <2>2, <4>2
        <3>3. TpRank(l, r) = b /\ DpRank(l, r) = e /\ PpRank(l, r) = p
            BY <3>1, MegatronRank
        <3>4. p \in Nat /\ e \in 0..(n - 1) /\ a = p * n + e
            <4> HIDE DEF n
            <4> QED BY <1>1, <3>1, DivisionOf
        <3>5. p <= l.pp - 1
            <4>1. l.pp \in Nat /\ a < l.pp * n
                <5> DEFINE u == l.pp
                <5>1. u \in Nat /\ m0 = n * (u - 1)
                    BY <1>1
                <5> HIDE DEF n, u, m0
                <5>2. n * (u - 1) + n = u * n /\ u * n \in Int
                    BY <1>1, <5>1
                <5>3. a < u * n
                    BY <1>1, <2>2, <5>1, <5>2
                <5> QED BY <5>1, <5>3 DEF u
            <4>2. p < l.pp
                <5> HIDE DEF n
                <5> QED BY <1>1, <3>1, <4>1, DivisionOf
            <4> HIDE DEF p, n
            <4> QED BY <1>1, <3>4, <4>2
        <3>6. a >= m0 <=> p = l.pp - 1
            <4> HIDE DEF n, p, e
            <4>1. p = l.pp - 1 => p * n = m0
                BY <1>1
            <4>2. p # l.pp - 1 => p * n + n <= m0
                <5> SUFFICES ASSUME p # l.pp - 1 PROVE p * n + n <= m0
                    OBVIOUS
                <5>1. p + 1 <= l.pp - 1 /\ p + 1 \in Int /\ l.pp - 1 \in Int /\ n \in Nat
                    <6> DEFINE u == l.pp
                    <6>1. u \in Nat /\ p \in Nat /\ p <= u - 1 /\ p # u - 1 /\ n \in Nat
                        BY <1>1, <3>4, <3>5
                    <6> HIDE DEF u
                    <6>2. p + 1 <= u - 1 /\ p + 1 \in Int /\ u - 1 \in Int /\ n \in Nat
                        BY <6>1
                    <6> QED BY <6>2 DEF u
                <5>2. (p + 1) * n <= (l.pp - 1) * n
                    BY <5>1, Multiples
                <5>3. (p + 1) * n = p * n + n
                    BY <5>1, <3>4
                <5>4. (l.pp - 1) * n = m0
                    BY <1>1
                <5> QED BY <5>2, <5>3, <5>4
            <4>3. p * n \in Nat
                BY <1>1, <3>4
            <4> HIDE DEF m0
            <4> QED BY <1>1, <2>2, <3>4, <4>1, <4>2, <4>3
        <3>7. p = l.pp - 1 => a = m0 + e
            <4> HIDE DEF n, p, e
            <4> QED BY <1>1, <3>4
        <3>8. parts[r] = IF TpRank(l, r) = 0 /\ PpRank(l, r) = l.pp - 1
                         THEN out[DpRank(l, r)] ELSE <<>>
            BY <3>2
        <3> HIDE DEF parts, r, n, p, m0, t
        <3> QED BY <3>2, <3>3, <3>4, <3>6, <3>7, <3>8 DEF r
    <2>4. parts \in [0..(w - 1) -> Seq(S)]
        <3> SUFFICES ASSUME NEW r \in 0..(w - 1) PROVE parts[r] \in Seq(S)
            OBVIOUS
        <3> DEFINE a == r \div t
                   b == r % t
        <3>1. a \in Nat /\ b \in 0..(t - 1) /\ r = a * t + b /\ a < m0 + n
            <4> HIDE DEF t, m0, n, w
            <4>1. r \in Nat /\ m0 + n \in Nat /\ r < (m0 + n) * t
                BY <1>1, <2>2
            <4> QED BY <2>2, <4>1, DivisionOf
        <3> HIDE DEF a, b, parts, m0, n
        <3>2. a \in 0..(m0 + n - 1)
            BY <1>1, <2>2, <3>1
        <3>3. <<>> \in Seq(S)
            OBVIOUS
        <3>4. CASE b = 0 /\ a >= m0
            BY <2>3, <3>1, <3>2, <3>4 DEF n
        <3>5. CASE ~(b = 0 /\ a >= m0)
            BY <2>3, <3>1, <3>2, <3>3, <3>5
        <3> QED BY <3>4, <3>5
    <2>5. Sparse(parts, t, m0, n, share)
        <3> SUFFICES ASSUME NEW a \in 0..(m0 + n - 1), NEW b \in 0..(t - 1)
                     PROVE  Len(parts[a * t + b]) = IF b = 0 /\ a >= m0 THEN share ELSE 0
            BY DEF Sparse
        <3>1. Len(<<>>) = 0
            OBVIOUS
        <3> HIDE DEF parts, m0, t
        <3>2. \A d \in 0..(n - 1) : Len(out[d]) = share
            OBVIOUS
        <3> HIDE DEF n
        <3> QED BY <2>3, <3>1, <3>2
    <2> HIDE DEF parts
    <2>6. C \in Seq(S) /\ Len(C) = n * share /\ HoldsHeads(C, parts, t, m0, n, share)
        <3> HIDE DEF n, w, t, m0
        <3>1. n \in Nat /\ w \in Nat
            BY <1>1
        <3>2. InGroupsOf(w, m0 + n, t)
            BY <2>2 DEF InGroupsOf
        <3>3. share \in Nat /\ t \in Nat \ {0} /\ m0 \in Nat
            BY <2>2
        <3>4. /\ ConcatParts(w, parts) \in Seq(S) /\ Len(ConcatParts(w, parts)) = n * share
              /\ HoldsHeads(ConcatParts(w, parts), parts, t, m0, n, share)
            BY <2>4, <2>5, <3>1, <3>2, <3>3, SparseConcat, Zenon
        <3> QED BY <3>4
    <2>7. ASSUME NEW d \in 0..(n - 1) PROVE IsBlock(out[d], C, d, share)
        <3> DEFINE a == m0 + d
        <3>1. a \in 0..(m0 + n - 1) /\ 0 \in 0..(t - 1) /\ a >= m0
            <4> HIDE DEF m0, n, t
            <4> QED BY <1>1, <2>2
        <3>2. /\ parts[a * t + 0] = out[a % n] /\ a = m0 + (a % n)
              /\ a % n \in 0..(n - 1)
            <4> HIDE DEF m0, n, t, a
            <4> QED BY <2>3, <3>1
        <3>3. a % n = d
            <4> DEFINE e == a % n
            <4>1. e \in Int /\ d \in Int /\ m0 \in Int /\ m0 + d = m0 + e
                BY <2>2, <3>2
            <4> HIDE DEF e, m0
            <4>2. e = d
                BY <4>1
            <4> QED BY <4>2 DEF e
        <3>4. a * t + 0 = (m0 + d) * t
            <4> HIDE DEF m0, t, n
            <4>1. a * t \in Int
                BY <2>2
            <4> QED BY <4>1
        <3>5. parts[(m0 + d) * t] = out[d]
            <4> HIDE DEF m0, t, n
            <4> QED BY <3>2, <3>3, <3>4
        <3>6. \A j \in 1..share : C[d * share + j] = parts[(m0 + d) * t][j]
            BY <2>6 DEF HoldsHeads
        <3>7. Len(out[d]) = share
            OBVIOUS
        <3> HIDE DEF C, m0, t, n
        <3> QED BY <3>5, <3>6, <3>7 DEF IsBlock
    <2> QED BY <1>1, <2>1, <2>6, <2>7
<1> QED BY <1>2, <1>3 DEF IsLayout

-------------------------------------------------------------------------------
(* Generation *)

\* Each of the answers to 1..p has n elements of A.
AnswersAre(answers, p, A, n) ==
    answers \in [1..p -> Seq(A)] /\ \A i \in 1..p : Len(answers[i]) = n

\* g has the answers to the elements of q, in their order.
Answered(g, q, answers, n) == \A i \in 1..Len(q) : IsBlock(answers[q[i]], g, i - 1, n)

SaidTo(answers, q) == FlattenSeq([i \in DOMAIN q |-> answers[q[i]]])

LEMMA SaidToIs ==
    ASSUME NEW p \in Nat, NEW q \in Seq(1..p), NEW A, NEW n \in Nat, NEW answers,
           AnswersAre(answers, p, A, n)
    PROVE  /\ SaidTo(answers, q) \in Seq(A) /\ Len(SaidTo(answers, q)) = Len(q) * n
           /\ Answered(SaidTo(answers, q), q, answers, n)
<1> DEFINE k == Len(q)
           parts == [i \in 0..(k - 1) |-> answers[q[i + 1]]]
           C == ConcatParts(k, parts)
<1>1. /\ k \in Nat /\ DOMAIN q = 1..k
      /\ \A i \in 1..k : q[i] \in 1..p
    OBVIOUS
<1>2. \A i \in 1..k : answers[q[i]] \in Seq(A) /\ Len(answers[q[i]]) = n
    BY <1>1 DEF AnswersAre
<1> HIDE DEF k
<1>3. \A i \in 0..(k - 1) : i + 1 \in 1..k
    BY <1>1
<1>4. parts \in [0..(k - 1) -> Seq(A)]
    BY <1>2, <1>3
<1>5. \A i \in 0..(k - 1) : Len(parts[i]) = n
    BY <1>2, <1>3
<1>6. SaidTo(answers, q) = C
    <2>1. \A i \in 1..k : parts[i - 1] = answers[q[i]]
        BY <1>1
    <2>2. [i \in 1..k |-> parts[i - 1]] = [i \in DOMAIN q |-> answers[q[i]]]
        <3> HIDE DEF parts
        <3> QED BY <1>1, <2>1
    <2> QED BY <2>2 DEF SaidTo, ConcatParts
<1>7. \A i \in 1..k : i - 1 \in 0..(k - 1) /\ parts[i - 1] = answers[q[i]]
    BY <1>1
<1> HIDE DEF parts
<1>8. /\ ConcatParts(k, parts) \in Seq(A) /\ Len(ConcatParts(k, parts)) = k * n
      /\ \A i \in 0..(k - 1) : IsBlock(parts[i], ConcatParts(k, parts), i, n)
    BY <1>1, <1>4, <1>5, EvenConcat
<1> HIDE DEF C
<1>9. Answered(C, q, answers, n)
    BY <1>7, <1>8 DEF Answered, C, k
<1> QED BY <1>6, <1>8, <1>9 DEF C, k

\* If t is a block of q and what is said to t the same block of g, then g has the
\* answers to that block of q.
LEMMA BlockIsAnswered ==
    ASSUME NEW n \in Nat, NEW m \in Nat, NEW d \in Nat, NEW q, NEW t, NEW s, NEW g, NEW answers,
           IsBlock(t, q, d, m), Answered(s, t, answers, n), IsBlock(s, g, d, m * n)
    PROVE  \A x \in 1..m : IsBlock(answers[q[d * m + x]], g, d * m + x - 1, n)
<1> SUFFICES ASSUME NEW x \in 1..m PROVE IsBlock(answers[q[d * m + x]], g, d * m + x - 1, n)
    OBVIOUS
<1>1. t[x] = q[d * m + x] /\ Len(t) = m
    BY DEF IsBlock
<1>2. IsBlock(answers[t[x]], s, x - 1, n)
    BY <1>1 DEF Answered
<1>3. ASSUME NEW k \in 1..n PROVE answers[t[x]][k] = g[(d * m + x - 1) * n + k]
    <2>1. answers[t[x]][k] = s[(x - 1) * n + k]
        BY <1>2 DEF IsBlock
    <2>2. (x - 1) * n + k \in 1..(m * n)
        <3>1. x - 1 \in 0..(m - 1)
            OBVIOUS
        <3> QED BY <3>1, InBlock
    <2> DEFINE y == (x - 1) * n + k
    <2>3. s[y] = g[d * (m * n) + y]
        BY <2>2 DEF IsBlock
    <2>4. d * (m * n) + y = (d * m + x - 1) * n + k
        OBVIOUS
    <2> HIDE DEF y
    <2>5. s[y] = g[(d * m + x - 1) * n + k]
        BY <2>3, <2>4
    <2> QED BY <2>1, <2>5 DEF y
<1>4. Len(answers[t[x]]) = n
    BY <1>2 DEF IsBlock
<1> QED BY <1>1, <1>3, <1>4 DEF IsBlock

\* The same for all blocks: g has the answers to q.
LEMMA BlocksAreAnswered ==
    ASSUME NEW n \in Nat, NEW m \in Nat, NEW k \in Nat, NEW q, Len(q) = k * m, NEW g, NEW answers,
           NEW t, NEW s,
           \A d \in 0..(k - 1) : IsBlock(t[d], q, d, m) /\ Answered(s[d], t[d], answers, n)
                                     /\ IsBlock(s[d], g, d, m * n)
    PROVE  Answered(g, q, answers, n)
<1> SUFFICES ASSUME NEW i \in 1..(k * m) PROVE IsBlock(answers[q[i]], g, i - 1, n)
    BY DEF Answered
<1>1. InSomeBlock(i, k, m)
    BY Blocks, Zenon
<1>2. PICK d \in 0..(k - 1), x \in 1..m : i = d * m + x
    BY <1>1, Zenon DEF InSomeBlock
<1>3. d \in Nat
    OBVIOUS
<1>4. \A y \in 1..m : IsBlock(answers[q[d * m + y]], g, d * m + y - 1, n)
    BY <1>3, BlockIsAnswered
<1>5. IsBlock(answers[q[d * m + x]], g, d * m + x - 1, n)
    BY <1>4
<1> QED BY <1>2, <1>5

\* The configuration of the engine that WorkersStart accepts.
EngineFits(l) == l.backend = "megatron" => l.infer <= l.tp /\ l.tp % l.infer = 0

\* Where Megatron's dispatch and collection agree on the order.
KeepsOrder(l) == l.backend = "megatron" => l.pp = 1 \/ Dp(l) = 1

LEMMA FsdpGenerations ==
    ASSUME NEW l, IsLayout(l), l.backend = "fsdp", NEW p \in Nat, NEW q \in Seq(1..p),
           Len(q) % l.world = 0, NEW A, NEW n \in Nat, NEW answers, AnswersAre(answers, p, A, n)
    PROVE  /\ Generations(l, q, answers) \in Seq(A)
           /\ Len(Generations(l, q, answers)) = Len(q) * n
           /\ Answered(Generations(l, q, answers), q, answers, n)
<1> DEFINE w == l.world
           s == l.infer
           k == w \div s
           c == Len(q) \div w
           m == s * c
           rows_(e) == GroupRows(w, s, q, e)
           out == [e \in 0..(k - 1) |-> SaidTo(answers, rows_(e))]
           G == Gathered(w, s, out)
<1>1. w \in Nat \ {0} /\ s \in Nat \ {0} /\ w % s = 0 /\ Len(q) \in Nat
    BY DEF IsLayout
<1>2. k \in Nat /\ w = k * s /\ InGroupsOf(w, k, s)
    <2> HIDE DEF w, s
    <2> QED BY <1>1, NoRemainder DEF InGroupsOf
<1>3. c \in Nat /\ Len(q) = w * c
    <2>1. c \in Nat /\ Len(q) = c * w
        <3> HIDE DEF w
        <3> QED BY <1>1, NoRemainder DEF w
    <2> HIDE DEF w, c
    <2> QED BY <1>1, <2>1
<1>4. Generations(l, q, answers) = G
    <2>1. \A r \in 0..(w - 1) : r \div s \in 0..(k - 1)
        <3> TAKE r \in 0..(w - 1)
        <3> HIDE DEF w, s, k
        <3>1. r \in Nat /\ r < k * s
            BY <1>1, <1>2
        <3>2. r \div s \in Nat /\ r \div s < k
            BY <1>1, <1>2, <3>1, DivisionOf
        <3> QED BY <1>2, <3>2
    <2>2. \A r \in 0..(w - 1) : EnginePrompts(l, q, r) = rows_(r \div s)
        BY DEF EnginePrompts, PromptsOfRank, GroupRows
    <2>3. \A r \in 0..(w - 1) :
              out[r \div s] = FlattenSeq([i \in DOMAIN EnginePrompts(l, q, r) |->
                                             answers[EnginePrompts(l, q, r)[i]]])
        <3> HIDE DEF w, s, k, rows_
        <3> QED BY <2>1, <2>2 DEF SaidTo
    <2> HIDE DEF out
    <2>4. [r \in 0..(w - 1) |-> Chunk(out[r \div s], s, r % s)]
              = [r \in 0..(w - 1) |->
                    Chunk(FlattenSeq([i \in DOMAIN EnginePrompts(l, q, r) |->
                                         answers[EnginePrompts(l, q, r)[i]]]), s, r % s)]
        BY <2>3
    <2> QED BY <2>4 DEF Generations, Gathered
<1> HIDE DEF w, s, k, c
<1>5. m \in Nat
    BY <1>1, <1>3
<1>6. \A e \in 0..(k - 1) : /\ rows_(e) \in Seq(1..p) /\ IsBlock(rows_(e), q, e, m)
    <2> TAKE e \in 0..(k - 1)
    <2>1. w \in Nat
        BY <1>1
    <2> QED BY <1>1, <1>2, <1>3, <2>1, GroupRowsAre
<1> HIDE DEF rows_, m
<1>7. \A e \in 0..(k - 1) : /\ out[e] \in Seq(A) /\ Len(out[e]) = m * n
                            /\ Answered(out[e], rows_(e), answers, n)
    <2> TAKE e \in 0..(k - 1)
    <2>1. rows_(e) \in Seq(1..p) /\ Len(rows_(e)) = m
        BY <1>6 DEF IsBlock
    <2>2. out[e] = SaidTo(answers, rows_(e))
        OBVIOUS
    <2> DEFINE t == rows_(e)
    <2> HIDE DEF out, t
    <2>3. t \in Seq(1..p)
        BY <2>1 DEF t
    <2>4. /\ SaidTo(answers, t) \in Seq(A) /\ Len(SaidTo(answers, t)) = Len(t) * n
          /\ Answered(SaidTo(answers, t), t, answers, n)
        BY <2>3, SaidToIs, Zenon
    <2> QED BY <2>1, <2>2, <2>4 DEF t
<1>8. out \in [0..(k - 1) -> Seq(A)]
    BY <1>7
<1> HIDE DEF out
<1> DEFINE cn == c * n
<1>9. cn \in Nat /\ m * n = s * cn
    BY <1>1, <1>3 DEF m
<1> HIDE DEF cn
<1>10. \A d \in 0..(k - 1) : Len(out[d]) = s * cn
    BY <1>7, <1>9
<1>11. w \in Nat /\ k \in Nat /\ s \in Nat \ {0} /\ InGroupsOf(w, k, s)
    BY <1>1, <1>2
<1>12. /\ Gathered(w, s, out) \in Seq(A) /\ Len(Gathered(w, s, out)) = k * (s * cn)
       /\ \A d \in 0..(k - 1) : IsBlock(out[d], Gathered(w, s, out), d, s * cn)
    <2>1. cn \in Nat
        BY <1>9
    <2> QED BY <1>8, <1>10, <1>11, <2>1, GatheredIs, Zenon
<1>13. G \in Seq(A) /\ Len(G) = k * (m * n) /\ \A d \in 0..(k - 1) : IsBlock(out[d], G, d, m * n)
    BY <1>9, <1>12
<1> HIDE DEF G
<1>14. Len(q) = k * m /\ k * (m * n) = Len(q) * n
    <2>1. Len(q) = k * m
        BY <1>1, <1>2, <1>3 DEF m
    <2> QED BY <1>2, <1>5, <2>1
<1>15. Answered(G, q, answers, n)
    <2> DEFINE t == [d \in 0..(k - 1) |-> rows_(d)]
    <2>1. \A d \in 0..(k - 1) : IsBlock(t[d], q, d, m) /\ Answered(out[d], t[d], answers, n)
                                     /\ IsBlock(out[d], G, d, m * n)
        BY <1>6, <1>7, <1>13
    <2> HIDE DEF t
    <2> QED BY <1>2, <1>5, <1>14, <2>1, BlocksAreAnswered
<1> QED BY <1>4, <1>13, <1>14, <1>15

\* A training tensor group's engines answer a piece of its prompts t each.
Whole(t, k, answers) == ConcatParts(k, [i \in 0..(k - 1) |-> SaidTo(answers, Chunk(t, k, i))])

LEMMA WholeIs ==
    ASSUME NEW p \in Nat, NEW k \in Nat \ {0}, NEW c \in Nat, NEW t \in Seq(1..p), Len(t) = k * c,
           NEW A, NEW n \in Nat, NEW answers, AnswersAre(answers, p, A, n)
    PROVE  /\ Whole(t, k, answers) \in Seq(A) /\ Len(Whole(t, k, answers)) = k * (c * n)
           /\ Answered(Whole(t, k, answers), t, answers, n)
<1> DEFINE piece == [i \in 0..(k - 1) |-> Chunk(t, k, i)]
           said == [i \in 0..(k - 1) |-> SaidTo(answers, Chunk(t, k, i))]
           C == ConcatParts(k, said)
           cn == c * n
<1>1. \A i \in 0..(k - 1) : piece[i] \in Seq(1..p) /\ IsBlock(piece[i], t, i, c)
    BY ChunkIs
<1>2. \A i \in 0..(k - 1) : said[i] = SaidTo(answers, piece[i])
    OBVIOUS
<1> HIDE DEF piece
<1>3. ASSUME NEW i \in 0..(k - 1)
      PROVE  /\ said[i] \in Seq(A) /\ Len(said[i]) = cn
             /\ Answered(said[i], piece[i], answers, n)
    <2> DEFINE u == piece[i]
    <2>1. u \in Seq(1..p) /\ Len(u) = c /\ said[i] = SaidTo(answers, u)
        BY <1>1, <1>2 DEF IsBlock
    <2> HIDE DEF u, said
    <2>2. /\ SaidTo(answers, u) \in Seq(A) /\ Len(SaidTo(answers, u)) = Len(u) * n
          /\ Answered(SaidTo(answers, u), u, answers, n)
        BY <2>1, SaidToIs, Zenon
    <2> QED BY <2>1, <2>2 DEF u
<1>4. said \in [0..(k - 1) -> Seq(A)]
    BY <1>3
<1>5. cn \in Nat /\ k \in Nat
    OBVIOUS
<1> HIDE DEF said, cn
<1>6. /\ ConcatParts(k, said) \in Seq(A) /\ Len(ConcatParts(k, said)) = k * cn
      /\ \A i \in 0..(k - 1) : IsBlock(said[i], ConcatParts(k, said), i, cn)
    BY <1>3, <1>4, <1>5, EvenConcat
<1> HIDE DEF C
<1>7. Answered(C, t, answers, n)
    <2>1. \A i \in 0..(k - 1) : IsBlock(piece[i], t, i, c) /\ Answered(said[i], piece[i], answers, n)
                                     /\ IsBlock(said[i], C, i, c * n)
        BY <1>1, <1>3, <1>6 DEF C, cn
    <2> QED BY <1>5, <2>1, BlocksAreAnswered
<1>8. Whole(t, k, answers) = C
    BY DEF Whole, C, said
<1> QED BY <1>6, <1>7, <1>8 DEF C, cn

\* The prompts that dispatch_megatron_pp_as_dp gives to the a-th tensor group.
ArgOf(l, a) == (a % Dp(l)) * l.pp + (a \div Dp(l))

LEMMA ArgOfIs ==
    ASSUME NEW l, IsLayout(l), NEW a \in 0..(Dp(l) * l.pp - 1)
    PROVE  /\ ArgOf(l, a) \in 0..(Dp(l) * l.pp - 1)
           /\ l.pp = 1 \/ Dp(l) = 1 => ArgOf(l, a) = a
<1> DEFINE D == Dp(l)
           u == l.pp
           e == a % D
           f == a \div D
<1>1. D \in Nat \ {0} /\ u \in Nat \ {0} /\ a \in 0..(D * u - 1) /\ ArgOf(l, a) = e * u + f
    BY DEF IsLayout, ArgOf
<1> HIDE DEF D, u
<1>2. D * u \in Nat /\ D * u = u * D /\ a \in Nat /\ a < D * u
    BY <1>1
<1>3. /\ f \in Nat /\ e \in 0..(D - 1) /\ a = f * D + e /\ f < u
    BY <1>1, <1>2, DivisionOf
<1> HIDE DEF e, f
<1>4. f + 1 \in 1..u /\ D \in Nat /\ u \in Nat
    BY <1>1, <1>3
<1>5. e * u \in Nat /\ e * u + (f + 1) \in 1..(D * u)
    BY <1>3, <1>4, InBlock
<1>6. e * u + f \in 0..(D * u - 1)
    BY <1>2, <1>3, <1>5
<1>7. u = 1 => e * u + f = a
    <2> SUFFICES ASSUME u = 1 PROVE e * u + f = a
        OBVIOUS
    <2>1. f = 0 /\ e * u = e /\ f * D = 0
        BY <1>1, <1>3
    <2> QED BY <1>3, <2>1
<1>8. D = 1 => e * u + f = a
    <2> SUFFICES ASSUME D = 1 PROVE e * u + f = a
        OBVIOUS
    <2>1. e = 0 /\ f * D = f /\ e * u = 0
        BY <1>1, <1>3
    <2> QED BY <1>3, <2>1
<1> QED BY <1>1, <1>6, <1>7, <1>8 DEF D, u

LEMMA MegatronGenerations ==
    ASSUME NEW l, IsLayout(l), l.backend = "megatron", EngineFits(l),
           NEW p \in Nat, NEW q \in Seq(1..p), Len(q) % PromptsDivisor(l) = 0,
           NEW A, NEW n \in Nat, NEW answers, AnswersAre(answers, p, A, n)
    PROVE  /\ Generations(l, q, answers) \in Seq(A)
           /\ Len(Generations(l, q, answers)) = Len(q) * n
           /\ KeepsOrder(l) => Answered(Generations(l, q, answers), q, answers, n)
<1> DEFINE w == l.world
           N == Dp(l) * l.pp
           t == l.tp
           k == MicroDp(l)
           c == Len(q) \div (N * k)
           m == k * c
           PR(a) == Chunk(q, N, ArgOf(l, a))
           parts == [r \in 0..(w - 1) |-> IF TpRank(l, r) = 0 THEN Whole(PR(r \div t), k, answers)
                                          ELSE <<>>]
           G == ConcatParts(w, parts)
<1>1. /\ w \in Nat /\ t \in Nat \ {0} /\ l.infer \in Nat \ {0} /\ w = N * t
      /\ Dp(l) \in Nat \ {0} /\ l.pp \in Nat \ {0} /\ l.infer <= t /\ t % l.infer = 0
    BY DEF IsLayout, EngineFits
<1>2. N \in Nat \ {0}
    <2> DEFINE D == Dp(l)
               u == l.pp
    <2> HIDE DEF D, u
    <2>1. D \in Nat \ {0} /\ u \in Nat \ {0} /\ N = D * u
        BY <1>1 DEF D, u
    <2>2. D * u \in Nat /\ D * u # 0
        BY <2>1
    <2> QED BY <2>1, <2>2
<1>3. k \in Nat \ {0} /\ t = k * l.infer /\ k <= t
    <2> DEFINE u == l.infer
    <2>1. t \in Nat \ {0} /\ u \in Nat \ {0} /\ t % u = 0 /\ k = t \div u
        BY <1>1 DEF MicroDp
    <2> HIDE DEF k, t, u
    <2>2. k \in Nat /\ t = k * u
        BY <2>1, NoRemainder
    <2>3. k \in Nat /\ u - 1 \in Nat /\ k * (u - 1) \in Nat
        <3>1. k \in Nat /\ u - 1 \in Nat
            BY <2>1, <2>2
        <3> QED BY <3>1
    <2>4. k * u = k + k * (u - 1)
        <3>1. k \in Int /\ u \in Int
            BY <2>1, <2>2
        <3> QED BY <3>1
    <2>5. k # 0
        <3> SUFFICES ASSUME k = 0 PROVE FALSE
            OBVIOUS
        <3>1. k * u = 0
            BY <2>1
        <3> QED BY <2>1, <2>2, <3>1
    <2> QED BY <2>1, <2>2, <2>3, <2>4, <2>5 DEF u
<1>4. c \in Nat /\ Len(q) = N * m /\ m \in Nat
    <2> HIDE DEF N, k, m
    <2>1. N * k \in Nat /\ N * k # 0
        BY <1>2, <1>3
    <2>2. PromptsDivisor(l) = N * k
        BY DEF PromptsDivisor, N, k
    <2> DEFINE b == N * k
    <2>3. Len(q) \in Nat
        OBVIOUS
    <2>4. b \in Nat \ {0} /\ Len(q) % b = 0
        BY <2>1, <2>2
    <2> HIDE DEF b
    <2>5. (Len(q) \div b) \in Nat /\ Len(q) = (Len(q) \div b) * b
        BY <2>3, <2>4, NoRemainder
    <2>6. c \in Nat /\ Len(q) = c * b
        BY <2>5 DEF b
    <2> HIDE DEF c
    <2> QED BY <1>2, <1>3, <2>6 DEF b, m
<1>5. \A r \in 0..(w - 1) : /\ r \div t \in 0..(N - 1) /\ r % t \in 0..(t - 1)
                            /\ r = (r \div t) * t + (r % t)
    <2> TAKE r \in 0..(w - 1)
    <2> HIDE DEF N, t, w
    <2>1. r \in Nat /\ r < N * t
        BY <1>1
    <2> DEFINE a == r \div t
    <2>2. a \in Nat /\ a < N /\ r % t \in 0..(t - 1) /\ r = a * t + (r % t)
        BY <1>1, <1>2, <2>1, DivisionOf
    <2> HIDE DEF a
    <2>3. a \in 0..(N - 1)
        BY <1>2, <2>2
    <2> QED BY <2>2, <2>3 DEF a
<1> HIDE DEF c, m
<1>6. ASSUME NEW a \in 0..(N - 1)
      PROVE  PR(a) \in Seq(1..p) /\ IsBlock(PR(a), q, ArgOf(l, a), m)
    <2>1. ArgOf(l, a) \in 0..(N - 1)
        BY ArgOfIs
    <2> HIDE DEF N
    <2> QED BY <1>2, <1>4, <2>1, ChunkIs
<1>7. ASSUME NEW r \in 0..(w - 1), TpRank(l, r) = 0, NEW i \in 0..(k - 1)
      PROVE  EnginePrompts(l, q, (r \div k) * k + i) = Chunk(PR(r \div t), k, i)
    <2> DEFINE a == r \div t
    <2>1. a \in 0..(N - 1) /\ a \in Nat /\ r = a * t
        <3>1. r % t = 0
            BY <1>7 DEF TpRank
        <3>2. a \in 0..(N - 1) /\ r = a * t + 0
            BY <1>5, <3>1
        <3> HIDE DEF a, t, N
        <3>3. a \in Nat
            BY <3>2
        <3>4. a * t \in Int
            BY <1>1, <3>3
        <3> QED BY <3>2, <3>3, <3>4
    <2> HIDE DEF a
    <2>2. (r \div k) * k = r
        <3> DEFINE u == l.infer
                   b == a * u
        <3>1. a \in Nat /\ u \in Nat /\ k \in Nat /\ t = k * u /\ r = a * t
            BY <1>1, <1>3, <2>1
        <3> HIDE DEF k, t, u
        <3>2. b \in Nat /\ r = b * k
            BY <3>1
        <3> HIDE DEF b
        <3>3. r \div k = b
            BY <1>3, <3>2, NoneRemains
        <3> QED BY <3>2, <3>3
    <2>3. i \in Nat /\ i \in 0..(t - 1)
        <3>1. k \in Nat /\ t \in Nat /\ k <= t
            BY <1>1, <1>3
        <3> HIDE DEF k, t
        <3> QED BY <3>1
    <2>4. DpRank(l, a * t + i) = a % Dp(l) /\ PpRank(l, a * t + i) = a \div Dp(l)
        BY <2>1, <2>3, MegatronRank
    <2>5. ArgRank(l, r + i) = ArgOf(l, a)
        BY <2>1, <2>4 DEF ArgRank, ArgOf
    <2>6. (r + i) % k = i
        <3> DEFINE u == l.infer
                   b == a * u
        <3>1. a \in Nat /\ u \in Nat /\ k \in Nat /\ t = k * u /\ r = a * t
            BY <1>1, <1>3, <2>1
        <3> HIDE DEF k, t, u
        <3>2. b \in Nat /\ r = b * k
            BY <3>1
        <3> HIDE DEF b
        <3>3. (b * k + i) % k = i
            BY <1>3, <3>2, DivisionIs
        <3> QED BY <3>2, <3>3
    <2>7. EnginePrompts(l, q, r + i) = Chunk(PromptsOfRank(l, q, r + i), k, (r + i) % k)
        BY DEF EnginePrompts
    <2>8. PromptsOfRank(l, q, r + i) = Chunk(q, N, ArgRank(l, r + i))
        BY DEF PromptsOfRank
    <2> QED BY <2>2, <2>5, <2>6, <2>7, <2>8 DEF a
<1>8. Generations(l, q, answers) = G
    <2> DEFINE Base(r) == (r \div k) * k
               SaidBy(r) == SaidTo(answers, EnginePrompts(l, q, r))
               Now(r) == ConcatParts(k, [i \in 0..(k - 1) |-> SaidBy(Base(r) + i)])
    <2>1. \A r : SaidBy(r) = LET mine == EnginePrompts(l, q, r)
                             IN  FlattenSeq([i \in DOMAIN mine |-> answers[mine[i]]])
        BY DEF SaidTo
    <2>2. Generations(l, q, answers)
              = ConcatParts(w, [r \in 0..(w - 1) |-> IF TpRank(l, r) = 0 THEN Now(r) ELSE <<>>])
        BY <2>1 DEF Generations
    <2>3. \A r \in 0..(w - 1) : TpRank(l, r) = 0 => Now(r) = Whole(PR(r \div t), k, answers)
        <3> SUFFICES ASSUME NEW r \in 0..(w - 1), TpRank(l, r) = 0
                     PROVE  Now(r) = Whole(PR(r \div t), k, answers)
            OBVIOUS
        <3>1. \A i \in 0..(k - 1) : EnginePrompts(l, q, Base(r) + i) = Chunk(PR(r \div t), k, i)
            BY <1>7
        <3> HIDE DEF Base, PR
        <3>2. [i \in 0..(k - 1) |-> SaidBy(Base(r) + i)]
                  = [i \in 0..(k - 1) |-> SaidTo(answers, Chunk(PR(r \div t), k, i))]
            BY <3>1
        <3> QED BY <3>2 DEF Whole
    <2> HIDE DEF Now
    <2>4. [r \in 0..(w - 1) |-> IF TpRank(l, r) = 0 THEN Now(r) ELSE <<>>] = parts
        BY <2>3
    <2> QED BY <2>2, <2>4
<1>9. \A a \in 0..(N - 1) : /\ Whole(PR(a), k, answers) \in Seq(A)
                            /\ Len(Whole(PR(a), k, answers)) = m * n
                            /\ Answered(Whole(PR(a), k, answers), PR(a), answers, n)
    <2> TAKE a \in 0..(N - 1)
    <2> DEFINE u == PR(a)
    <2>1. u \in Seq(1..p) /\ Len(u) = k * c
        BY <1>6 DEF IsBlock, m
    <2> HIDE DEF u, k
    <2>2. /\ Whole(u, k, answers) \in Seq(A) /\ Len(Whole(u, k, answers)) = k * (c * n)
          /\ Answered(Whole(u, k, answers), u, answers, n)
        BY <1>3, <1>4, <2>1, WholeIs, Zenon
    <2>3. k * (c * n) = m * n
        BY <1>3, <1>4 DEF m
    <2> QED BY <2>2, <2>3 DEF u
<1> HIDE DEF PR
<1>10. ASSUME NEW a \in 0..(N - 1), NEW b \in 0..(t - 1)
       PROVE  /\ a * t + b \in 0..(w - 1)
              /\ b = 0 => parts[a * t + b] = Whole(PR(a), k, answers)
              /\ b # 0 => parts[a * t + b] = <<>>
    <2>1. b + 1 \in 1..t /\ a \in Nat
        <3> HIDE DEF N, t
        <3> QED BY <1>1, <1>2
    <2>2. a * t + b \in 0..(w - 1)
        <3> HIDE DEF N, t, w
        <3>1. t \in Nat /\ N \in Nat
            BY <1>1, <1>2
        <3>2. a * t \in Nat /\ a * t + (b + 1) \in 1..(N * t)
            BY <2>1, <3>1, InBlock
        <3> QED BY <1>1, <3>2
    <2>3. TpRank(l, a * t + b) = b
        BY <2>1, MegatronRank
    <2>4. (a * t + b) \div t = a
        <3> HIDE DEF t
        <3> QED BY <1>1, <2>1, DivisionIs
    <2> DEFINE r == a * t + b
    <2>5. parts[r] = IF TpRank(l, r) = 0 THEN Whole(PR(r \div t), k, answers) ELSE <<>>
        BY <2>2
    <2> HIDE DEF parts, r
    <2>6. parts[r] = IF b = 0 THEN Whole(PR(a), k, answers) ELSE <<>>
        BY <2>3, <2>4, <2>5 DEF r
    <2> QED BY <2>2, <2>6 DEF r
<1>11. parts \in [0..(w - 1) -> Seq(A)]
    <2> SUFFICES ASSUME NEW r \in 0..(w - 1) PROVE parts[r] \in Seq(A)
        OBVIOUS
    <2>1. r \div t \in 0..(N - 1)
        BY <1>5
    <2>2. <<>> \in Seq(A)
        OBVIOUS
    <2>3. Whole(PR(r \div t), k, answers) \in Seq(A)
        BY <1>9, <2>1
    <2>4. CASE TpRank(l, r) = 0
        BY <2>3, <2>4
    <2>5. CASE TpRank(l, r) # 0
        BY <2>2, <2>5
    <2> QED BY <2>4, <2>5
<1> HIDE DEF parts
<1> DEFINE mn == m * n
<1>12. mn \in Nat
    BY <1>4
<1>13. Sparse(parts, t, 0, N, mn)
    <2> SUFFICES ASSUME NEW a \in 0..(0 + N - 1), NEW b \in 0..(t - 1)
                 PROVE  Len(parts[a * t + b]) = IF b = 0 /\ a >= 0 THEN mn ELSE 0
        BY DEF Sparse
    <2> HIDE DEF N, t, w
    <2>1. a \in 0..(N - 1) /\ a >= 0 /\ Len(<<>>) = 0
        BY <1>2
    <2>2. b = 0 => Len(parts[a * t + b]) = mn
        BY <1>9, <1>10, <2>1
    <2>3. b # 0 => Len(parts[a * t + b]) = 0
        BY <1>10, <2>1
    <2> QED BY <2>1, <2>2, <2>3
<1> HIDE DEF mn
<1>14. G \in Seq(A) /\ Len(G) = N * mn /\ HoldsHeads(G, parts, t, 0, N, mn)
    <2> HIDE DEF N, t, w
    <2> DEFINE z == 0
    <2>1. InGroupsOf(w, z + N, t) /\ N \in Nat /\ z \in Nat /\ w \in Nat /\ t \in Nat \ {0}
        BY <1>1, <1>2 DEF InGroupsOf
    <2>2. Sparse(parts, t, z, N, mn)
        BY <1>13
    <2> HIDE DEF z
    <2>3. /\ ConcatParts(w, parts) \in Seq(A) /\ Len(ConcatParts(w, parts)) = N * mn
          /\ HoldsHeads(ConcatParts(w, parts), parts, t, z, N, mn)
        BY <1>11, <1>12, <2>1, <2>2, SparseConcat, Zenon
    <2> QED BY <2>3 DEF z
<1> HIDE DEF G
<1>15. Len(G) = Len(q) * n
    <2> HIDE DEF N
    <2>1. N * mn = (N * m) * n
        BY <1>2, <1>4 DEF mn
    <2> QED BY <1>4, <1>14, <2>1
<1>16. KeepsOrder(l) => Answered(G, q, answers, n)
    <2> SUFFICES ASSUME KeepsOrder(l) PROVE Answered(G, q, answers, n)
        OBVIOUS
    <2> DEFINE ts == [d \in 0..(N - 1) |-> PR(d)]
               ss == [d \in 0..(N - 1) |-> Whole(PR(d), k, answers)]
    <2>1. ASSUME NEW d \in 0..(N - 1)
          PROVE  /\ IsBlock(ts[d], q, d, m) /\ Answered(ss[d], ts[d], answers, n)
                 /\ IsBlock(ss[d], G, d, m * n)
        <3>1. ArgOf(l, d) = d
            BY ArgOfIs DEF KeepsOrder
        <3>2. IsBlock(PR(d), q, d, m)
            BY <1>6, <3>1 DEF PR
        <3>3. Answered(ss[d], ts[d], answers, n)
            BY <1>9
        <3>4. IsBlock(ss[d], G, d, mn)
            <4>1. \A j \in 1..mn : G[d * mn + j] = parts[(0 + d) * t][j]
                BY <1>14 DEF HoldsHeads
            <4>2. parts[(0 + d) * t] = Whole(PR(d), k, answers)
                <5>1. 0 \in 0..(t - 1)
                    BY <1>1
                <5>2. parts[d * t + 0] = Whole(PR(d), k, answers)
                    BY <1>10, <5>1
                <5>3. d * t + 0 = (0 + d) * t
                    <6>1. t \in Nat
                        BY <1>1
                    <6> HIDE DEF t, N
                    <6>2. d \in Nat
                        OBVIOUS
                    <6>3. d * t \in Int /\ 0 + d = d
                        BY <6>1, <6>2
                    <6> QED BY <6>3
                <5> QED BY <5>2, <5>3
            <4>3. Len(Whole(PR(d), k, answers)) = mn
                BY <1>9 DEF mn
            <4> HIDE DEF k, t
            <4> QED BY <4>1, <4>2, <4>3 DEF IsBlock
        <3> QED BY <3>2, <3>3, <3>4 DEF mn
    <2> HIDE DEF ts, ss, N
    <2>2. N \in Nat
        BY <1>2
    <2> QED BY <1>4, <2>1, <2>2, BlocksAreAnswered
<1> QED BY <1>8, <1>14, <1>15, <1>16

\* A batch of prompts, as many as its layout can divide, comes back with n answers
\* to each; in the order of the prompts where the layout keeps it.
LEMMA GenerationsAre ==
    ASSUME NEW l, IsLayout(l), EngineFits(l),
           NEW p \in Nat, NEW q \in Seq(1..p), Len(q) % PromptsDivisor(l) = 0,
           NEW A, NEW n \in Nat, NEW answers, AnswersAre(answers, p, A, n)
    PROVE  /\ Generations(l, q, answers) \in Seq(A)
           /\ Len(Generations(l, q, answers)) = Len(q) * n
           /\ KeepsOrder(l) => Answered(Generations(l, q, answers), q, answers, n)
<1>1. CASE l.backend = "fsdp"
    <2>1. Len(q) % l.world = 0
        BY <1>1 DEF PromptsDivisor
    <2>2. /\ Generations(l, q, answers) \in Seq(A)
          /\ Len(Generations(l, q, answers)) = Len(q) * n
          /\ Answered(Generations(l, q, answers), q, answers, n)
        BY <1>1, <2>1, FsdpGenerations, Zenon
    <2> QED BY <2>2
<1>2. CASE l.backend = "megatron"
    BY <1>2, MegatronGenerations
<1> QED BY <1>1, <1>2 DEF IsLayout

\* The same, with the hypotheses and the conclusion by name.
Asks(l, q, p, A, n, answers) ==
    /\ IsLayout(l) /\ EngineFits(l) /\ Len(q) % PromptsDivisor(l) = 0
    /\ p \in Nat /\ n \in Nat /\ q \in Seq(1..p) /\ AnswersAre(answers, p, A, n)

Gives(g, l, q, A, n, answers) ==
    /\ g \in Seq(A) /\ Len(g) = Len(q) * n
    /\ KeepsOrder(l) => Answered(g, q, answers, n)

LEMMA GenerationsGive ==
    ASSUME NEW l, NEW q, NEW p, NEW A, NEW n, NEW answers, Asks(l, q, p, A, n, answers)
    PROVE  Gives(Generations(l, q, answers), l, q, A, n, answers)
BY GenerationsAre DEF Asks, Gives

-------------------------------------------------------------------------------
(* Splitting *)

\* The pieces of q end at the offsets g.
PiecesOf(parts, q, g) ==
    \A i \in 1..Len(parts) :
        /\ Len(parts[i]) = g[i] - g[i - 1]
        /\ \A j \in 1..(g[i] - g[i - 1]) : parts[i][j] = q[g[i - 1] + j]

\* All pieces but the last have size elements.
EndsAt(g, size, n, k) == g = [i \in 0..k |-> IF i * size < n THEN i * size ELSE n]

LEMMA CeilDivIs ==
    ASSUME NEW n \in Nat, NEW size \in Nat \ {0}
    PROVE  /\ CeilDiv(n, size) \in Nat
           /\ n <= CeilDiv(n, size) * size
           /\ \A i \in 1..CeilDiv(n, size) : (i - 1) * size \in Nat /\ (i - 1) * size < n
<1> DEFINE x == n + size - 1
           k == CeilDiv(n, size)
<1>1. x \in Nat /\ k = x \div size
    BY DEF CeilDiv
<1> HIDE DEF x
<1>2. k \in Nat /\ x % size \in 0..(size - 1) /\ x = k * size + (x % size)
    <2>1. /\ x \div size \in Nat /\ x % size \in 0..(size - 1)
          /\ x = (x \div size) * size + (x % size)
        <3>1. x \in Nat
            BY <1>1
        <3> QED BY <3>1, DivisionOf
    <2> QED BY <1>1, <2>1
<1> HIDE DEF k
<1>3. k * size \in Nat
    BY <1>2
<1>4. n <= k * size /\ k * size <= n + size - 1
    BY <1>2, <1>3 DEF x
<1>5. ASSUME NEW i \in 1..k PROVE (i - 1) * size \in Nat /\ (i - 1) * size < n
    <2>1. i - 1 \in Nat /\ i \in Int /\ k \in Int /\ i <= k
        BY <1>2
    <2>2. i * size <= k * size
        BY <2>1, Multiples
    <2>3. i * size = (i - 1) * size + size /\ (i - 1) * size \in Nat
        BY <2>1
    <2> QED BY <1>3, <1>4, <2>2, <2>3
<1> QED BY <1>2, <1>4, <1>5 DEF k

LEMMA SplitIs ==
    ASSUME NEW S, NEW q \in Seq(S), NEW size \in Nat \ {0}
    PROVE  /\ SplitBy(q, size) \in Seq(Seq(S))
           /\ Len(SplitBy(q, size)) = CeilDiv(Len(q), size)
           /\ \E g \in [0..CeilDiv(Len(q), size) -> Nat] :
                  /\ EndsAt(g, size, Len(q), CeilDiv(Len(q), size))
                  /\ PiecesOf(SplitBy(q, size), q, g)
           /\ FlattenSeq(SplitBy(q, size)) = q
<1> DEFINE n == Len(q)
           k == CeilDiv(n, size)
           g == [i \in 0..k |-> IF i * size < n THEN i * size ELSE n]
           parts == SplitBy(q, size)
<1>1. n \in Nat /\ q \in [1..n -> S]
    OBVIOUS
<1>2. /\ k \in Nat /\ n <= k * size
      /\ \A i \in 1..k : (i - 1) * size \in Nat /\ (i - 1) * size < n
    <2> HIDE DEF n
    <2> QED BY <1>1, CeilDivIs
<1>3. parts = [i \in 1..k |-> SubSeq(q, (i - 1) * size + 1, IF i * size < n THEN i * size ELSE n)]
    BY DEF SplitBy, CeilDiv
<1> HIDE DEF k, n
<1>4. g \in [0..k -> Nat]
    <2> SUFFICES ASSUME NEW i \in 0..k PROVE (IF i * size < n THEN i * size ELSE n) \in Nat
        OBVIOUS
    <2>1. i * size \in Nat
        BY <1>2
    <2> QED BY <1>1, <2>1
<1>5. ASSUME NEW i \in 1..k
      PROVE  /\ i - 1 \in 0..k /\ i \in 0..k /\ g[i - 1] = (i - 1) * size
             /\ g[i] = IF i * size < n THEN i * size ELSE n
             /\ g[i - 1] <= g[i] /\ g[i] <= n
    <2>1. i - 1 \in 0..k /\ i \in 0..k /\ i - 1 \in Nat
        BY <1>2
    <2>2. g[i - 1] = (i - 1) * size
        BY <1>2, <2>1
    <2>3. g[i] = IF i * size < n THEN i * size ELSE n
        BY <2>1
    <2>4. i * size = (i - 1) * size + size /\ (i - 1) * size \in Nat /\ (i - 1) * size < n
        BY <1>2, <2>1
    <2> HIDE DEF g
    <2> QED BY <1>1, <2>1, <2>2, <2>3, <2>4
<1>6. g[0] = 0 /\ g[k] = n
    <2>1. 0 * size = 0 /\ 0 \in 0..k /\ k \in 0..k
        BY <1>2
    <2>2. g[0] = IF 0 * size < n THEN 0 * size ELSE n
        BY <2>1
    <2>3. g[k] = IF k * size < n THEN k * size ELSE n
        BY <2>1
    <2>4. k * size \in Nat
        BY <1>2
    <2> HIDE DEF g
    <2> QED BY <1>1, <1>2, <2>1, <2>2, <2>3, <2>4
<1>7. EndsAt(g, size, n, k)
    BY DEF EndsAt
<1> HIDE DEF g
<1>8. ASSUME NEW i \in 1..k
      PROVE  /\ parts[i] \in Seq(S) /\ Len(parts[i]) = g[i] - g[i - 1]
             /\ \A j \in 1..(g[i] - g[i - 1]) : parts[i][j] = q[g[i - 1] + j]
    <2> DEFINE a == g[i - 1]
               b == g[i]
    <2>1. parts[i] = SubSeq(q, a + 1, b)
        BY <1>3, <1>5
    <2>2. a \in Nat /\ b \in Nat /\ a <= b /\ b <= Len(q)
        BY <1>4, <1>5 DEF n
    <2> HIDE DEF a, b, parts
    <2>3. /\ SubSeq(q, a + 1, b) \in Seq(S) /\ Len(SubSeq(q, a + 1, b)) = b - a
          /\ \A j \in 1..(b - a) : SubSeq(q, a + 1, b)[j] = q[a + j]
        BY <2>2, SliceIs
    <2> QED BY <2>1, <2>3 DEF a, b
<1>9. parts \in Seq(Seq(S)) /\ Len(parts) = k
    <2>1. parts \in [1..k -> Seq(S)]
        BY <1>3, <1>8
    <2> HIDE DEF parts
    <2> QED BY <1>2, <2>1, FunctionIsSeq
<1>10. PiecesOf(parts, q, g)
    <2> HIDE DEF parts
    <2> QED BY <1>8, <1>9 DEF PiecesOf
<1> HIDE DEF parts
<1>11. Offsets(g, parts)
    <2> SUFFICES ASSUME NEW i \in 1..k PROVE g[i] = g[i - 1] + Len(parts[i])
        BY <1>6, <1>9 DEF Offsets
    <2>1. Len(parts[i]) = g[i] - g[i - 1]
        BY <1>8
    <2>2. g[i] \in Nat /\ g[i - 1] \in Nat
        BY <1>4, <1>5
    <2> QED BY <2>1, <2>2
<1>12. /\ FlattenSeq(parts) \in Seq(S) /\ Len(FlattenSeq(parts)) = g[Len(parts)]
       /\ LaidOut(FlattenSeq(parts), g, parts)
    <2>1. g \in [0..Len(parts) -> Nat]
        BY <1>4, <1>9
    <2> QED BY <1>9, <1>11, <2>1, FlattenAt
<1> DEFINE f == FlattenSeq(parts)
<1>13. f \in Seq(S) /\ Len(f) = n
    BY <1>6, <1>9, <1>12
<1>14. ASSUME NEW i \in 1..k, NEW j \in 1..(g[i] - g[i - 1])
       PROVE  f[g[i - 1] + j] = q[g[i - 1] + j]
    <2>1. parts[i][j] = q[g[i - 1] + j] /\ Len(parts[i]) = g[i] - g[i - 1]
        BY <1>8
    <2> HIDE DEF f
    <2>2. f[g[i - 1] + j] = parts[i][j]
        BY <1>9, <1>12, <2>1 DEF LaidOut, f
    <2> QED BY <2>1, <2>2
<1> HIDE DEF f
<1>15. ASSUME NEW x \in 1..n PROVE f[x] = q[x]
    <2>1. x \in 1..(k * size)
        <3>1. k * size \in Nat
            BY <1>2
        <3> QED BY <1>1, <1>2, <3>1
    <2>2. InSomeBlock(x, k, size)
        <3>1. size \in Nat
            OBVIOUS
        <3> QED BY <1>2, <2>1, <3>1, Blocks
    <2>3. PICK d \in 0..(k - 1), j \in 1..size : x = d * size + j
        BY <2>2 DEF InSomeBlock
    <2> DEFINE i == d + 1
    <2>4. i \in 1..k /\ i - 1 = d
        BY <1>2
    <2> HIDE DEF i
    <2>5. g[i - 1] = d * size /\ g[i] = IF i * size < n THEN i * size ELSE n
        BY <1>5, <2>4
    <2>6. i * size = d * size + size /\ d * size \in Nat
        <3>1. d \in Int
            BY <1>2
        <3> QED BY <2>4, <3>1 DEF i
    <2>7. j \in 1..(g[i] - g[i - 1])
        BY <1>1, <2>3, <2>5, <2>6
    <2>8. f[g[i - 1] + j] = q[g[i - 1] + j]
        BY <1>14, <2>4, <2>7
    <2> QED BY <2>3, <2>5, <2>8
<1>16. f = q
    <2>1. DOMAIN f = 1..n /\ f = [x \in 1..n |-> f[x]] /\ q = [x \in 1..n |-> q[x]]
        BY <1>1, <1>13
    <2> QED BY <1>15, <2>1
<1> QED BY <1>4, <1>7, <1>9, <1>10, <1>16 DEF n, k, f, parts

-------------------------------------------------------------------------------
(* Largest and smallest *)

LEMMA MaxIs ==
    ASSUME NEW s, IsFiniteSet(s), s # {}, s \subseteq Int
    PROVE  Max(s) \in s /\ \A x \in s : x <= Max(s)
<1> DEFINE R == {p \in s \X s : p[1] > p[2]}
<1>1. Orders(R, s)
    BY DEF Orders
<1> HIDE DEF R
<1>2. PICK x \in s : \A y \in s \ {x} : <<x, y>> \in R
    BY <1>1, LeastOfFinite
<1>3. ASSUME NEW y \in s PROVE x >= y
    <2>1. x \in Int /\ y \in Int
        OBVIOUS
    <2>2. CASE y = x
        BY <2>1, <2>2
    <2>3. CASE y # x
        <3>1. x > y
            BY <1>2, <2>3 DEF R
        <3> QED BY <2>1, <3>1
    <2> QED BY <2>2, <2>3
<1> QED BY <1>3 DEF Max

LEMMA MinIs ==
    ASSUME NEW s, IsFiniteSet(s), s # {}, s \subseteq Int
    PROVE  Min(s) \in s /\ \A x \in s : Min(s) <= x
<1> DEFINE R == {p \in s \X s : p[1] < p[2]}
<1>1. Orders(R, s)
    BY DEF Orders
<1> HIDE DEF R
<1>2. PICK x \in s : \A y \in s \ {x} : <<x, y>> \in R
    BY <1>1, LeastOfFinite
<1>3. ASSUME NEW y \in s PROVE x <= y
    <2>1. x \in Int /\ y \in Int
        OBVIOUS
    <2>2. CASE y = x
        BY <2>1, <2>2
    <2>3. CASE y # x
        <3>1. x < y
            BY <1>2, <2>3 DEF R
        <3> QED BY <2>1, <3>1
    <2> QED BY <2>2, <2>3
<1> QED BY <1>3 DEF Min

-------------------------------------------------------------------------------
(* The sizes of an accepted configuration *)

\* The rows of a data parallel rank.
Share == (setting.batch * setting.n) \div Dp(setting)

LEMMA SettingIs ==
    ASSUME setting \in Settings
    PROVE  /\ setting.backend \in {"fsdp", "megatron"} /\ setting.estimator \in Estimators
           /\ {setting.world, setting.sp, setting.tp, setting.pp, setting.infer, setting.batch,
               setting.n, setting.mini, setting.epochs, setting.valSize, setting.valN,
               setting.maxTokens} \subseteq Nat \ {0}
           /\ {setting.micro, setting.microPerGpu, setting.warmup, setting.testFreq} \subseteq Nat
           /\ {setting.dynamic, setting.balance, setting.ref, setting.rm, setting.saves,
               setting.valBefore} \subseteq BOOLEAN
           /\ setting.lens \subseteq Nat \ {0} /\ setting.lens # {} /\ IsFiniteSet(setting.lens)
           /\ setting.backend = "megatron" => setting.sp = 1 /\ ~setting.dynamic
           /\ TotalSteps \in Nat \ {0}
BY PpoAssumption

LEMMA WidthIs ==
    ASSUME setting \in Settings
    PROVE  /\ Width \in setting.lens /\ Width \in Nat \ {0}
           /\ \A x \in setting.lens : x \in Nat \ {0} /\ x <= Width
<1> DEFINE s == setting.lens
<1>1. s \subseteq Nat \ {0} /\ s # {} /\ IsFiniteSet(s)
    BY SettingIs
<1> HIDE DEF s
<1>2. s \subseteq Int
    BY <1>1
<1>3. Max(s) \in s /\ \A x \in s : x <= Max(s)
    BY <1>1, <1>2, MaxIs, Zenon
<1> QED BY <1>1, <1>3 DEF Width, s

LEMMA QuotientGrows ==
    ASSUME NEW k \in Nat \ {0}, NEW x \in Nat, x >= k
    PROVE  x \div k \in Nat \ {0}
<1> DEFINE d == x \div k
<1>1. d \in Nat /\ x % k \in 0..(k - 1) /\ x = d * k + (x % k)
    BY DivisionOf
<1> DEFINE m == x % k
<1> HIDE DEF d, m
<1>2. d # 0
    <2> SUFFICES ASSUME d = 0 PROVE FALSE
        OBVIOUS
    <2>1. d * k = 0
        OBVIOUS
    <2> QED BY <1>1, <2>1 DEF m
<1> QED BY <1>1, <1>2 DEF d

LEMMA SizesAre ==
    ASSUME setting \in Settings, ConfigAccepted
    PROVE  /\ IsLayout(setting) /\ Dp(setting) \in Nat \ {0}
           /\ setting.batch * setting.n \in Nat \ {0}
           /\ Share \in Nat \ {0} /\ Shares(setting, setting.batch * setting.n, Share)
           /\ ~setting.dynamic => Micro \in Nat \ {0}
           /\ Mini \in Nat
<1> DEFINE D == Dp(setting)
           b == setting.batch
           n == setting.n
           w == setting.world
           s == setting.sp
           m == b * n
<1>1. IsLayout(setting) /\ D \in Nat \ {0}
    BY SettingsAreLayouts DEF IsLayout
<1>2. b \in Nat \ {0} /\ n \in Nat \ {0} /\ w \in Nat \ {0} /\ s \in Nat \ {0} /\ setting.mini \in Nat
    BY SettingIs
<1>3. m \in Nat \ {0}
    <2> HIDE DEF b, n
    <2>1. m \in Nat /\ m # 0
        BY <1>2
    <2> QED BY <2>1
<1>4. m % w = 0
    BY DEF ConfigAccepted
<1>5. Share \in Nat /\ Shares(setting, m, Share)
    <2>1. m \in Nat
        BY <1>3
    <2> HIDE DEF m
    <2> QED BY <1>1, <1>4, <2>1, SharesAre DEF Share, m
<1>6. Share # 0
    <2> SUFFICES ASSUME Share = 0 PROVE FALSE
        OBVIOUS
    <2>1. m = D * Share
        BY <1>5 DEF Shares
    <2> HIDE DEF m, D
    <2>2. D * Share = 0
        BY <1>1
    <2> QED BY <1>3, <2>1, <2>2
<1>7. ASSUME ~setting.dynamic PROVE Micro \in Nat \ {0}
    <2> DEFINE x == setting.micro
    <2>1. /\ x \in Nat /\ setting.microPerGpu \in Nat /\ (x = 0) # (setting.microPerGpu = 0)
          /\ x # 0 => x * s >= w
        BY <1>7, SettingIs DEF ConfigAccepted
    <2>2. CASE x = 0
        <3>1. Micro = setting.microPerGpu
            BY <2>2 DEF Micro
        <3> QED BY <2>1, <2>2, <3>1
    <2>3. CASE x # 0
        <3>1. w = D * s \/ (s = 1 /\ w >= D)
            <4>1. CASE setting.backend = "fsdp"
                BY <1>1, <4>1 DEF IsLayout, InGroupsOf
            <4>2. CASE setting.backend = "megatron"
                <5> DEFINE p == setting.pp
                           t == setting.tp
                <5>1. s = 1 /\ p \in Nat \ {0} /\ t \in Nat \ {0} /\ w = (D * p) * t
                    BY <1>1, <4>2, SettingIs DEF IsLayout
                <5> HIDE DEF p, t, D, w, s
                <5> DEFINE e == D * p
                           f == D * (p - 1)
                <5>2. e \in Int /\ f \in Int /\ e = D + f
                    BY <1>1, <5>1
                <5>3. p - 1 \in Nat /\ D \in Nat
                    BY <1>1, <5>1
                <5>4. f \in Nat
                    BY <5>3
                <5> HIDE DEF f
                <5>5. e >= D /\ e \in Nat
                    BY <1>1, <5>2, <5>4
                <5>6. w = e * t
                    BY <5>1
                <5> HIDE DEF e
                <5>7. t - 1 \in Nat
                    BY <5>1
                <5> DEFINE h == e * (t - 1)
                <5>8. h \in Nat /\ w = e + h
                    BY <5>1, <5>5, <5>6, <5>7
                <5> HIDE DEF h
                <5>9. w >= D
                    BY <1>1, <5>5, <5>8
                <5> QED BY <5>1, <5>9
            <4> QED BY <1>1, <4>1, <4>2 DEF IsLayout
        <3>2. x >= D
            <4> HIDE DEF w, s, D, x
            <4>1. x * s \in Int /\ x * s >= w
                BY <1>2, <2>1, <2>3
            <4>2. CASE s = 1 /\ w >= D
                <5>1. x * s = x
                    BY <2>1, <4>2
                <5> QED BY <1>1, <1>2, <2>1, <4>1, <4>2, <5>1
            <4>3. CASE w = D * s
                <5> SUFFICES ASSUME ~(x >= D) PROVE FALSE
                    OBVIOUS
                <5>1. x + 1 <= D /\ x + 1 \in Int /\ D \in Int /\ s \in Nat
                    BY <1>1, <1>2, <2>1
                <5>2. (x + 1) * s <= D * s /\ D * s \in Int
                    BY <5>1, Multiples
                <5>3. (x + 1) * s = x * s + s
                    BY <2>1, <5>1
                <5> QED BY <1>2, <4>1, <4>3, <5>2, <5>3
            <4> QED BY <3>1, <4>2, <4>3
        <3>3. Micro = x \div D
            BY <2>3 DEF Micro
        <3> HIDE DEF x, D
        <3> QED BY <1>1, <2>1, <3>2, <3>3, QuotientGrows
    <2> QED BY <2>2, <2>3
<1>8. Mini \in Nat
    <2> DEFINE y == setting.mini * n
    <2>1. y \in Nat
        BY <1>2
    <2>2. Mini = y \div D
        BY DEF Mini
    <2> HIDE DEF y, D
    <2> QED BY <1>1, <2>1, <2>2, DivisionOf
<1> QED BY <1>1, <1>3, <1>5, <1>6, <1>7, <1>8

LEMMA FiniteImage ==
    ASSUME NEW S, IsFiniteSet(S), NEW f
    PROVE  IsFiniteSet({f[x] : x \in S})
<1> DEFINE T == {f[x] : x \in S}
           g == [x \in S |-> f[x]]
<1>1. g \in Surjection(S, T)
    BY DEF Surjection
<1> HIDE DEF g, T
<1>2. IsFiniteSet(T)
    BY <1>1, FS_Surjection
<1> QED BY <1>2 DEF T

-------------------------------------------------------------------------------
(* What the state holds *)

\* The responses to the prompts of a batch.
Resp == [of : 1..setting.batch, k : 0..setting.n, by : Nat, len : setting.lens]

\* The rows of a batch whose responses are in R.
Row(R) == [uid : 1..setting.batch, prompt : 1..setting.batch, resp : R, base : SUBSET Resp,
           old : SUBSET [of : Resp, under : Nat], ref : SUBSET [of : Resp, under : Nat],
           values : SUBSET [of : Resp, mask : Resp],
           score : SUBSET [of : Resp, truth : 1..setting.batch],
           reward : SUBSET Resp, adv : SUBSET Resp, scale : SUBSET Resp]

IsPart(part, m) == part \in Seq(Row(Resp)) /\ Len(part) = m

-------------------------------------------------------------------------------
(* Micro-batches *)

\* The tokens a micro-batch of a rank may have.
Limit == setting.maxTokens * setting.sp

OneToOne(m) == [i \in 1..m |-> i]

LEMMA PartLens ==
    ASSUME setting \in Settings, NEW m \in Nat, NEW part, IsPart(part, m)
    PROVE  /\ Lens(part) \in [1..m -> Nat \ {0}] /\ NoneLonger(Lens(part), m, Width)
           /\ \A i \in 1..m : part[i].resp \in Resp /\ Lens(part)[i] = part[i].resp.len
<1>1. DOMAIN part = 1..m /\ \A i \in 1..m : part[i] \in Row(Resp)
    BY DEF IsPart
<1>2. \A i \in 1..m : part[i].resp \in Resp
    BY <1>1 DEF Row
<1>3. \A i \in 1..m : part[i].resp.len \in setting.lens
    BY <1>2 DEF Resp
<1>4. Lens(part) = [i \in 1..m |-> part[i].resp.len]
    BY <1>1 DEF Lens
<1>5. \A i \in 1..m : part[i].resp.len \in Nat \ {0} /\ part[i].resp.len <= Width
    BY <1>3, WidthIs
<1> QED BY <1>2, <1>4, <1>5 DEF NoneLonger

LEMMA NeededIs ==
    ASSUME NEW m \in Nat \ {0}, NEW lens, lens \in [1..m -> Nat \ {0}], NEW limit \in Nat \ {0}
    PROVE  /\ MicroBatchesNeeded(lens, limit) \in Nat \ {0}
           /\ Tokens(lens, OneToOne(m)) \in Nat
           /\ Tokens(lens, OneToOne(m)) <= MicroBatchesNeeded(lens, limit) * limit
<1> DEFINE q == OneToOne(m)
           x == Tokens(lens, q)
<1>1. DOMAIN lens = 1..m /\ m \in Nat /\ lens \in [1..m -> Nat]
    OBVIOUS
<1>2. q \in Seq(1..m) /\ Len(q) = m
    BY FunctionIsSeq DEF OneToOne
<1>3. MicroBatchesNeeded(lens, limit) = CeilDiv(x, limit)
    BY <1>1 DEF MicroBatchesNeeded, OneToOne
<1>4. x \in Nat
    <2> HIDE DEF q
    <2> QED BY <1>1, <1>2, TokensType
<1>5. x > 0
    <2> HIDE DEF q
    <2>1. Len(q) # 0
        BY <1>2
    <2> QED BY <1>1, <1>2, <2>1, TokensOfAny
<1> HIDE DEF x
<1>6. x <= CeilDiv(x, limit) * limit
    BY <1>4, CeilDivIs
<1> DEFINE y == x + limit - 1
<1>7. y \in Nat /\ y >= limit /\ CeilDiv(x, limit) = y \div limit
    BY <1>4, <1>5 DEF CeilDiv
<1> HIDE DEF y
<1>8. y \div limit \in Nat \ {0}
    BY <1>7, QuotientGrows
<1> QED BY <1>3, <1>4, <1>6, <1>7, <1>8 DEF x

\* How many micro-batches the ranks have, each of them.
CountOf(others, m) ==
    IF setting.dynamic
    THEN Max({MicroBatchesNeeded(Lens(o), setting.maxTokens * setting.sp) : o \in others})
    ELSE CeilDiv(m, Micro)

AllParts(others, m) == IsFiniteSet(others) /\ \A o \in others : IsPart(o, m)

\* The parts deal the rows evenly and are as many as are needed.
DealtEvenly(parts, lens, k, m) ==
    /\ PartsOf(parts, k, m)
    /\ Even(lens, parts, k, Width)
    /\ MicroBatchesNeeded(lens, Limit) <= k

LEMMA CountIs ==
    ASSUME setting \in Settings, ConfigAccepted, NEW m \in Nat \ {0}, NEW others,
           AllParts(others, m), NEW part \in others
    PROVE  /\ CountOf(others, m) \in Nat \ {0}
           /\ setting.dynamic => MicroBatchesNeeded(Lens(part), Limit) <= CountOf(others, m)
<1>1. CASE setting.dynamic
    <2> DEFINE f == [o \in others |-> MicroBatchesNeeded(Lens(o), Limit)]
               s == {f[o] : o \in others}
    <2>1. s = {MicroBatchesNeeded(Lens(o), setting.maxTokens * setting.sp) : o \in others}
        BY DEF Limit
    <2>2. CountOf(others, m) = Max(s)
        BY <1>1, <2>1 DEF CountOf
    <2>3. Limit \in Nat \ {0}
        <3> DEFINE a == setting.maxTokens
                   b == setting.sp
        <3>1. a \in Nat \ {0} /\ b \in Nat \ {0}
            BY SettingIs
        <3> HIDE DEF a, b
        <3>2. a * b \in Nat /\ a * b # 0
            BY <3>1
        <3> QED BY <3>2 DEF Limit, a, b
    <2>4. \A o \in others : f[o] \in Nat \ {0}
        <3> SUFFICES ASSUME NEW o \in others
                     PROVE  MicroBatchesNeeded(Lens(o), Limit) \in Nat \ {0}
            OBVIOUS
        <3>1. m \in Nat /\ IsPart(o, m)
            BY DEF AllParts
        <3>2. Lens(o) \in [1..m -> Nat \ {0}]
            BY <3>1, PartLens
        <3> QED BY <2>3, <3>2, NeededIs
    <2>5. f[part] = MicroBatchesNeeded(Lens(part), Limit) /\ f[part] \in s
        OBVIOUS
    <2>6. IsFiniteSet(s)
        <3> HIDE DEF f
        <3> QED BY FiniteImage DEF AllParts
    <2> HIDE DEF f
    <2>7. s \subseteq Nat \ {0} /\ s \subseteq Int
        BY <2>4
    <2> HIDE DEF s
    <2>8. s # {}
        BY <2>5
    <2>9. Max(s) \in s /\ \A x \in s : x <= Max(s)
        BY <2>6, <2>7, <2>8, MaxIs, Zenon
    <2> QED BY <2>2, <2>5, <2>7, <2>9
<1>2. CASE ~setting.dynamic
    <2> DEFINE u == Micro
               x == m + u - 1
    <2>1. u \in Nat \ {0}
        BY <1>2, SizesAre
    <2> HIDE DEF u
    <2>2. x \in Nat /\ x >= u
        BY <2>1
    <2>3. CeilDiv(m, u) = x \div u
        BY DEF CeilDiv
    <2> HIDE DEF x
    <2>4. x \div u \in Nat \ {0}
        BY <2>1, <2>2, QuotientGrows
    <2> QED BY <1>2, <2>3, <2>4 DEF CountOf, u
<1> QED BY <1>1, <1>2

LEMMA MicroBatchesAre ==
    ASSUME setting \in Settings, ConfigAccepted, NEW m \in Nat \ {0}, NEW others,
           AllParts(others, m), NEW part \in others
    PROVE  /\ MicroBatches(part, others) \in Seq(Seq(1..m))
           /\ Len(MicroBatches(part, others)) = CountOf(others, m)
           /\ Permutes(FlattenSeq(MicroBatches(part, others)), m)
           /\ setting.dynamic =>
                  DealtEvenly(MicroBatches(part, others), Lens(part), CountOf(others, m), m)
           /\ ~setting.dynamic => /\ MicroBatches(part, others) = SplitBy(OneToOne(m), Micro)
                                  /\ FlattenSeq(MicroBatches(part, others)) = OneToOne(m)
<1> DEFINE k == CountOf(others, m)
           lens == Lens(part)
           mb == MicroBatches(part, others)
<1>1. IsPart(part, m) /\ m \in Nat
    BY DEF AllParts
<1>2. lens \in [1..m -> Nat \ {0}] /\ NoneLonger(lens, m, Width) /\ DOMAIN part = 1..m
    BY <1>1, PartLens DEF IsPart
<1>3. k \in Nat \ {0} /\ (setting.dynamic => MicroBatchesNeeded(lens, Limit) <= k)
    BY CountIs
<1>4. CASE setting.dynamic
    <2>1. mb = BalancedPartitions(lens, k, FALSE)
        BY <1>4 DEF MicroBatches, CountOf
    <2> HIDE DEF k, lens, mb
    <2>2. Width \in Int
        BY WidthIs
    <2>3. /\ PartsOf(BalancedPartitions(lens, k, FALSE), k, m)
          /\ Even(lens, BalancedPartitions(lens, k, FALSE), k, Width)
        BY <1>2, <1>3, <2>2, BalancedPartitionsDeal
    <2>4. PartsOf(mb, k, m) /\ Even(lens, mb, k, Width)
        BY <2>1, <2>3
    <2>5. Permutes(FlattenSeq(mb), m)
        <3>1. k \in Nat
            BY <1>3
        <3> QED BY <1>1, <2>4, <3>1, FlattenPermutes
    <2> QED BY <1>3, <1>4, <2>4, <2>5 DEF DealtEvenly, PartsOf, k, mb, lens
<1>5. CASE ~setting.dynamic
    <2> DEFINE q == OneToOne(m)
    <2>1. q \in Seq(1..m) /\ Len(q) = m /\ q \in [1..m -> 1..m]
        BY FunctionIsSeq DEF OneToOne
    <2>2. mb = SplitBy(q, Micro)
        BY <1>2, <1>5 DEF MicroBatches, OneToOne
    <2>3. Micro \in Nat \ {0}
        BY <1>5, SizesAre
    <2>4. k = CeilDiv(m, Micro)
        BY <1>5 DEF CountOf
    <2>5. Permutes(q, m)
        BY <2>1 DEF Permutes, OneToOne
    <2> HIDE DEF q, mb, k
    <2>6. /\ SplitBy(q, Micro) \in Seq(Seq(1..m)) /\ Len(SplitBy(q, Micro)) = CeilDiv(Len(q), Micro)
          /\ FlattenSeq(SplitBy(q, Micro)) = q
        BY <2>1, <2>3, SplitIs
    <2> QED BY <1>5, <2>1, <2>2, <2>4, <2>5, <2>6 DEF q, mb, k
<1> QED BY <1>4, <1>5

-------------------------------------------------------------------------------
(* Forward passes *)

\* The rows are a batch with a response in each.
WholeBatch == IsPart(rows, setting.batch * setting.n)

Locals == {LocalRows(setting, rows, e) : e \in Ranks}

LEMMA LocalsAre ==
    ASSUME setting \in Settings, ConfigAccepted, WholeBatch
    PROVE  /\ AllParts(Locals, Share)
           /\ \A d \in Ranks : /\ IsPart(LocalRows(setting, rows, d), Share)
                               /\ IsBlock(LocalRows(setting, rows, d), rows, d, Share)
                               /\ LocalRows(setting, rows, d) \in Locals
<1> DEFINE m == setting.batch * setting.n
<1>1. /\ IsLayout(setting) /\ Dp(setting) \in Nat \ {0} /\ m \in Nat \ {0}
      /\ Share \in Nat /\ Shares(setting, m, Share)
    BY SizesAre
<1>2. rows \in Seq(Row(Resp)) /\ Len(rows) = m
    BY DEF WholeBatch, IsPart
<1>3. ASSUME NEW d \in Ranks
      PROVE  /\ LocalRows(setting, rows, d) \in Seq(Row(Resp))
             /\ IsBlock(LocalRows(setting, rows, d), rows, d, Share)
    <2>1. d \in 0..(Dp(setting) - 1)
        BY DEF Ranks
    <2>2. Shares(setting, Len(rows), Share)
        BY <1>1, <1>2
    <2> HIDE DEF m
    <2> QED BY <1>1, <1>2, <2>1, <2>2, LocalRowsAre
<1>4. \A d \in Ranks : IsPart(LocalRows(setting, rows, d), Share)
    BY <1>3 DEF IsPart, IsBlock
<1>5. IsFiniteSet(Locals)
    <2> DEFINE f == [e \in Ranks |-> LocalRows(setting, rows, e)]
    <2>1. IsFiniteSet(Ranks)
        <3>1. 0 \in Int /\ Dp(setting) - 1 \in Int
            BY <1>1
        <3> QED BY <3>1, FS_Interval DEF Ranks
    <2>2. Locals = {f[e] : e \in Ranks}
        BY DEF Locals
    <2> HIDE DEF f
    <2> QED BY <2>1, <2>2, FiniteImage
<1> QED BY <1>3, <1>4, <1>5 DEF AllParts, Locals

\* Every rank has as many micro-batches in a forward pass.
LEMMA ForwardIsInStep ==
    ASSUME setting \in Settings, ConfigAccepted, WholeBatch
    PROVE  ForwardInStep
<1> DEFINE b == [d \in Ranks |-> MicroBatches(LocalRows(setting, rows, d), Locals)]
<1>1. Share \in Nat \ {0} /\ AllParts(Locals, Share)
    BY SizesAre, LocalsAre
<1>2. ASSUME NEW d \in Ranks PROVE Len(b[d]) = CountOf(Locals, Share)
    <2> DEFINE p == LocalRows(setting, rows, d)
    <2>1. p \in Locals /\ b[d] = MicroBatches(p, Locals)
        BY DEF Locals
    <2> HIDE DEF p, b
    <2>2. Len(MicroBatches(p, Locals)) = CountOf(Locals, Share)
        BY <1>1, <2>1, MicroBatchesAre
    <2> QED BY <2>1, <2>2
<1> HIDE DEF b
<1>3. InStep(b)
    BY <1>2 DEF InStep
<1> QED BY <1>3 DEF ForwardInStep, Locals, b

\* The order of a rank's rows in the forward pass is one, and its own when the
\* micro-batches are of a fixed size.
LEMMA ForwardOrderIs ==
    ASSUME setting \in Settings, ConfigAccepted, WholeBatch, NEW d \in Ranks
    PROVE  /\ Permutes(ForwardOrder(d), Share)
           /\ ~setting.dynamic => ForwardOrder(d) = OneToOne(Share)
<1> DEFINE p == LocalRows(setting, rows, d)
<1>1. Share \in Nat \ {0} /\ AllParts(Locals, Share) /\ p \in Locals
    BY SizesAre, LocalsAre
<1>2. ForwardOrder(d) = FlattenSeq(MicroBatches(p, Locals))
    BY DEF ForwardOrder, Locals
<1> HIDE DEF p
<1>3. /\ Permutes(FlattenSeq(MicroBatches(p, Locals)), Share)
      /\ ~setting.dynamic => FlattenSeq(MicroBatches(p, Locals)) = OneToOne(Share)
    BY <1>1, MicroBatchesAre
<1> QED BY <1>2, <1>3

LEMMA ReverseIdxIs ==
    ASSUME NEW n \in Nat, NEW order, Permutes(order, n)
    PROVE  /\ \A i \in 1..n : ReverseIdx(order)[i] \in 1..n /\ order[ReverseIdx(order)[i]] = i
           /\ order = OneToOne(n) => \A i \in 1..n : ReverseIdx(order)[i] = i
<1>1. /\ DOMAIN order = 1..n /\ order \in [1..n -> 1..n]
      /\ \A r \in 1..n : \E i \in 1..n : order[i] = r
    BY DEF Permutes
<1>2. ASSUME NEW i \in 1..n
      PROVE  ReverseIdx(order)[i] \in 1..n /\ order[ReverseIdx(order)[i]] = i
    <2>1. ReverseIdx(order)[i] = CHOOSE j \in 1..n : order[j] = i
        BY <1>1 DEF ReverseIdx
    <2>2. \E j \in 1..n : order[j] = i
        BY <1>1
    <2> QED BY <2>1, <2>2
<1>3. ASSUME order = OneToOne(n), NEW i \in 1..n PROVE ReverseIdx(order)[i] = i
    <2>1. \A j \in 1..n : order[j] = j
        BY <1>3 DEF OneToOne
    <2> QED BY <1>2, <2>1
<1> QED BY <1>2, <1>3

\* The results of a pass are those of the rank's rows, in their order.
LEMMA LogProbsAre ==
    ASSUME setting \in Settings, ConfigAccepted, WholeBatch, NEW d \in Ranks
    PROVE  /\ LogProbs(d) \in Seq(Resp) /\ Len(LogProbs(d)) = Share
           /\ \A j \in 1..Share : LogProbs(d)[j] = LocalRows(setting, rows, d)[j].resp
<1> DEFINE part == LocalRows(setting, rows, d)
           order == ForwardOrder(d)
           back == ReverseIdx(order)
<1>1. Share \in Nat /\ IsPart(part, Share)
    BY SizesAre, LocalsAre
<1>2. DOMAIN part = 1..Share /\ \A i \in 1..Share : part[i].resp \in Resp
    BY <1>1, PartLens DEF IsPart
<1>3. Permutes(order, Share)
    BY ForwardOrderIs
<1>4. \A i \in 1..Share : order[back[i]] = i
    <2> HIDE DEF order
    <2> QED BY <1>1, <1>3, ReverseIdxIs
<1>5. LogProbs(d) = [i \in 1..Share |-> part[order[back[i]]].resp]
    BY <1>2 DEF LogProbs
<1> HIDE DEF part, order, back
<1>6. LogProbs(d) = [i \in 1..Share |-> part[i].resp]
    BY <1>4, <1>5
<1>7. LogProbs(d) \in [1..Share -> Resp]
    BY <1>2, <1>6
<1> QED BY <1>1, <1>6, <1>7, FunctionIsSeq DEF part

LEMMA StateValuesAre ==
    ASSUME setting \in Settings, ConfigAccepted, WholeBatch, NEW d \in Ranks
    PROVE  /\ StateValues(d) \in Seq([of : Resp, mask : Resp]) /\ Len(StateValues(d)) = Share
           /\ \A j \in 1..Share :
                  /\ StateValues(d)[j].of = LocalRows(setting, rows, d)[j].resp
                  /\ setting.dynamic
                         \/ StateValues(d)[j].mask = LocalRows(setting, rows, d)[j].resp
<1> DEFINE part == LocalRows(setting, rows, d)
           order == ForwardOrder(d)
           back == ReverseIdx(order)
<1>1. Share \in Nat /\ IsPart(part, Share) /\ setting.dynamic \in BOOLEAN
    BY SizesAre, LocalsAre, SettingIs
<1>2. DOMAIN part = 1..Share /\ \A i \in 1..Share : part[i].resp \in Resp
    BY <1>1, PartLens DEF IsPart
<1>3. Permutes(order, Share) /\ (~setting.dynamic => order = OneToOne(Share))
    BY ForwardOrderIs
<1>4. /\ \A i \in 1..Share : back[i] \in 1..Share /\ order[back[i]] = i
      /\ ~setting.dynamic => \A i \in 1..Share : back[i] = i
    <2> HIDE DEF order
    <2>1. /\ \A i \in 1..Share : back[i] \in 1..Share /\ order[back[i]] = i
          /\ order = OneToOne(Share) => \A i \in 1..Share : back[i] = i
        BY <1>1, <1>3, ReverseIdxIs
    <2> HIDE DEF back
    <2> QED BY <1>3, <2>1
<1>5. StateValues(d) = [i \in 1..Share |-> [of |-> part[order[back[i]]].resp,
                                            mask |-> part[back[i]].resp]]
    BY <1>2 DEF StateValues
<1> HIDE DEF part, order, back
<1>6. StateValues(d) = [i \in 1..Share |-> [of |-> part[i].resp, mask |-> part[back[i]].resp]]
    BY <1>4, <1>5
<1>7. StateValues(d) \in [1..Share -> [of : Resp, mask : Resp]]
    BY <1>2, <1>4, <1>6
<1>8. StateValues(d) \in Seq([of : Resp, mask : Resp]) /\ Len(StateValues(d)) = Share
    BY <1>1, <1>7, FunctionIsSeq
<1>9. ASSUME NEW j \in 1..Share
      PROVE  /\ StateValues(d)[j].of = part[j].resp
             /\ setting.dynamic \/ StateValues(d)[j].mask = part[j].resp
    BY <1>1, <1>4, <1>6
<1> QED BY <1>8, <1>9 DEF part

\* Every row's place in c is one of its rank in out.
ByPlaces(c, out) ==
    \A i \in 1..(setting.batch * setting.n) : \E d \in Ranks, j \in 1..Share :
        c[i] = out[d][j] /\ rows[i] = LocalRows(setting, rows, d)[j]

\* What is collected for a row is what its rank computed for it.
LEMMA CollectedPlace ==
    ASSUME setting \in Settings, ConfigAccepted, WholeBatch, NEW S,
           NEW out \in [Ranks -> Seq(S)], \A d \in Ranks : Len(out[d]) = Share
    PROVE  /\ Collected(setting, out) \in Seq(S)
           /\ Len(Collected(setting, out)) = setting.batch * setting.n
           /\ ByPlaces(Collected(setting, out), out)
<1> DEFINE m == setting.batch * setting.n
           C == Collected(setting, out)
           D == Dp(setting)
<1>1. /\ IsLayout(setting) /\ D \in Nat \ {0} /\ m \in Nat \ {0}
      /\ Share \in Nat /\ Shares(setting, m, Share)
    BY SizesAre
<1>2. Ranks = 0..(D - 1)
    BY DEF Ranks
<1>3. /\ C \in Seq(S) /\ Len(C) = m
      /\ \A d \in Ranks : IsBlock(out[d], C, d, Share)
    <2> HIDE DEF m
    <2>1. out \in [0..(D - 1) -> Seq(S)] /\ \A d \in 0..(D - 1) : Len(out[d]) = Share
        BY <1>2
    <2>2. /\ Collected(setting, out) \in Seq(S) /\ Len(Collected(setting, out)) = m
          /\ \A d \in 0..(D - 1) : IsBlock(out[d], Collected(setting, out), d, Share)
        BY <1>1, <2>1, CollectedIs, Zenon
    <2> QED BY <1>2, <2>2
<1>4. \A d \in Ranks : IsBlock(LocalRows(setting, rows, d), rows, d, Share)
    BY LocalsAre
<1>5. m = D * Share
    BY <1>1 DEF Shares
<1> HIDE DEF C, D, m
<1>6. ASSUME NEW i \in 1..m
      PROVE  \E d \in Ranks, j \in 1..Share : /\ C[i] = out[d][j]
                                              /\ rows[i] = LocalRows(setting, rows, d)[j]
    <2>1. InSomeBlock(i, D, Share)
        <3>1. i \in 1..(D * Share) /\ D \in Nat
            BY <1>1, <1>5
        <3> QED BY <1>1, <3>1, Blocks
    <2>2. PICK d \in 0..(D - 1), j \in 1..Share : i = d * Share + j
        BY <2>1 DEF InSomeBlock
    <2>3. d \in Ranks
        BY <1>2
    <2>4. out[d][j] = C[d * Share + j]
        BY <1>3, <2>3 DEF IsBlock
    <2>5. LocalRows(setting, rows, d)[j] = rows[d * Share + j]
        BY <1>4, <2>3 DEF IsBlock
    <2> QED BY <2>2, <2>3, <2>4, <2>5
<1> QED BY <1>3, <1>6 DEF C, m, ByPlaces

LogProbsCollected == Collected(setting, [d \in Ranks |-> LogProbs(d)])
ValuesCollected == Collected(setting, [d \in Ranks |-> StateValues(d)])

LEMMA LogProbsCollectedAre ==
    ASSUME setting \in Settings, ConfigAccepted, WholeBatch
    PROVE  \A i \in 1..Len(rows) : LogProbsCollected[i] = rows[i].resp
<1> DEFINE out == [d \in Ranks |-> LogProbs(d)]
<1>1. out \in [Ranks -> Seq(Resp)] /\ \A d \in Ranks : Len(out[d]) = Share
    BY LogProbsAre
<1>2. \A d \in Ranks : \A j \in 1..Share : out[d][j] = LocalRows(setting, rows, d)[j].resp
    BY LogProbsAre
<1> HIDE DEF out
<1>3. ByPlaces(Collected(setting, out), out)
    BY <1>1, CollectedPlace
<1>4. Len(rows) = setting.batch * setting.n
    BY DEF WholeBatch, IsPart
<1> QED BY <1>2, <1>3, <1>4 DEF LogProbsCollected, out, ByPlaces

LEMMA ValuesCollectedAre ==
    ASSUME setting \in Settings, ConfigAccepted, WholeBatch
    PROVE  \A i \in 1..Len(rows) :
               /\ ValuesCollected[i] \in [of : Resp, mask : Resp]
               /\ ValuesCollected[i].of = rows[i].resp
               /\ setting.dynamic \/ ValuesCollected[i].mask = rows[i].resp
<1> DEFINE out == [d \in Ranks |-> StateValues(d)]
           V == [of : Resp, mask : Resp]
<1>1. out \in [Ranks -> Seq(V)] /\ \A d \in Ranks : Len(out[d]) = Share
    BY StateValuesAre
<1>2. \A d \in Ranks : \A j \in 1..Share :
          /\ out[d][j].of = LocalRows(setting, rows, d)[j].resp
          /\ setting.dynamic \/ out[d][j].mask = LocalRows(setting, rows, d)[j].resp
    BY StateValuesAre
<1> HIDE DEF out, V
<1>3. /\ Collected(setting, out) \in Seq(V)
      /\ Len(Collected(setting, out)) = setting.batch * setting.n
      /\ ByPlaces(Collected(setting, out), out)
    BY <1>1, CollectedPlace
<1>4. Len(rows) = setting.batch * setting.n
    BY DEF WholeBatch, IsPart
<1>5. \A i \in 1..Len(rows) : Collected(setting, out)[i] \in V
    BY <1>3, <1>4
<1> QED BY <1>2, <1>3, <1>4, <1>5 DEF ValuesCollected, out, V, ByPlaces

-------------------------------------------------------------------------------
(* Optimizer steps *)

\* The mini-batch of the step numbered at, and where the mini-batches of a rank end.
MiniAt(at) == ((at - 1) % CeilDiv(Share, Mini)) + 1
MiniEnds == [i \in 0..CeilDiv(Share, Mini) |-> IF i * Mini < Share THEN i * Mini ELSE Share]
MiniSize(at) == MiniEnds[MiniAt(at)] - MiniEnds[MiniAt(at) - 1]

LEMMA MiniSizeIs ==
    ASSUME setting \in Settings, ConfigAccepted, Mini # 0, NEW at \in Nat \ {0}
    PROVE  /\ CeilDiv(Share, Mini) \in Nat \ {0}
           /\ MiniAt(at) \in 1..CeilDiv(Share, Mini)
           /\ MiniSize(at) \in Nat \ {0}
           /\ Share % Mini = 0 => MiniSize(at) = Mini
<1> DEFINE k == CeilDiv(Share, Mini)
           i == MiniAt(at)
           g == MiniEnds
<1>1. Share \in Nat \ {0} /\ Mini \in Nat \ {0}
    BY SizesAre
<1> DEFINE s == Share
           u == Mini
<1>2. /\ k \in Nat /\ s <= k * u /\ \A j \in 1..k : (j - 1) * u \in Nat /\ (j - 1) * u < s
    BY <1>1, CeilDivIs
<1>3. k # 0
    <2> HIDE DEF k, s, u
    <2> SUFFICES ASSUME k = 0 PROVE FALSE
        OBVIOUS
    <2>1. k * u = 0
        BY <1>1 DEF u
    <2> QED BY <1>1, <1>2, <2>1 DEF s
<1>4. i \in 1..k
    <2> DEFINE x == at - 1
    <2>1. x \in Nat /\ k \in Nat \ {0}
        BY <1>2, <1>3
    <2>2. i = (x % k) + 1
        BY DEF MiniAt
    <2> HIDE DEF x, k, i
    <2>3. x % k \in 0..(k - 1)
        BY <2>1, DivisionOf
    <2> QED BY <2>1, <2>2, <2>3
<1>5. g[i] = (IF i * u < s THEN i * u ELSE s) /\ g[i - 1] = (i - 1) * u
    <2>1. i \in 0..k /\ i - 1 \in 0..k
        <3> HIDE DEF i, k
        <3> QED BY <1>2, <1>4
    <2>2. \A j \in 0..k : g[j] = IF j * u < s THEN j * u ELSE s
        BY DEF MiniEnds
    <2> HIDE DEF g, i, k, u, s
    <2>3. (i - 1) * u < s
        BY <1>2, <1>4
    <2> QED BY <2>1, <2>2, <2>3
<1>6. MiniSize(at) = g[i] - g[i - 1]
    BY DEF MiniSize
<1> HIDE DEF k, i, g, s, u
<1>7. i \in Nat /\ i * u = (i - 1) * u + u /\ (i - 1) * u \in Nat /\ (i - 1) * u < s
    <2>1. i \in Nat /\ u \in Nat /\ (i - 1) * u \in Nat /\ (i - 1) * u < s
        BY <1>1, <1>2, <1>4 DEF u
    <2>2. i * u = (i - 1) * u + u
        BY <2>1
    <2> QED BY <2>1, <2>2
<1>8. s \in Nat \ {0} /\ u \in Nat \ {0}
    BY <1>1 DEF s, u
<1>9. MiniSize(at) \in Nat \ {0}
    BY <1>5, <1>6, <1>7, <1>8
<1>10. ASSUME s % u = 0 PROVE MiniSize(at) = u
    <2>1. s \div u \in Nat /\ s = (s \div u) * u
        BY <1>8, <1>10, NoRemainder
    <2> DEFINE d == s \div u
    <2> HIDE DEF d
    <2>2. d \in Nat /\ s = d * u
        BY <2>1 DEF d
    <2>3. i <= d
        <3> SUFFICES ASSUME d <= i - 1 PROVE FALSE
            BY <1>7, <2>2
        <3>1. d \in Int /\ i - 1 \in Int /\ u \in Nat
            BY <1>7, <1>8, <2>2
        <3>2. d * u <= (i - 1) * u
            BY <3>1, Multiples
        <3> QED BY <1>7, <1>8, <2>2, <3>2
    <2>4. i * u <= d * u
        <3>1. d \in Int /\ i \in Int /\ u \in Nat
            BY <1>7, <1>8, <2>2
        <3> QED BY <2>3, <3>1, Multiples
    <2>5. i * u <= s
        BY <2>2, <2>4
    <2> QED BY <1>5, <1>6, <1>7, <1>8, <2>5
<1> QED BY <1>2, <1>3, <1>4, <1>9, <1>10 DEF k, i, s, u

\* The mini-batch of a rank is a piece of its rows.
IsPiece(t, q, size, from) == \A j \in 1..size : t[j] = q[from + j]

LEMMA MiniBatchIs ==
    ASSUME setting \in Settings, ConfigAccepted, WholeBatch, Mini # 0, NEW at \in Nat \ {0},
           NEW d \in Ranks
    PROVE  /\ IsPart(MiniBatch(d, at), MiniSize(at))
           /\ IsPiece(MiniBatch(d, at), LocalRows(setting, rows, d), MiniSize(at),
                      MiniEnds[MiniAt(at) - 1])
           /\ Len(MiniBatchesOf(d)) = CeilDiv(Share, Mini)
<1> DEFINE part == LocalRows(setting, rows, d)
           all == SplitBy(part, Mini)
           k == CeilDiv(Share, Mini)
           i == MiniAt(at)
<1>1. Share \in Nat \ {0} /\ Mini \in Nat \ {0}
    BY SizesAre
<1>2. part \in Seq(Row(Resp)) /\ Len(part) = Share
    BY LocalsAre DEF IsPart
<1>3. all = MiniBatchesOf(d)
    BY DEF MiniBatchesOf
<1>4. i \in 1..k /\ k \in Nat \ {0} /\ MiniSize(at) \in Nat \ {0}
    BY MiniSizeIs
<1> HIDE DEF part, k, i
<1>5. /\ all \in Seq(Seq(Row(Resp))) /\ Len(all) = k
      /\ \E g \in [0..k -> Nat] : EndsAt(g, Mini, Share, k) /\ PiecesOf(all, part, g)
    BY <1>1, <1>2, SplitIs DEF k
<1>6. PICK g \in [0..k -> Nat] : EndsAt(g, Mini, Share, k) /\ PiecesOf(all, part, g)
    BY <1>5
<1>7. g = MiniEnds
    BY <1>6 DEF EndsAt, MiniEnds, k
<1>8. MiniBatch(d, at) = all[i]
    BY <1>3, <1>5 DEF MiniBatch, MiniAt, i, k
<1> HIDE DEF all
<1>9. /\ all[i] \in Seq(Row(Resp)) /\ Len(all[i]) = MiniSize(at)
      /\ \A j \in 1..MiniSize(at) : all[i][j] = part[MiniEnds[i - 1] + j]
    <2>1. MiniSize(at) = g[i] - g[i - 1]
        BY <1>7 DEF MiniSize, i
    <2>2. i \in 1..Len(all)
        BY <1>4, <1>5
    <2>3. all[i] \in Seq(Row(Resp))
        BY <1>5, <2>2
    <2>4. /\ Len(all[i]) = g[i] - g[i - 1]
          /\ \A j \in 1..(g[i] - g[i - 1]) : all[i][j] = part[g[i - 1] + j]
        BY <1>6, <2>2 DEF PiecesOf
    <2> QED BY <1>7, <2>1, <2>3, <2>4
<1> QED BY <1>3, <1>5, <1>8, <1>9 DEF IsPart, IsPiece, part, k, i

Minis(at) == {MiniBatch(e, at) : e \in Ranks}

LEMMA MinisAre ==
    ASSUME setting \in Settings, ConfigAccepted, WholeBatch, Mini # 0, NEW at \in Nat \ {0}
    PROVE  AllParts(Minis(at), MiniSize(at))
<1> DEFINE f == [e \in Ranks |-> MiniBatch(e, at)]
<1>1. IsFiniteSet(Ranks)
    <2>1. 0 \in Int /\ Dp(setting) - 1 \in Int
        BY SizesAre
    <2> QED BY <2>1, FS_Interval DEF Ranks
<1>2. Minis(at) = {f[e] : e \in Ranks}
    BY DEF Minis
<1>3. \A o \in Minis(at) : IsPart(o, MiniSize(at))
    BY MiniBatchIs DEF Minis
<1> HIDE DEF f
<1>4. IsFiniteSet(Minis(at))
    BY <1>1, <1>2, FiniteImage
<1> QED BY <1>3, <1>4 DEF AllParts

\* The micro-batches of an optimizer step deal the rows of the rank's mini-batch, and
\* every rank has as many.
LEMMA MicroBatchesAtAre ==
    ASSUME setting \in Settings, ConfigAccepted, WholeBatch, Mini # 0, NEW at \in Nat \ {0},
           NEW d \in Ranks
    PROVE  /\ MicroBatchesAt(d, at) \in Seq(Seq(1..MiniSize(at)))
           /\ Len(MicroBatchesAt(d, at)) = CountOf(Minis(at), MiniSize(at))
           /\ CountOf(Minis(at), MiniSize(at)) \in Nat \ {0}
           /\ Permutes(FlattenSeq(MicroBatchesAt(d, at)), MiniSize(at))
           /\ setting.dynamic =>
                  DealtEvenly(MicroBatchesAt(d, at), Lens(MiniBatch(d, at)),
                              CountOf(Minis(at), MiniSize(at)), MiniSize(at))
           /\ ~setting.dynamic =>
                  MicroBatchesAt(d, at) = SplitBy(OneToOne(MiniSize(at)), Micro)
<1> DEFINE p == MiniBatch(d, at)
           others == Minis(at)
           m == MiniSize(at)
<1>1. AllParts(others, m) /\ m \in Nat \ {0} /\ p \in others
    BY MinisAre, MiniSizeIs DEF Minis
<1>2. MicroBatchesAt(d, at) = MicroBatches(p, others)
    BY DEF MicroBatchesAt, Minis
<1> HIDE DEF p, others, m
<1>3. CountOf(others, m) \in Nat \ {0}
    BY <1>1, CountIs
<1>4. /\ MicroBatches(p, others) \in Seq(Seq(1..m))
      /\ Len(MicroBatches(p, others)) = CountOf(others, m)
      /\ Permutes(FlattenSeq(MicroBatches(p, others)), m)
      /\ setting.dynamic =>
             DealtEvenly(MicroBatches(p, others), Lens(p), CountOf(others, m), m)
      /\ ~setting.dynamic => MicroBatches(p, others) = SplitBy(OneToOne(m), Micro)
    BY <1>1, MicroBatchesAre
<1> QED BY <1>2, <1>3, <1>4 DEF p, others, m

LEMMA UpdateIsInStep ==
    ASSUME setting \in Settings, ConfigAccepted, WholeBatch, Mini # 0, NEW at \in Nat \ {0}
    PROVE  InStep([d \in Ranks |-> MicroBatchesAt(d, at)])
BY MicroBatchesAtAre DEF InStep

\* The responses of a micro-batch and its weight.
MicroUpdate == [rows : Seq(Resp), weight : Seq(Nat)]

LEMMA GradientsAre ==
    ASSUME setting \in Settings, ConfigAccepted, WholeBatch, Mini # 0, NEW at \in Nat \ {0},
           NEW d \in Ranks
    PROVE  Gradients(d, at) \in Seq(MicroUpdate)
<1> DEFINE mine == MiniBatch(d, at)
           micros == MicroBatchesAt(d, at)
           m == MiniSize(at)
           k == CountOf(Minis(at), m)
           G == [j \in DOMAIN micros |->
                    [rows |-> [i \in DOMAIN micros[j] |-> mine[micros[j][i]].resp],
                     weight |-> Weight(micros[j], Len(micros))]]
<1>1. Gradients(d, at) = G
    BY DEF Gradients
<1>2. micros \in Seq(Seq(1..m)) /\ Len(micros) = k /\ k \in Nat
    BY MicroBatchesAtAre
<1>3. IsPart(mine, m) /\ m \in Nat
    BY MiniBatchIs, MiniSizeIs
<1>4. \A i \in 1..m : mine[i].resp \in Resp
    BY <1>3, PartLens
<1>5. DOMAIN micros = 1..k /\ \A j \in 1..k : micros[j] \in Seq(1..m)
    BY <1>2
<1> HIDE DEF micros, mine, m, k
<1>6. ASSUME NEW j \in 1..k
      PROVE  /\ [i \in DOMAIN micros[j] |-> mine[micros[j][i]].resp] \in Seq(Resp)
             /\ Weight(micros[j], Len(micros)) \in Seq(Nat)
    <2> DEFINE q == micros[j]
               l == Len(q)
               f == [i \in 1..l |-> mine[q[i]].resp]
    <2>0. q \in Seq(1..m)
        BY <1>5
    <2> HIDE DEF q
    <2>1. l \in Nat /\ DOMAIN q = 1..l /\ \A i \in 1..l : q[i] \in 1..m
        BY <2>0, LenProperties
    <2> HIDE DEF l
    <2>2. f \in [1..l -> Resp]
        BY <1>4, <2>1
    <2>3. f \in Seq(Resp)
        <3> HIDE DEF f
        <3> QED BY <2>1, <2>2, FunctionIsSeq
    <2>4. Weight(q, k) \in Seq(Nat)
        <3>1. Mini \in Nat /\ (~setting.dynamic => Micro \in Nat \ {0})
            BY SizesAre
        <3>2. CASE setting.backend = "megatron"
            <4>1. ~setting.dynamic
                BY <3>2, SettingIs
            <4>2. Weight(q, k) = <<1, k>>
                BY <3>2, <4>1 DEF Weight
            <4> QED BY <1>2, <4>2
        <3>3. CASE setting.backend # "megatron" /\ setting.dynamic
            BY <2>1, <3>1, <3>3 DEF Weight, l
        <3>4. CASE setting.backend # "megatron" /\ ~setting.dynamic
            <4>1. Mini \div Micro \in Nat
                BY <3>1, <3>4, DivisionOf
            <4>2. Weight(q, k) = <<1, Mini \div Micro>>
                BY <3>4 DEF Weight
            <4> QED BY <4>1, <4>2
        <3> QED BY <3>2, <3>3, <3>4
    <2> QED BY <1>2, <2>1, <2>3, <2>4 DEF q
<1>7. G \in [1..k -> MicroUpdate]
    BY <1>5, <1>6 DEF MicroUpdate
<1> HIDE DEF G
<1> QED BY <1>1, <1>2, <1>7, FunctionIsSeq

-------------------------------------------------------------------------------
(* The inductive invariant: types, and where the batch is in its life *)

Update == [who : {"critic", "actor"}, at : Nat \ {0}, made : BOOLEAN,
           parts : [Ranks -> Seq(MicroUpdate)]]

ValResp == [of : 1..setting.valSize, k : {0}, by : Nat, len : setting.lens]
ValRow == [prompt : 1..setting.valSize, resp : ValResp]

Stages == {"config", "init", "next", "generate", "baseline", "unite", "balance",
           "old_log_prob", "ref", "values", "score", "reward", "advantage",
           "update_critic", "update_actor", "test", "validate", "rejected", "raised", "finished"}

\* Where fit works on a batch with its responses.
Working == {"balance", "old_log_prob", "ref", "values", "score", "reward", "advantage",
            "update_critic", "update_actor", "test"}

PpoTypes ==
    /\ setting \in Settings /\ step \in 0..TotalSteps /\ pc \in Stages
    /\ actor \in Nat /\ engine \in 0..actor
    /\ gen \in Seq(Resp) /\ updates \in Seq(Update) /\ val \in Seq(ValRow)

\* The responses are there once they are united with the batch.
RowTypes == rows \in Seq(IF pc = "unite" THEN Row({{}}) ELSE Row(Resp))

Checked ==
    /\ pc \notin {"config", "rejected"} => ConfigAccepted
    /\ pc \notin {"config", "init", "rejected"} => WorkersStart
    /\ pc = "baseline" => setting.batch % PromptsDivisor(setting) = 0

BatchLengths ==
    /\ pc \in {"config", "init", "generate", "baseline"} => Len(rows) = 0
    /\ pc = "unite" => Len(rows) \in {0, setting.batch}
    /\ pc \in Working => Len(rows) = setting.batch * setting.n
    /\ Len(rows) \in {0, setting.batch, setting.batch * setting.n}
    /\ pc # "unite" => Len(rows) \in {0, setting.batch * setting.n}
    /\ IF pc \in {"baseline", "unite"} THEN Len(gen) = setting.batch * setting.n ELSE Len(gen) = 0

PpoInv == PpoTypes /\ RowTypes /\ Checked /\ BatchLengths /\ RaisesOnlyWhen

\* What depends on the configuration alone.
LEMMA SettingKept ==
    ASSUME setting' = setting
    PROVE  /\ Resp' = Resp /\ (Row({{}}))' = Row({{}}) /\ (Row(Resp))' = Row(Resp)
           /\ Update' = Update /\ ValRow' = ValRow
           /\ ConfigAccepted' = ConfigAccepted /\ WorkersStart' = WorkersStart
<1>1. Resp' = Resp
    BY DEF Resp
<1>2. (Row({{}}))' = Row({{}}) /\ (Row(Resp))' = Row(Resp)
    BY <1>1 DEF Row
<1>3. Ranks' = Ranks /\ MicroUpdate' = MicroUpdate
    BY <1>1 DEF Ranks, MicroUpdate
<1>4. Update' = Update
    BY <1>3 DEF Update
<1>5. ValRow' = ValRow
    BY DEF ValRow, ValResp
<1>6. ConfigAccepted' = ConfigAccepted
    BY DEF ConfigAccepted
<1>7. WorkersStart' = WorkersStart
    BY DEF WorkersStart, Mini, Micro
<1> QED BY <1>1, <1>2, <1>4, <1>5, <1>6, <1>7

LEMMA EmptyIsAny == ASSUME NEW S, NEW s \in Seq(S), Len(s) = 0, NEW T PROVE s \in Seq(T)
<1>1. s = <<>>
    OBVIOUS
<1> QED BY <1>1

LEMMA PpoInit == Init => PpoInv
<1> SUFFICES ASSUME Init PROVE PpoInv
    OBVIOUS
<1>1. /\ setting \in Settings /\ step = 0 /\ pc = "config" /\ actor = 0 /\ engine = 0
      /\ rows = <<>> /\ gen = <<>> /\ updates = <<>> /\ val = <<>>
    BY DEF Init
<1>2. TotalSteps \in Nat
    BY <1>1, SettingIs
<1>3. Len(rows) = 0 /\ Len(gen) = 0
    BY <1>1
<1>4. PpoTypes
    BY <1>1, <1>2 DEF PpoTypes, Stages
<1>5. RowTypes
    BY <1>1 DEF RowTypes
<1>6. Checked
    BY <1>1 DEF Checked
<1>7. BatchLengths
    BY <1>1, <1>3 DEF BatchLengths, Working
<1>8. RaisesOnlyWhen
    BY <1>1 DEF RaisesOnlyWhen
<1> QED BY <1>4, <1>5, <1>6, <1>7, <1>8 DEF PpoInv

LEMMA AtWork ==
    ASSUME PpoInv, pc \in Working
    PROVE  setting \in Settings /\ ConfigAccepted /\ WorkersStart /\ WholeBatch
BY DEF PpoInv, PpoTypes, RowTypes, Checked, BatchLengths, Working, WholeBatch, IsPart

\* A step that leaves the batch alone and does not raise.
LEMMA IdleKeepsInv ==
    ASSUME PpoInv, ValidateConfig \/ InitWorkers \/ NextBatch \/ Test
    PROVE  PpoInv'
<1>1. setting' = setting
    BY DEF ValidateConfig, InitWorkers, NextBatch, Test
<1>2. /\ Resp' = Resp /\ (Row({{}}))' = Row({{}}) /\ (Row(Resp))' = Row(Resp)
      /\ Update' = Update /\ ValRow' = ValRow
      /\ ConfigAccepted' = ConfigAccepted /\ WorkersStart' = WorkersStart
    BY <1>1, SettingKept
<1>3. PpoTypes /\ RowTypes /\ Checked /\ BatchLengths
    BY DEF PpoInv
<1>4. CASE ValidateConfig
    <2>1. /\ pc = "config" /\ pc' = IF ConfigAccepted THEN "init" ELSE "rejected"
          /\ UNCHANGED <<setting, step, gen, rows, actor, engine, updates, val>>
        BY <1>4 DEF ValidateConfig, Go
    <2>2. PpoTypes' /\ RowTypes'
        BY <1>2, <1>3, <2>1 DEF PpoTypes, RowTypes, Stages
    <2>3. Checked'
        BY <1>2, <1>3, <2>1 DEF Checked
    <2>4. BatchLengths'
        BY <1>3, <2>1 DEF BatchLengths, Working
    <2>5. RaisesOnlyWhen'
        BY <2>1 DEF RaisesOnlyWhen
    <2> QED BY <2>2, <2>3, <2>4, <2>5 DEF PpoInv
<1>5. CASE InitWorkers
    <2>1. /\ pc = "init"
          /\ pc' = IF ~WorkersStart THEN "rejected" ELSE IF setting.valBefore THEN "validate" ELSE "next"
          /\ UNCHANGED <<setting, step, gen, rows, actor, engine, updates, val>>
        BY <1>5 DEF InitWorkers, Go
    <2>2. PpoTypes' /\ RowTypes'
        BY <1>2, <1>3, <2>1 DEF PpoTypes, RowTypes, Stages
    <2>3. Checked'
        BY <1>2, <1>3, <2>1 DEF Checked
    <2>4. BatchLengths'
        BY <1>3, <2>1 DEF BatchLengths, Working
    <2>5. RaisesOnlyWhen'
        BY <2>1 DEF RaisesOnlyWhen
    <2> QED BY <2>2, <2>3, <2>4, <2>5 DEF PpoInv
<1>6. CASE NextBatch
    <2>1. /\ pc = "next" /\ pc' = IF step = TotalSteps THEN "finished" ELSE "generate"
          /\ step' = IF step = TotalSteps THEN step ELSE step + 1
          /\ rows' = <<>> /\ updates' = <<>> /\ val' = <<>>
          /\ UNCHANGED <<setting, gen, actor, engine>>
        BY <1>6 DEF NextBatch
    <2>2. PpoTypes'
        <3>1. step \in 0..TotalSteps /\ TotalSteps \in Nat
            BY <1>3, SettingIs DEF PpoTypes
        <3>2. step' \in 0..TotalSteps
            BY <2>1, <3>1
        <3>3. pc' \in Stages
            BY <2>1 DEF Stages
        <3>4. /\ setting' \in Settings /\ actor' \in Nat /\ engine' \in 0..actor'
              /\ gen' \in Seq(Resp)
            BY <1>3, <2>1 DEF PpoTypes
        <3>5. updates' \in Seq(Update) /\ val' \in Seq(ValRow)
            BY <2>1
        <3> QED BY <1>2, <3>2, <3>3, <3>4, <3>5 DEF PpoTypes
    <2>3. RowTypes' /\ Len(rows') = 0
        <3>1. rows' \in Seq(Row(Resp)) /\ Len(rows') = 0 /\ pc' # "unite"
            BY <2>1
        <3> QED BY <1>2, <3>1 DEF RowTypes
    <2>4. Checked'
        BY <1>2, <1>3, <2>1 DEF Checked
    <2>5. BatchLengths'
        BY <1>3, <2>1, <2>3 DEF BatchLengths, Working
    <2>6. RaisesOnlyWhen'
        BY <2>1 DEF RaisesOnlyWhen
    <2> QED BY <2>2, <2>3, <2>4, <2>5, <2>6 DEF PpoInv
<1>7. CASE Test
    <2>1. /\ pc = "test" /\ pc' \in {"validate", "next"}
          /\ UNCHANGED <<setting, step, gen, rows, actor, engine, updates, val>>
        BY <1>7 DEF Test, Go
    <2>2. PpoTypes' /\ RowTypes'
        BY <1>2, <1>3, <2>1 DEF PpoTypes, RowTypes, Stages
    <2>3. Checked'
        BY <1>2, <1>3, <2>1 DEF Checked
    <2>4. BatchLengths'
        BY <1>3, <2>1 DEF BatchLengths, Working
    <2>5. RaisesOnlyWhen'
        BY <2>1 DEF RaisesOnlyWhen
    <2> QED BY <2>2, <2>3, <2>4, <2>5 DEF PpoInv
<1> QED BY <1>4, <1>5, <1>6, <1>7

\* Everything stays but the stage, which is one fit raises in, for a reason.
LEMMA RaiseKeepsInv ==
    ASSUME PpoInv, pc \notin {"config", "init", "rejected", "baseline", "unite"},
           pc' = "raised", UNCHANGED <<setting, step, gen, rows, actor, engine, updates, val>>,
           RaisesOnlyWhen'
    PROVE  PpoInv'
<1>1. /\ Resp' = Resp /\ (Row({{}}))' = Row({{}}) /\ (Row(Resp))' = Row(Resp)
      /\ Update' = Update /\ ValRow' = ValRow
      /\ ConfigAccepted' = ConfigAccepted /\ WorkersStart' = WorkersStart
    BY SettingKept
<1>2. PpoTypes /\ RowTypes /\ Checked /\ BatchLengths
    BY DEF PpoInv
<1>3. PpoTypes' /\ RowTypes'
    BY <1>1, <1>2 DEF PpoTypes, RowTypes, Stages
<1>4. Checked'
    BY <1>1, <1>2 DEF Checked
<1>5. BatchLengths'
    BY <1>2 DEF BatchLengths, Working
<1> QED BY <1>3, <1>4, <1>5 DEF PpoInv

\* A number of rows that the ranks can share is one the engines can share.
LEMMA DivisorIs ==
    ASSUME NEW l, IsLayout(l), EngineFits(l)
    PROVE  /\ PromptsDivisor(l) \in Nat \ {0}
           /\ \A x \in Nat : x % l.world = 0 => x % PromptsDivisor(l) = 0
<1> DEFINE w == l.world
           N == Dp(l) * l.pp
           k == MicroDp(l)
           u == l.infer
           P == PromptsDivisor(l)
<1>1. w \in Nat \ {0} /\ u \in Nat \ {0} /\ l.tp \in Nat \ {0}
    BY DEF IsLayout
<1>2. CASE l.backend = "fsdp"
    BY <1>1, <1>2 DEF PromptsDivisor
<1>3. CASE l.backend = "megatron"
    <2>1. /\ N \in Nat /\ w = N * l.tp /\ l.tp % u = 0 /\ P = N * k
        <3> DEFINE D == Dp(l)
                   p == l.pp
        <3>1. D \in Nat /\ p \in Nat
            BY DEF IsLayout
        <3> HIDE DEF D, p
        <3>2. D * p \in Nat
            BY <3>1
        <3>3. w = (D * p) * l.tp /\ l.tp % u = 0 /\ P = (D * p) * k
            BY <1>3 DEF IsLayout, EngineFits, PromptsDivisor, D, p
        <3> QED BY <3>2, <3>3 DEF D, p
    <2>2. k \in Nat /\ l.tp = k * u
        <3> DEFINE t == l.tp
        <3>1. t \in Nat /\ t % u = 0 /\ k = t \div u
            BY <1>1, <2>1 DEF MicroDp
        <3> HIDE DEF t, u, k
        <3>2. k \in Nat /\ t = k * u
            BY <1>1, <3>1, NoRemainder
        <3> QED BY <3>2 DEF t
    <2> HIDE DEF N, k, w, u, P
    <2>3. P \in Nat /\ w = P * u
        <3>1. N * k \in Nat
            BY <2>1, <2>2
        <3>2. w = (N * k) * u
            BY <1>1, <2>1, <2>2
        <3> QED BY <2>1, <3>1, <3>2
    <2>4. P # 0
        <3> SUFFICES ASSUME P = 0 PROVE FALSE
            OBVIOUS
        <3>1. P * u = 0
            BY <1>1
        <3> QED BY <1>1, <2>3, <3>1
    <2>5. ASSUME NEW x \in Nat, x % w = 0 PROVE x % P = 0
        <3> DEFINE y == x \div w
        <3>1. y \in Nat /\ x = y * w
            BY <1>1, <2>5, NoRemainder
        <3> HIDE DEF y
        <3> DEFINE z == y * u
        <3>2. z \in Nat /\ x = z * P
            BY <1>1, <2>3, <3>1
        <3> HIDE DEF z
        <3>3. P \in Nat \ {0}
            BY <2>3, <2>4
        <3>4. (z * P) % P = 0
            BY <3>2, <3>3, NoneRemains
        <3> QED BY <3>2, <3>4
    <2> QED BY <2>3, <2>4, <2>5 DEF P, w
<1> QED BY <1>2, <1>3 DEF IsLayout

LEMMA PromptsAre ==
    ASSUME setting \in Settings
    PROVE  /\ Prompts \in Seq(1..setting.batch) /\ Len(Prompts) = setting.batch
           /\ DOMAIN Prompts = 1..setting.batch /\ \A p \in 1..setting.batch : Prompts[p] = p
<1>1. setting.batch \in Nat
    BY SettingIs
<1>2. Prompts \in [1..setting.batch -> 1..setting.batch]
    BY DEF Prompts
<1> QED BY <1>1, <1>2, FunctionIsSeq DEF Prompts

\* The answers to the prompts of a batch, of the given lengths.
AnswersOf(lens) ==
    [p \in 1..setting.batch |->
        [k \in 1..setting.n |-> Response(p, k, Synced, lens[(p - 1) * setting.n + k])]]

LEMMA AnswersOfAre ==
    ASSUME setting \in Settings, actor \in Nat,
           NEW lens \in [1..(setting.batch * setting.n) -> setting.lens]
    PROVE  AnswersAre(AnswersOf(lens), setting.batch, Resp, setting.n)
<1> DEFINE b == setting.batch
           n == setting.n
<1>1. b \in Nat /\ n \in Nat
    BY SettingIs
<1>2. ASSUME NEW p \in 1..b, NEW k \in 1..n
      PROVE  Response(p, k, Synced, lens[(p - 1) * n + k]) \in Resp
    <2>1. (p - 1) * n + k \in 1..(b * n)
        <3> HIDE DEF b, n
        <3>1. p - 1 \in 0..(b - 1)
            BY <1>1
        <3> QED BY <1>1, <3>1, InBlock
    <2>2. lens[(p - 1) * n + k] \in setting.lens
        BY <2>1
    <2>3. k \in 0..n
        BY <1>1
    <2> QED BY <2>2, <2>3 DEF Response, Synced, Resp
<1>3. ASSUME NEW p \in 1..b
      PROVE  AnswersOf(lens)[p] \in Seq(Resp) /\ Len(AnswersOf(lens)[p]) = n
    <2> DEFINE a == [k \in 1..n |-> Response(p, k, Synced, lens[(p - 1) * n + k])]
    <2>1. AnswersOf(lens)[p] = a
        BY DEF AnswersOf
    <2>2. a \in [1..n -> Resp]
        BY <1>2
    <2> HIDE DEF a
    <2> QED BY <1>1, <2>1, <2>2, FunctionIsSeq
<1>4. AnswersOf(lens) \in [1..b -> Seq(Resp)]
    <2>1. AnswersOf(lens) = [p \in 1..b |-> AnswersOf(lens)[p]]
        BY DEF AnswersOf
    <2> QED BY <1>3, <2>1
<1> QED BY <1>3, <1>4 DEF AnswersAre

LEMMA EngineIs ==
    ASSUME setting \in Settings, WorkersStart
    PROVE  IsLayout(setting) /\ EngineFits(setting)
BY SettingsAreLayouts DEF EngineFits, WorkersStart

LEMMA GenerateKeepsInv ==
    ASSUME PpoInv, Generate
    PROVE  PpoInv'
<1>1. setting' = setting /\ pc = "generate"
    BY DEF Generate
<1>2. /\ Resp' = Resp /\ (Row({{}}))' = Row({{}}) /\ (Row(Resp))' = Row(Resp)
      /\ Update' = Update /\ ValRow' = ValRow
      /\ ConfigAccepted' = ConfigAccepted /\ WorkersStart' = WorkersStart
    BY <1>1, SettingKept
<1>3. PpoTypes /\ RowTypes /\ Checked /\ BatchLengths
    BY DEF PpoInv
<1>4. setting \in Settings /\ ConfigAccepted /\ WorkersStart /\ actor \in Nat
    BY <1>1, <1>3 DEF PpoTypes, Checked
<1>5. IsLayout(setting) /\ EngineFits(setting)
    BY <1>4, EngineIs
<1>6. CASE setting.batch % PromptsDivisor(setting) # 0
    <2>1. pc' = "raised" /\ UNCHANGED <<setting, step, gen, rows, actor, engine, updates, val>>
        BY <1>1, <1>6 DEF Generate, Raise
    <2>2. setting.batch % setting.world # 0
        BY <1>4, <1>5, <1>6, DivisorIs, SettingIs
    <2>3. RaisesOnlyWhen'
        BY <2>1, <2>2 DEF RaisesOnlyWhen
    <2> QED BY <1>1, <2>1, <2>3, RaiseKeepsInv
<1>7. CASE setting.batch % PromptsDivisor(setting) = 0
    <2>1. PICK lens \in [1..(setting.batch * setting.n) -> setting.lens] :
              gen' = Generations(setting, Prompts, AnswersOf(lens))
        BY <1>7 DEF Generate, AnswersOf
    <2>2. /\ engine' = actor /\ pc' \in {"baseline", "unite"} /\ UNCHANGED <<step, actor>>
          /\ UNCHANGED <<rows, updates, val>>
        BY <1>7 DEF Generate, Go, Synced
    <2>3. gen' \in Seq(Resp) /\ Len(gen') = setting.batch * setting.n
        <3> DEFINE q == Prompts
                   l == setting
                   n == setting.n
                   p == setting.batch
        <3>0. Len(q) = p
            BY <1>4, PromptsAre
        <3>1. q \in Seq(1..p)
            BY <1>4, PromptsAre
        <3>2. p \in Nat /\ n \in Nat
            BY <1>4, SettingIs
        <3>3. AnswersAre(AnswersOf(lens), p, Resp, n)
            BY <1>4, AnswersOfAre
        <3>4. Len(q) % PromptsDivisor(l) = 0
            BY <1>7, <3>0
        <3>5. IsLayout(l) /\ EngineFits(l)
            BY <1>5
        <3> DEFINE answers == AnswersOf(lens)
        <3>6. AnswersAre(answers, p, Resp, n)
            BY <3>3
        <3> HIDE DEF answers, q, n, p
        <3>7. /\ Generations(l, q, answers) \in Seq(Resp)
              /\ Len(Generations(l, q, answers)) = Len(q) * n
            BY <3>1, <3>2, <3>4, <3>5, <3>6, GenerationsAre
        <3>8. gen' \in Seq(Resp) /\ Len(gen') = p * n
            BY <2>1, <3>0, <3>7 DEF answers, q
        <3> QED BY <3>8 DEF n, p
    <2>4. PpoTypes'
        BY <1>1, <1>2, <1>3, <2>2, <2>3 DEF PpoTypes, Stages
    <2>5. rows' \in Seq(Row({{}})) /\ rows' \in Seq(Row(Resp)) /\ Len(rows') = 0
        <3>1. rows \in Seq(Row(Resp)) /\ Len(rows) = 0
            BY <1>1, <1>3 DEF RowTypes, BatchLengths
        <3> QED BY <2>2, <3>1, EmptyIsAny
    <2>6. RowTypes'
        BY <1>2, <2>5 DEF RowTypes
    <2>7. Checked'
        BY <1>1, <1>2, <1>3, <1>7, <2>2 DEF Checked
    <2>8. BatchLengths'
        BY <1>1, <2>2, <2>3, <2>5 DEF BatchLengths, Working
    <2>9. RaisesOnlyWhen'
        BY <2>2 DEF RaisesOnlyWhen
    <2> QED BY <2>4, <2>6, <2>7, <2>8, <2>9 DEF PpoInv
<1> QED BY <1>6, <1>7

Greedy == [p \in DOMAIN Prompts |-> <<Response(p, 0, Synced, Width)>>]

LEMMA GreedyAre ==
    ASSUME setting \in Settings, actor \in Nat
    PROVE  AnswersAre(Greedy, setting.batch, Resp, 1)
<1>1. DOMAIN Prompts = 1..setting.batch /\ setting.n \in Nat
    BY PromptsAre, SettingIs
<1>2. \A p \in 1..setting.batch : Response(p, 0, Synced, Width) \in Resp
    BY <1>1, WidthIs DEF Response, Synced, Resp
<1> QED BY <1>1, <1>2 DEF AnswersAre, Greedy

LEMMA GenerateBaselineKeepsInv ==
    ASSUME PpoInv, GenerateBaseline
    PROVE  PpoInv'
<1>1. setting' = setting /\ pc = "baseline" /\ pc' = "unite"
    BY DEF GenerateBaseline, Go
<1>2. /\ Resp' = Resp /\ (Row({{}}))' = Row({{}}) /\ (Row(Resp))' = Row(Resp)
      /\ Update' = Update /\ ValRow' = ValRow
      /\ ConfigAccepted' = ConfigAccepted /\ WorkersStart' = WorkersStart
    BY <1>1, SettingKept
<1>3. PpoTypes /\ RowTypes /\ Checked /\ BatchLengths
    BY DEF PpoInv
<1>4. setting \in Settings /\ actor \in Nat /\ setting.batch \in Nat
    BY <1>3, SettingIs DEF PpoTypes
<1> DEFINE greedy == Generations(setting, Prompts, Greedy)
<1>5. rows' = [i \in DOMAIN Prompts |-> [NewRow(i) EXCEPT !.base = {greedy[i]}]]
    BY DEF GenerateBaseline, Greedy
<1>6. UNCHANGED <<step, actor, gen, updates, val>> /\ engine' = actor
    BY DEF GenerateBaseline, Go, Synced
<1>7. ASSUME NEW i \in 1..setting.batch PROVE greedy[i] \in Resp
    <2> DEFINE q == Prompts
               l == setting
               p == setting.batch
    <2>1. Len(q) = p /\ q \in Seq(1..p)
        BY <1>4, PromptsAre
    <2>2. IsLayout(l) /\ EngineFits(l)
        BY <1>1, <1>3, <1>4, EngineIs DEF Checked
    <2>3. AnswersAre(Greedy, p, Resp, 1)
        BY <1>4, GreedyAre
    <2>4. Len(q) % PromptsDivisor(l) = 0
        BY <1>1, <1>3, <2>1 DEF Checked
    <2>5. p \in Nat /\ 1 \in Nat
        BY <1>4
    <2> HIDE DEF q, p
    <2>6. /\ Generations(l, q, Greedy) \in Seq(Resp)
          /\ Len(Generations(l, q, Greedy)) = Len(q) * 1
        BY <2>1, <2>2, <2>3, <2>4, <2>5, GenerationsAre
    <2>7. i \in 1..Len(greedy)
        BY <2>1, <2>5, <2>6 DEF q, p
    <2> QED BY <2>6, <2>7 DEF q
<1> HIDE DEF greedy
<1>8. rows' \in Seq(Row({{}})) /\ Len(rows') = setting.batch
    <2>1. DOMAIN Prompts = 1..setting.batch
        BY <1>4, PromptsAre
    <2>2. ASSUME NEW i \in 1..setting.batch
          PROVE  [NewRow(i) EXCEPT !.base = {greedy[i]}] \in Row({{}})
        BY <1>7 DEF NewRow, Row
    <2>3. rows' \in [1..setting.batch -> Row({{}})]
        BY <1>5, <2>1, <2>2
    <2> QED BY <1>4, <2>3, FunctionIsSeq
<1>9. PpoTypes'
    BY <1>1, <1>2, <1>3, <1>6 DEF PpoTypes, Stages
<1>10. RowTypes'
    BY <1>1, <1>2, <1>8 DEF RowTypes
<1>11. Checked'
    BY <1>1, <1>2, <1>3 DEF Checked
<1>12. BatchLengths'
    BY <1>1, <1>3, <1>6, <1>8 DEF BatchLengths, Working
<1>13. RaisesOnlyWhen'
    BY <1>1 DEF RaisesOnlyWhen
<1> QED BY <1>9, <1>10, <1>11, <1>12, <1>13 DEF PpoInv

\* What the responses are united with.
Asked == IF rows = <<>> THEN [p \in DOMAIN Prompts |-> NewRow(p)] ELSE rows

LEMMA AskedIs ==
    ASSUME PpoInv, pc = "unite"
    PROVE  Asked \in [1..setting.batch -> Row({{}})] /\ Len(Asked) = setting.batch
<1>1. /\ setting \in Settings /\ setting.batch \in Nat \ {0} /\ rows \in Seq(Row({{}}))
      /\ Len(rows) \in {0, setting.batch}
    BY SettingIs DEF PpoInv, PpoTypes, RowTypes, BatchLengths
<1>2. CASE rows = <<>>
    <2>1. DOMAIN Prompts = 1..setting.batch
        BY <1>1, PromptsAre
    <2>2. \A p \in 1..setting.batch : NewRow(p) \in Row({{}})
        BY DEF NewRow, Row
    <2>3. Asked \in [1..setting.batch -> Row({{}})]
        BY <1>2, <2>1, <2>2 DEF Asked
    <2>4. setting.batch \in Nat
        BY <1>1
    <2> QED BY <2>3, <2>4, FunctionIsSeq
<1>3. CASE rows # <<>>
    <2>1. Len(rows) # 0
        BY <1>1, <1>3
    <2>2. Asked = rows /\ Len(rows) = setting.batch
        BY <1>1, <1>3, <2>1 DEF Asked
    <2>3. rows \in [1..Len(rows) -> Row({{}})]
        BY <1>1
    <2> QED BY <2>2, <2>3
<1> QED BY <1>2, <1>3

\* The prompt, of the batch, that row i repeats.
PromptOf(i) == ((i - 1) \div setting.n) + 1

LEMMA PromptOfIs ==
    ASSUME setting \in Settings, NEW i \in 1..(setting.batch * setting.n)
    PROVE  PromptOf(i) \in 1..setting.batch
<1> DEFINE b == setting.batch
           n == setting.n
           x == i - 1
<1>1. b \in Nat \ {0} /\ n \in Nat \ {0}
    BY SettingIs
<1>2. x \in Nat /\ x < b * n
    <2> HIDE DEF b, n
    <2>1. b * n \in Nat
        BY <1>1
    <2> QED BY <2>1 DEF b, n
<1> HIDE DEF b, n, x
<1>3. x \div n \in Nat /\ x \div n < b
    BY <1>1, <1>2, DivisionOf
<1>4. PromptOf(i) = (x \div n) + 1
    BY DEF PromptOf, x, n
<1> DEFINE d == x \div n
<1> HIDE DEF d
<1>5. d \in Nat /\ d < b /\ PromptOf(i) = d + 1
    BY <1>3, <1>4 DEF d
<1>6. d + 1 \in 1..b
    BY <1>1, <1>5
<1> QED BY <1>5, <1>6 DEF b

LEMMA UnitedRows ==
    ASSUME PpoInv, UniteResponses
    PROVE  /\ rows' \in [1..(setting.batch * setting.n) -> Row(Resp)]
           /\ rows' \in Seq(Row(Resp)) /\ Len(rows') = setting.batch * setting.n
           /\ \A i \in 1..(setting.batch * setting.n) :
                  /\ PromptOf(i) \in 1..setting.batch
                  /\ rows'[i] = [Asked[PromptOf(i)] EXCEPT !.resp = gen[i]]
<1> DEFINE m == setting.batch * setting.n
           b == setting.batch
           n == setting.n
           repeated == Repeat(Asked, n)
<1>1. pc = "unite" /\ setting \in Settings /\ gen \in Seq(Resp) /\ Len(gen) = m
    BY DEF PpoInv, PpoTypes, BatchLengths, UniteResponses
<1>2. m \in Nat
    <2>1. b \in Nat /\ n \in Nat
        BY <1>1, SettingIs
    <2> HIDE DEF b, n
    <2>2. b * n \in Nat
        BY <2>1
    <2> QED BY <2>2 DEF b, n
<1>3. Asked \in [1..b -> Row({{}})] /\ Len(Asked) = b
    BY <1>1, AskedIs
<1>4. repeated = [i \in 1..m |-> Asked[PromptOf(i)]]
    BY <1>3 DEF Repeat, PromptOf
<1>5. rows' = [i \in DOMAIN repeated |-> [repeated[i] EXCEPT !.resp = gen[i]]]
    BY DEF UniteResponses, Asked
<1>6. rows' = [i \in 1..m |-> [Asked[PromptOf(i)] EXCEPT !.resp = gen[i]]]
    <2>1. DOMAIN repeated = 1..m /\ \A i \in 1..m : repeated[i] = Asked[PromptOf(i)]
        BY <1>4
    <2> HIDE DEF repeated, m
    <2> QED BY <1>5, <2>1
<1>7. ASSUME NEW i \in 1..m
      PROVE  PromptOf(i) \in 1..b /\ [Asked[PromptOf(i)] EXCEPT !.resp = gen[i]] \in Row(Resp)
    <2>1. PromptOf(i) \in 1..b
        BY <1>1, PromptOfIs
    <2>2. gen[i] \in Resp
        BY <1>1
    <2> DEFINE r == Asked[PromptOf(i)]
    <2>3. r \in Row({{}})
        BY <1>3, <2>1
    <2> HIDE DEF r
    <2>4. [r EXCEPT !.resp = gen[i]] \in Row(Resp)
        BY <2>2, <2>3 DEF Row
    <2> QED BY <2>1, <2>4 DEF r
<1> HIDE DEF m, b, n
<1>8. rows' \in [1..m -> Row(Resp)]
    BY <1>6, <1>7
<1>9. rows' \in Seq(Row(Resp)) /\ Len(rows') = m
    BY <1>2, <1>8, FunctionIsSeq
<1> QED BY <1>6, <1>7, <1>8, <1>9 DEF m, b, n

LEMMA UniteKeepsInv ==
    ASSUME PpoInv, UniteResponses
    PROVE  PpoInv'
<1>1. setting' = setting /\ pc = "unite" /\ pc' \in {"balance", "old_log_prob"} /\ gen' = <<>>
    BY DEF UniteResponses, Go
<1>2. /\ Resp' = Resp /\ (Row({{}}))' = Row({{}}) /\ (Row(Resp))' = Row(Resp)
      /\ Update' = Update /\ ValRow' = ValRow
      /\ ConfigAccepted' = ConfigAccepted /\ WorkersStart' = WorkersStart
    BY <1>1, SettingKept
<1>3. PpoTypes /\ RowTypes /\ Checked /\ BatchLengths
    BY DEF PpoInv
<1>4. UNCHANGED <<step, actor, engine, updates, val>>
    BY DEF UniteResponses, Go
<1>5. rows' \in Seq(Row(Resp)) /\ Len(rows') = setting.batch * setting.n
    BY UnitedRows
<1>6. gen' \in Seq(Resp) /\ Len(gen') = 0
    BY <1>1
<1>7. PpoTypes'
    BY <1>1, <1>2, <1>3, <1>4, <1>6 DEF PpoTypes, Stages
<1>8. RowTypes'
    BY <1>1, <1>2, <1>5 DEF RowTypes
<1>9. Checked'
    BY <1>1, <1>2, <1>3 DEF Checked
<1>10. BatchLengths'
    BY <1>1, <1>5, <1>6 DEF BatchLengths, Working
<1>11. RaisesOnlyWhen'
    BY <1>1 DEF RaisesOnlyWhen
<1> QED BY <1>7, <1>8, <1>9, <1>10, <1>11 DEF PpoInv

-------------------------------------------------------------------------------
(* The steps on a batch that has its responses *)

LEMMA RowsAre ==
    ASSUME setting \in Settings, WholeBatch
    PROVE  /\ DOMAIN rows = 1..(setting.batch * setting.n)
           /\ Len(rows) = setting.batch * setting.n /\ setting.batch * setting.n \in Nat
           /\ \A i \in DOMAIN rows : rows[i] \in Row(Resp)
<1> DEFINE m == setting.batch * setting.n
<1>1. rows \in Seq(Row(Resp)) /\ Len(rows) = m
    BY DEF WholeBatch, IsPart
<1> HIDE DEF m
<1>2. DOMAIN rows = 1..m /\ m \in Nat /\ \A i \in 1..m : rows[i] \in Row(Resp)
    BY <1>1, LenProperties
<1> QED BY <1>1, <1>2 DEF m

\* Another row in every place.
LEMMA NewRowsAre ==
    ASSUME setting \in Settings, WholeBatch, NEW f \in [DOMAIN rows -> Row(Resp)]
    PROVE  f \in Seq(Row(Resp)) /\ Len(f) = setting.batch * setting.n
<1> DEFINE m == setting.batch * setting.n
<1>1. DOMAIN rows = 1..m /\ m \in Nat
    BY RowsAre
<1> HIDE DEF m
<1>2. f \in [1..m -> Row(Resp)]
    BY <1>1
<1>3. f \in Seq(Row(Resp)) /\ Len(f) = m
    BY <1>1, <1>2, FunctionIsSeq
<1> QED BY <1>3 DEF m

LEMMA WorkKeepsInv ==
    ASSUME PpoInv, pc \in Working, pc' \in Working,
           UNCHANGED <<setting, step, gen, actor, engine, updates, val>>,
           rows' \in Seq(Row(Resp)), Len(rows') = setting.batch * setting.n
    PROVE  PpoInv'
<1>1. /\ Resp' = Resp /\ (Row({{}}))' = Row({{}}) /\ (Row(Resp))' = Row(Resp)
      /\ Update' = Update /\ ValRow' = ValRow
      /\ ConfigAccepted' = ConfigAccepted /\ WorkersStart' = WorkersStart
    BY SettingKept
<1>2. PpoTypes /\ Checked /\ BatchLengths
    BY DEF PpoInv
<1>3. PpoTypes'
    BY <1>1, <1>2 DEF PpoTypes, Stages, Working
<1>4. RowTypes'
    BY <1>1 DEF RowTypes, Working
<1>5. Checked'
    BY <1>1, <1>2 DEF Checked, Working
<1>6. BatchLengths'
    BY <1>2 DEF BatchLengths, Working
<1>7. RaisesOnlyWhen'
    BY DEF RaisesOnlyWhen, Working
<1> QED BY <1>3, <1>4, <1>5, <1>6, <1>7 DEF PpoInv

\* The order the batch is put in.
LEMMA BalanceOrderIs ==
    ASSUME setting \in Settings, ConfigAccepted, WholeBatch
    PROVE  /\ Permutes(BalanceOrder(Lens(rows)), setting.batch * setting.n)
           /\ PartsOf(BalancedPartitions(Lens(rows), setting.world, TRUE), setting.world,
                      setting.batch * setting.n)
           /\ Even(Lens(rows), BalancedPartitions(Lens(rows), setting.world, TRUE),
                   setting.world, Width)
           /\ PartsShape(BalancedPartitions(Lens(rows), setting.world, TRUE), setting.world, TRUE)
<1> DEFINE m == setting.batch * setting.n
           w == setting.world
           lens == Lens(rows)
<1>1. m \in Nat \ {0} /\ w \in Nat \ {0} /\ Width \in Int
    BY SizesAre, SettingIs, WidthIs
<1>2. lens \in [1..m -> Nat \ {0}] /\ NoneLonger(lens, m, Width)
    BY <1>1, PartLens DEF WholeBatch
<1>3. IsMultiple(m, w)
    <2>1. m % w = 0
        BY DEF ConfigAccepted
    <2> HIDE DEF m, w
    <2>2. m \div w \in Nat /\ m = (m \div w) * w
        BY <1>1, <2>1, NoRemainder
    <2> QED BY <2>2 DEF IsMultiple
<1> DEFINE parts == BalancedPartitions(lens, w, TRUE)
<1> HIDE DEF m, w, lens
<1>4. PartsOf(parts, w, m) /\ Even(lens, parts, w, Width) /\ PartsShape(parts, w, TRUE)
    BY <1>1, <1>2, <1>3, BalancedPartitionsDeal
<1>5. BalanceOrder(lens) = FlattenSeq(parts)
    BY DEF BalanceOrder, w
<1> HIDE DEF parts
<1>6. Permutes(FlattenSeq(parts), m)
    <2>1. m \in Nat /\ w \in Nat
        BY <1>1
    <2> QED BY <1>4, <2>1, FlattenPermutes
<1> QED BY <1>4, <1>5, <1>6 DEF m, w, lens, parts

LEMMA BalancedRows ==
    ASSUME PpoInv, BalanceBatch
    PROVE  /\ rows' \in Seq(Row(Resp)) /\ Len(rows') = setting.batch * setting.n
           /\ rows' = [i \in DOMAIN rows |-> rows[BalanceOrder(Lens(rows))[i]]]
           /\ Permutes(BalanceOrder(Lens(rows)), Len(rows))
<1> DEFINE m == setting.batch * setting.n
           order == BalanceOrder(Lens(rows))
<1>1. setting \in Settings /\ ConfigAccepted /\ WholeBatch
    BY AtWork DEF BalanceBatch, Working
<1>2. Permutes(order, m) /\ DOMAIN rows = 1..m /\ Len(rows) = m
    BY <1>1, BalanceOrderIs, RowsAre
<1>3. rows' = [i \in DOMAIN order |-> rows[order[i]]]
    BY DEF BalanceBatch, Reorder
<1> HIDE DEF order, m
<1>4. DOMAIN order = DOMAIN rows /\ \A i \in DOMAIN rows : order[i] \in DOMAIN rows
    BY <1>2 DEF Permutes
<1>5. \A i \in DOMAIN rows : rows[i] \in Row(Resp)
    BY <1>1, RowsAre
<1>6. rows' \in [DOMAIN rows -> Row(Resp)]
    BY <1>3, <1>4, <1>5
<1>7. rows' \in Seq(Row(Resp)) /\ Len(rows') = setting.batch * setting.n
    BY <1>1, <1>6, NewRowsAre
<1> QED BY <1>2, <1>3, <1>4, <1>7 DEF order

LEMMA BalanceKeepsInv == ASSUME PpoInv, BalanceBatch PROVE PpoInv'
<1>1. UNCHANGED <<setting, step, gen, actor, engine, updates, val>>
    BY DEF BalanceBatch, Go
<1>2. pc \in Working /\ pc' \in Working
    BY DEF BalanceBatch, Go, Working
<1>3. rows' \in Seq(Row(Resp)) /\ Len(rows') = setting.batch * setting.n
    BY BalancedRows
<1> QED BY <1>1, <1>2, <1>3, WorkKeepsInv

\* The reasons to raise, in terms of the sizes.
Reasons ==
    \/ setting.batch % setting.world # 0
    \/ ~setting.saves
    \/ setting.dynamic /\ Limit < Width
    \/ /\ setting.backend = "megatron"
       /\ \/ ~setting.finite \/ Mini = 0
          \/ Share % Micro # 0 \/ Share % Mini # 0 \/ Mini % Micro # 0

LEMMA ReasonsAre == ASSUME setting' = setting, Reasons PROVE RaisesOnlyWhen'
BY DEF Reasons, RaisesOnlyWhen, Mini, Micro, Share, Limit, Width

LEMMA FirstRankIs ==
    ASSUME setting \in Settings, ConfigAccepted, WholeBatch
    PROVE  0 \in Ranks /\ Len(LocalRows(setting, rows, 0)) = Share
<1>1. 0 \in Ranks
    BY SizesAre DEF Ranks
<1> DEFINE z == 0
<1>2. z \in Ranks
    BY <1>1
<1> HIDE DEF z
<1>3. IsPart(LocalRows(setting, rows, z), Share)
    BY <1>2, LocalsAre
<1>4. Len(LocalRows(setting, rows, z)) = Share
    BY <1>3 DEF IsPart
<1> QED BY <1>1, <1>4 DEF z

LEMMA ForwardReasons ==
    ASSUME setting \in Settings, ConfigAccepted, WholeBatch, ForwardRaises
    PROVE  Reasons
<1>1. Len(LocalRows(setting, rows, 0)) = Share
    BY FirstRankIs
<1> QED BY <1>1 DEF ForwardRaises, Reasons, Limit

\* The log-probabilities of the rows, under one version of the policy.
Computed(by) == [i \in DOMAIN rows |-> {[of |-> rows[i].resp, under |-> by]}]

WithOld == [i \in DOMAIN rows |-> [rows[i] EXCEPT !.old = Computed(actor)[i]]]
WithRef == [i \in DOMAIN rows |-> [rows[i] EXCEPT !.ref = Computed(0)[i]]]

LEMMA ComputedIs ==
    ASSUME setting \in Settings, WholeBatch, NEW by \in Nat, NEW i \in DOMAIN rows
    PROVE  Computed(by)[i] \in SUBSET [of : Resp, under : Nat]
<1>1. rows[i] \in Row(Resp)
    BY RowsAre
<1>2. rows[i].resp \in Resp
    BY <1>1 DEF Row
<1> QED BY <1>2 DEF Computed

LEMMA WithOldIs ==
    ASSUME setting \in Settings, WholeBatch, actor \in Nat
    PROVE  WithOld \in [DOMAIN rows -> Row(Resp)]
<1>1. ASSUME NEW i \in DOMAIN rows
      PROVE  [rows[i] EXCEPT !.old = Computed(actor)[i]] \in Row(Resp)
    <2> DEFINE c == Computed(actor)[i]
               r == rows[i]
    <2>1. c \in SUBSET [of : Resp, under : Nat] /\ r \in Row(Resp)
        BY ComputedIs, RowsAre
    <2> HIDE DEF c, r
    <2>2. [r EXCEPT !.old = c] \in Row(Resp)
        BY <2>1 DEF Row
    <2> QED BY <2>2 DEF c, r
<1> QED BY <1>1 DEF WithOld

LEMMA WithRefIs ==
    ASSUME setting \in Settings, WholeBatch
    PROVE  WithRef \in [DOMAIN rows -> Row(Resp)]
<1>1. ASSUME NEW i \in DOMAIN rows
      PROVE  [rows[i] EXCEPT !.ref = Computed(0)[i]] \in Row(Resp)
    <2> DEFINE c == Computed(0)[i]
               r == rows[i]
    <2>1. c \in SUBSET [of : Resp, under : Nat] /\ r \in Row(Resp)
        BY ComputedIs, RowsAre
    <2> HIDE DEF c, r
    <2>2. [r EXCEPT !.ref = c] \in Row(Resp)
        BY <2>1 DEF Row
    <2> QED BY <2>2 DEF c, r
<1> QED BY <1>1 DEF WithRef

LEMMA OldLogProbRows ==
    ASSUME PpoInv, OldLogProb
    PROVE  \/ ForwardRaises /\ Raise /\ setting' = setting
           \/ /\ rows' = WithOld /\ pc' = "ref"
              /\ UNCHANGED <<setting, step, gen, actor, engine, updates, val>>
<1>1. setting \in Settings /\ ConfigAccepted /\ WholeBatch
    BY AtWork DEF OldLogProb, Working
<1>2. CASE ForwardRaises
    BY <1>2 DEF OldLogProb
<1>3. CASE ~ForwardRaises
    <2>1. /\ rows' = [i \in DOMAIN rows |->
                        [rows[i] EXCEPT !.old = {[of |-> LogProbsCollected[i], under |-> actor]}]]
          /\ pc' = "ref" /\ UNCHANGED <<setting, step, gen, actor, engine, updates, val>>
        BY <1>3 DEF OldLogProb, Go, LogProbsCollected
    <2>2. \A i \in DOMAIN rows : LogProbsCollected[i] = rows[i].resp
        BY <1>1, LogProbsCollectedAre, RowsAre
    <2>3. \A i \in DOMAIN rows : Computed(actor)[i] = {[of |-> LogProbsCollected[i], under |-> actor]}
        BY <2>2 DEF Computed
    <2>4. rows' = WithOld
        BY <2>1, <2>3 DEF WithOld
    <2> QED BY <2>1, <2>4
<1> QED BY <1>2, <1>3

LEMMA OldLogProbKeepsInv == ASSUME PpoInv, OldLogProb PROVE PpoInv'
<1>1. setting \in Settings /\ ConfigAccepted /\ WholeBatch /\ pc \in Working /\ actor \in Nat
    BY AtWork DEF OldLogProb, Working, PpoInv, PpoTypes
<1>2. CASE ForwardRaises /\ Raise /\ setting' = setting
    <2>1. pc' = "raised" /\ UNCHANGED <<setting, step, gen, rows, actor, engine, updates, val>>
        BY <1>2 DEF Raise
    <2>2. RaisesOnlyWhen'
        BY <1>1, <1>2, ForwardReasons, ReasonsAre
    <2>3. pc \notin {"config", "init", "rejected", "baseline", "unite"}
        BY <1>1 DEF Working
    <2> QED BY <2>1, <2>2, <2>3, RaiseKeepsInv
<1>3. CASE /\ rows' = WithOld /\ pc' = "ref"
           /\ UNCHANGED <<setting, step, gen, actor, engine, updates, val>>
    <2>1. rows' \in [DOMAIN rows -> Row(Resp)]
        BY <1>1, <1>3, WithOldIs
    <2>2. rows' \in Seq(Row(Resp)) /\ Len(rows') = setting.batch * setting.n
        BY <1>1, <2>1, NewRowsAre
    <2>3. pc' \in Working
        BY <1>3 DEF Working
    <2> QED BY <1>1, <1>3, <2>2, <2>3, WorkKeepsInv
<1> QED BY <1>2, <1>3, OldLogProbRows

LEMMA RefLogProbRows ==
    ASSUME PpoInv, RefLogProb
    PROVE  /\ rows' = IF setting.ref THEN WithRef ELSE rows
           /\ pc' = "values"
           /\ UNCHANGED <<setting, step, gen, actor, engine, updates, val>>
<1>1. setting \in Settings /\ ConfigAccepted /\ WholeBatch
    BY AtWork DEF RefLogProb, Working
<1>2. pc' = "values" /\ UNCHANGED <<setting, step, gen, actor, engine, updates, val>>
    BY DEF RefLogProb, Go
<1>3. CASE setting.ref
    <2>1. rows' = [i \in DOMAIN rows |->
                        [rows[i] EXCEPT !.ref = {[of |-> LogProbsCollected[i], under |-> 0]}]]
        BY <1>3 DEF RefLogProb, LogProbsCollected
    <2>2. \A i \in DOMAIN rows : LogProbsCollected[i] = rows[i].resp
        BY <1>1, LogProbsCollectedAre, RowsAre
    <2>3. \A i \in DOMAIN rows : Computed(0)[i] = {[of |-> LogProbsCollected[i], under |-> 0]}
        BY <2>2 DEF Computed
    <2>4. rows' = WithRef
        BY <2>1, <2>3 DEF WithRef
    <2> QED BY <1>2, <1>3, <2>4
<1>4. CASE ~setting.ref
    BY <1>2, <1>4 DEF RefLogProb
<1> QED BY <1>3, <1>4

LEMMA RefLogProbKeepsInv == ASSUME PpoInv, RefLogProb PROVE PpoInv'
<1>1. setting \in Settings /\ ConfigAccepted /\ WholeBatch /\ pc \in Working
    BY AtWork DEF RefLogProb, Working
<1>2. /\ rows' = IF setting.ref THEN WithRef ELSE rows
      /\ pc' = "values" /\ UNCHANGED <<setting, step, gen, actor, engine, updates, val>>
    BY RefLogProbRows
<1>3. rows' \in Seq(Row(Resp)) /\ Len(rows') = setting.batch * setting.n
    <2>1. CASE setting.ref
        <3>1. rows' \in [DOMAIN rows -> Row(Resp)]
            BY <1>1, <1>2, <2>1, WithRefIs
        <3> QED BY <1>1, <3>1, NewRowsAre
    <2>2. CASE ~setting.ref
        BY <1>1, <1>2, <2>2 DEF WholeBatch, IsPart
    <2> QED BY <2>1, <2>2
<1>4. pc' \in Working
    BY <1>2 DEF Working
<1> QED BY <1>1, <1>2, <1>3, <1>4, WorkKeepsInv

WithValues == [i \in DOMAIN rows |-> [rows[i] EXCEPT !.values = {ValuesCollected[i]}]]

\* By what a row is scored: the prompt its response answers, or its own.
Truth(i) == IF setting.rm THEN rows[i].resp.of ELSE rows[i].prompt

Score(i) == {[of |-> rows[i].resp, truth |-> Truth(i)]}

WithScore == [i \in DOMAIN rows |-> [rows[i] EXCEPT !.score = Score(i)]]

\* What a reward is made of.
From(i) ==
    IF setting.ref THEN rows[i].score \cup rows[i].old \cup rows[i].ref ELSE rows[i].score

Reward(i) == {c.of : c \in From(i)}

WithReward == [i \in DOMAIN rows |-> [rows[i] EXCEPT !.reward = Reward(i)]]

\* What an advantage is made of.
Sources(i) ==
    IF Grouped THEN UNION {rows[j].reward : j \in GroupOf(i)}
    ELSE rows[i].reward \cup {v.of : v \in rows[i].values} \cup rows[i].base

\* What the advantages are whitened with.
Scale == IF Whitens THEN UNION {Sources(i) : i \in DOMAIN rows} ELSE {}

WithAdv == [i \in DOMAIN rows |-> [rows[i] EXCEPT !.adv = Sources(i), !.scale = Scale]]

LEMMA WithValuesIs ==
    ASSUME setting \in Settings, ConfigAccepted, WholeBatch
    PROVE  WithValues \in [DOMAIN rows -> Row(Resp)]
<1>1. ASSUME NEW i \in DOMAIN rows
      PROVE  [rows[i] EXCEPT !.values = {ValuesCollected[i]}] \in Row(Resp)
    <2> DEFINE c == ValuesCollected[i]
               r == rows[i]
    <2>1. DOMAIN rows = 1..Len(rows)
        BY RowsAre
    <2>2. c \in [of : Resp, mask : Resp] /\ r \in Row(Resp)
        BY <2>1, ValuesCollectedAre, RowsAre
    <2> HIDE DEF c, r
    <2>3. [r EXCEPT !.values = {c}] \in Row(Resp)
        BY <2>2 DEF Row
    <2> QED BY <2>3 DEF c, r
<1> QED BY <1>1 DEF WithValues

LEMMA WithScoreIs ==
    ASSUME setting \in Settings, WholeBatch
    PROVE  WithScore \in [DOMAIN rows -> Row(Resp)]
<1>1. ASSUME NEW i \in DOMAIN rows
      PROVE  [rows[i] EXCEPT !.score = Score(i)] \in Row(Resp)
    <2> DEFINE c == Score(i)
               r == rows[i]
    <2>1. r \in Row(Resp)
        BY RowsAre
    <2>2. r.resp \in Resp /\ r.prompt \in 1..setting.batch
        BY <2>1 DEF Row
    <2>3. r.resp.of \in 1..setting.batch
        BY <2>2 DEF Resp
    <2>4. c \in SUBSET [of : Resp, truth : 1..setting.batch]
        BY <2>2, <2>3 DEF Score, Truth
    <2> HIDE DEF c, r
    <2>5. [r EXCEPT !.score = c] \in Row(Resp)
        BY <2>1, <2>4 DEF Row
    <2> QED BY <2>5 DEF c, r
<1> QED BY <1>1 DEF WithScore

LEMMA WithRewardIs ==
    ASSUME setting \in Settings, WholeBatch
    PROVE  WithReward \in [DOMAIN rows -> Row(Resp)]
<1>1. ASSUME NEW i \in DOMAIN rows
      PROVE  [rows[i] EXCEPT !.reward = Reward(i)] \in Row(Resp)
    <2> DEFINE c == Reward(i)
               r == rows[i]
    <2>1. r \in Row(Resp)
        BY RowsAre
    <2>2. /\ r.score \in SUBSET [of : Resp, truth : 1..setting.batch]
          /\ r.old \in SUBSET [of : Resp, under : Nat] /\ r.ref \in SUBSET [of : Resp, under : Nat]
        BY <2>1 DEF Row
    <2>3. \A x \in From(i) : x.of \in Resp
        BY <2>2 DEF From
    <2>4. c \in SUBSET Resp
        BY <2>3 DEF Reward
    <2> HIDE DEF c, r
    <2>5. [r EXCEPT !.reward = c] \in Row(Resp)
        BY <2>1, <2>4 DEF Row
    <2> QED BY <2>5 DEF c, r
<1> QED BY <1>1 DEF WithReward

LEMMA WithAdvIs ==
    ASSUME setting \in Settings, WholeBatch
    PROVE  WithAdv \in [DOMAIN rows -> Row(Resp)]
<1>1. ASSUME NEW i \in DOMAIN rows PROVE Sources(i) \in SUBSET Resp
    <2>1. \A j \in DOMAIN rows : rows[j] \in Row(Resp)
        BY RowsAre
    <2>2. \A j \in DOMAIN rows :
              /\ rows[j].reward \in SUBSET Resp /\ rows[j].base \in SUBSET Resp
              /\ rows[j].values \in SUBSET [of : Resp, mask : Resp]
        BY <2>1 DEF Row
    <2>3. UNION {rows[j].reward : j \in GroupOf(i)} \in SUBSET Resp
        BY <2>2 DEF GroupOf
    <2>4. \A v \in rows[i].values : v.of \in Resp
        BY <2>2
    <2>5. {v.of : v \in rows[i].values} \in SUBSET Resp
        BY <2>4
    <2> QED BY <2>2, <2>3, <2>5 DEF Sources
<1>2. Scale \in SUBSET Resp
    BY <1>1 DEF Scale
<1>3. ASSUME NEW i \in DOMAIN rows
      PROVE  [rows[i] EXCEPT !.adv = Sources(i), !.scale = Scale] \in Row(Resp)
    <2> DEFINE c == Sources(i)
               z == Scale
               r == rows[i]
    <2>1. r \in Row(Resp) /\ c \in SUBSET Resp /\ z \in SUBSET Resp
        BY <1>1, <1>2, RowsAre
    <2> HIDE DEF c, r, z
    <2>2. [r EXCEPT !.adv = c, !.scale = z] \in Row(Resp)
        BY <2>1 DEF Row
    <2> QED BY <2>2 DEF c, r, z
<1> QED BY <1>3 DEF WithAdv

LEMMA ComputeValuesRows ==
    ASSUME PpoInv, ComputeValues
    PROVE  /\ rows' = IF Critic THEN WithValues ELSE rows
           /\ pc' = "score"
           /\ UNCHANGED <<setting, step, gen, actor, engine, updates, val>>
BY DEF ComputeValues, Go, WithValues, ValuesCollected

LEMMA ComputeScoresRows ==
    ASSUME PpoInv, ComputeScores
    PROVE  /\ rows' = WithScore /\ pc' = "reward"
           /\ UNCHANGED <<setting, step, gen, actor, engine, updates, val>>
<1>1. setting \in Settings /\ ConfigAccepted /\ WholeBatch
    BY AtWork DEF ComputeScores, Working
<1>2. /\ rows' = [i \in DOMAIN rows |->
                    [rows[i] EXCEPT !.score =
                        IF setting.rm
                        THEN {[of |-> LogProbsCollected[i], truth |-> LogProbsCollected[i].of]}
                        ELSE {[of |-> rows[i].resp, truth |-> rows[i].prompt]}]]
      /\ pc' = "reward" /\ UNCHANGED <<setting, step, gen, actor, engine, updates, val>>
    BY DEF ComputeScores, Go, LogProbsCollected
<1>3. \A i \in DOMAIN rows : LogProbsCollected[i] = rows[i].resp
    BY <1>1, LogProbsCollectedAre, RowsAre
<1>4. \A i \in DOMAIN rows :
          Score(i) = IF setting.rm
                     THEN {[of |-> LogProbsCollected[i], truth |-> LogProbsCollected[i].of]}
                     ELSE {[of |-> rows[i].resp, truth |-> rows[i].prompt]}
    BY <1>3 DEF Score, Truth
<1> QED BY <1>2, <1>4 DEF WithScore

LEMMA ApplyKlPenaltyRows ==
    ASSUME PpoInv, ApplyKlPenalty
    PROVE  /\ rows' = WithReward /\ pc' = "advantage"
           /\ UNCHANGED <<setting, step, gen, actor, engine, updates, val>>
BY DEF ApplyKlPenalty, Go, WithReward, Reward, From

LEMMA ComputeAdvantageRows ==
    ASSUME PpoInv, ComputeAdvantage
    PROVE  /\ rows' = WithAdv /\ pc' \in {"update_critic", "update_actor", "test"}
           /\ UNCHANGED <<setting, step, gen, actor, engine, updates, val>>
BY DEF ComputeAdvantage, Go, WithAdv, Scale, Sources

LEMMA ColumnKeepsInv ==
    ASSUME PpoInv, ComputeValues \/ ComputeScores \/ ApplyKlPenalty \/ ComputeAdvantage
    PROVE  PpoInv'
<1>1. /\ pc \in Working /\ pc' \in Working
      /\ UNCHANGED <<setting, step, gen, actor, engine, updates, val>>
    BY DEF ComputeValues, ComputeScores, ApplyKlPenalty, ComputeAdvantage, Working, Go
<1>2. setting \in Settings /\ ConfigAccepted /\ WholeBatch
    BY <1>1, AtWork
<1>3. rows' = rows \/ rows' \in [DOMAIN rows -> Row(Resp)]
    BY <1>2, ComputeValuesRows, ComputeScoresRows, ApplyKlPenaltyRows, ComputeAdvantageRows,
       WithValuesIs, WithScoreIs, WithRewardIs, WithAdvIs
<1>4. rows' \in Seq(Row(Resp)) /\ Len(rows') = setting.batch * setting.n
    BY <1>2, <1>3, NewRowsAre DEF WholeBatch, IsPart
<1> QED BY <1>1, <1>4, WorkKeepsInv

LEMMA UpdateReasons ==
    ASSUME setting \in Settings, ConfigAccepted, WholeBatch, UpdateRaises \/ StepRaises
    PROVE  Reasons
<1>1. Len(LocalRows(setting, rows, 0)) = Share
    BY FirstRankIs
<1>3. CASE ForwardRaises
    BY <1>3, ForwardReasons
<1>4. CASE setting.backend = "megatron" /\ Mini = 0
    BY <1>4 DEF Reasons
<1>5. CASE setting.backend = "megatron" /\ Len(LocalRows(setting, rows, 0)) % Mini # 0
    BY <1>1, <1>5 DEF Reasons
<1>6. CASE setting.backend = "megatron" /\ Mini % Micro # 0
    BY <1>6 DEF Reasons
<1>7. CASE StepRaises
    BY <1>7 DEF Reasons, StepRaises
<1> QED BY <1>3, <1>4, <1>5, <1>6, <1>7 DEF UpdateRaises

LEMMA MiniIsSome ==
    ASSUME setting \in Settings, ConfigAccepted, WorkersStart, ~UpdateRaises
    PROVE  Mini \in Nat \ {0}
<1>1. Mini \in Nat
    BY SizesAre
<1>2. CASE setting.backend = "fsdp"
    BY <1>1, <1>2 DEF WorkersStart
<1>3. CASE setting.backend = "megatron"
    BY <1>1, <1>3 DEF UpdateRaises
<1> QED BY <1>2, <1>3, SettingIs

LEMMA StepsAre ==
    ASSUME updates \in Seq(Update), NEW who
    PROVE  Steps(who) \in Seq(Update) /\ Len(Steps(who)) \in Nat
<1> DEFINE K == {i \in DOMAIN updates : updates[i].who = who}
<1>1. Steps(who) = Pick(updates, K)
    BY DEF Steps, Where
<1> HIDE DEF K
<1>2. Pick(updates, K) \in Seq(Update)
    BY PickType
<1> QED BY <1>1, <1>2

\* The number of the next optimizer step, and what it does, made or not.
NextAt(who) == Len(Steps(who)) + 1
NextUpdate(who, made) ==
    [who |-> who, at |-> NextAt(who), made |-> made,
     parts |-> [d \in Ranks |-> Gradients(d, NextAt(who))]]

LEMMA NextUpdateIs ==
    ASSUME setting \in Settings, ConfigAccepted, WholeBatch, Mini # 0, updates \in Seq(Update),
           NEW who \in {"critic", "actor"}, NEW made \in Made
    PROVE  NextAt(who) \in Nat \ {0} /\ NextUpdate(who, made) \in Update
<1>1. NextAt(who) \in Nat \ {0}
    BY StepsAre DEF NextAt
<1>2. [d \in Ranks |-> Gradients(d, NextAt(who))] \in [Ranks -> Seq(MicroUpdate)]
    BY <1>1, GradientsAre
<1>3. made \in BOOLEAN
    BY DEF Made
<1> QED BY <1>1, <1>2, <1>3 DEF Update, NextUpdate

\* An optimizer step leaves all but the stage, the policy and the list of updates.
LEMMA TrainingKeepsInv ==
    ASSUME PpoInv, pc \in Working, pc' \in {"update_critic", "update_actor", "test"},
           UNCHANGED <<setting, step, gen, rows, engine, val>>,
           actor' \in {actor, actor + 1}, updates' \in Seq(Update)
    PROVE  PpoInv'
<1>1. /\ Resp' = Resp /\ (Row({{}}))' = Row({{}}) /\ (Row(Resp))' = Row(Resp)
      /\ Update' = Update /\ ValRow' = ValRow
      /\ ConfigAccepted' = ConfigAccepted /\ WorkersStart' = WorkersStart
    BY SettingKept
<1>2. PpoTypes /\ RowTypes /\ Checked /\ BatchLengths
    BY DEF PpoInv
<1>3. actor' \in Nat /\ engine' \in 0..actor'
    BY <1>2 DEF PpoTypes
<1>4. PpoTypes'
    BY <1>1, <1>2, <1>3 DEF PpoTypes, Stages
<1>5. RowTypes'
    BY <1>1, <1>2 DEF RowTypes, Working
<1>6. Checked'
    BY <1>1, <1>2 DEF Checked, Working
<1>7. BatchLengths'
    BY <1>2 DEF BatchLengths, Working
<1>8. RaisesOnlyWhen'
    BY DEF RaisesOnlyWhen
<1> QED BY <1>4, <1>5, <1>6, <1>7, <1>8 DEF PpoInv

LEMMA UpdateRows ==
    ASSUME PpoInv, NEW who \in {"critic", "actor"},
           IF who = "critic" THEN UpdateCritic ELSE UpdateActor
    PROVE  \/ (UpdateRaises \/ StepRaises) /\ Raise /\ setting' = setting
           \/ /\ Mini \in Nat \ {0} /\ ~UpdateRaises
              /\ \E made \in Made : updates' = Append(updates, NextUpdate(who, made))
              /\ actor' \in {actor, actor + 1}
              /\ pc' \in {"update_critic", "update_actor", "test"}
              /\ UNCHANGED <<setting, step, gen, rows, engine, val>>
<1>1. setting \in Settings /\ ConfigAccepted /\ WorkersStart
    BY AtWork DEF UpdateCritic, UpdateActor, Working
<1>2. CASE (UpdateRaises \/ StepRaises) /\ Raise
    BY <1>2 DEF UpdateCritic, UpdateActor
<1>3. CASE ~((UpdateRaises \/ StepRaises) /\ Raise)
    <2>1. ~UpdateRaises
        BY <1>3 DEF UpdateCritic, UpdateActor
    <2>2. Mini \in Nat \ {0}
        BY <1>1, <2>1, MiniIsSome
    <2>3. CASE who = "critic"
        <3>1. /\ \E made \in Made : OptimizerStep("critic", made)
              /\ Go(IF Len(Steps("critic")) + 1 < LastUpdate THEN "update_critic"
                    ELSE IF setting.warmup <= step THEN "update_actor" ELSE "test")
              /\ UNCHANGED <<setting, gen, rows, engine, val>>
            BY <1>3, <2>3, Zenon DEF UpdateCritic
        <3>2. PICK made \in Made : OptimizerStep("critic", made)
            BY <3>1
        <3>3. updates' = Append(updates, NextUpdate("critic", made))
            BY <3>2, Zenon DEF OptimizerStep, NextUpdate, NextAt
        <3> QED BY <2>1, <2>2, <2>3, <3>1, <3>3 DEF Go
    <2>4. CASE who = "actor"
        <3>1. /\ \E made \in Made : /\ OptimizerStep("actor", made)
                                     /\ actor' = IF made THEN actor + 1 ELSE actor
              /\ pc' = IF Len(Steps("actor")) + 1 < LastUpdate THEN "update_actor" ELSE "test"
              /\ UNCHANGED <<setting, step, gen, rows, engine, val>>
            BY <1>3, <2>4 DEF UpdateActor
        <3>2. PICK made \in Made : /\ OptimizerStep("actor", made)
                                   /\ actor' = IF made THEN actor + 1 ELSE actor
            BY <3>1
        <3>3. updates' = Append(updates, NextUpdate("actor", made))
            BY <3>2, Zenon DEF OptimizerStep, NextUpdate, NextAt
        <3> QED BY <2>1, <2>2, <2>4, <3>1, <3>2, <3>3
    <2> QED BY <2>3, <2>4
<1> QED BY <1>2, <1>3

LEMMA UpdateKeepsInv == ASSUME PpoInv, UpdateCritic \/ UpdateActor PROVE PpoInv'
<1>1. /\ setting \in Settings /\ ConfigAccepted /\ WholeBatch /\ pc \in Working
      /\ updates \in Seq(Update)
    BY AtWork DEF UpdateCritic, UpdateActor, Working, PpoInv, PpoTypes
<1>2. PICK who \in {"critic", "actor"} : IF who = "critic" THEN UpdateCritic ELSE UpdateActor
    OBVIOUS
<1>3. CASE (UpdateRaises \/ StepRaises) /\ Raise /\ setting' = setting
    <2>1. pc' = "raised" /\ UNCHANGED <<setting, step, gen, rows, actor, engine, updates, val>>
        BY <1>3 DEF Raise
    <2>2. RaisesOnlyWhen'
        BY <1>1, <1>3, UpdateReasons, ReasonsAre
    <2>3. pc \notin {"config", "init", "rejected", "baseline", "unite"}
        BY <1>1 DEF Working
    <2> QED BY <2>1, <2>2, <2>3, RaiseKeepsInv
<1>4. CASE /\ Mini \in Nat \ {0}
           /\ \E made \in Made : updates' = Append(updates, NextUpdate(who, made))
           /\ actor' \in {actor, actor + 1}
           /\ pc' \in {"update_critic", "update_actor", "test"}
           /\ UNCHANGED <<setting, step, gen, rows, engine, val>>
    <2>1. PICK made \in Made : updates' = Append(updates, NextUpdate(who, made))
        BY <1>4
    <2>2. NextUpdate(who, made) \in Update
        BY <1>1, <1>4, NextUpdateIs
    <2>3. updates' \in Seq(Update)
        BY <1>1, <2>1, <2>2
    <2> QED BY <1>1, <1>4, <2>3, TrainingKeepsInv
<1> QED BY <1>2, <1>3, <1>4, UpdateRows

-------------------------------------------------------------------------------
(* Validation *)

\* The prompt of the i-th validation row, and all of them.
TestOf(i) == ((i - 1) \div setting.valN) + 1
TestCount == setting.valSize * setting.valN
Tests == Repeat([p \in 1..setting.valSize |-> p], setting.valN)

LEMMA TestsAre ==
    ASSUME setting \in Settings
    PROVE  /\ TestCount \in Nat \ {0} /\ Tests \in Seq(1..setting.valSize) /\ Len(Tests) = TestCount
           /\ \A i \in 1..TestCount : Tests[i] = TestOf(i) /\ TestOf(i) \in 1..setting.valSize
<1> DEFINE v == setting.valSize
           n == setting.valN
           m == TestCount
           q == [p \in 1..v |-> p]
<1>1. v \in Nat \ {0} /\ n \in Nat \ {0}
    BY SettingIs
<1>2. m \in Nat \ {0} /\ m = v * n
    <2> HIDE DEF v, n
    <2>1. v * n \in Nat \ {0}
        BY <1>1
    <2> QED BY <2>1 DEF TestCount, v, n
<1>3. q \in [1..v -> 1..v]
    OBVIOUS
<1>4. Len(q) = v
    <2> HIDE DEF v, q
    <2> QED BY <1>1, <1>3, FunctionIsSeq
<1>5. ASSUME NEW i \in 1..m PROVE TestOf(i) \in 1..v
    <2> DEFINE x == i - 1
    <2>1. x \in Nat /\ x < v * n
        BY <1>2
    <2> HIDE DEF v, n, x, m
    <2>2. x \div n \in Nat /\ x \div n < v
        BY <1>1, <2>1, DivisionOf
    <2>3. TestOf(i) = (x \div n) + 1
        BY DEF TestOf, n, x
    <2> DEFINE d == x \div n
    <2> HIDE DEF d
    <2>4. d \in Nat /\ d < v /\ TestOf(i) = d + 1
        BY <2>2, <2>3 DEF d
    <2> QED BY <1>1, <2>4
<1>6. Tests = [i \in 1..(v * n) |-> q[TestOf(i)]]
    BY <1>4 DEF Tests, Repeat, TestOf
<1>7. \A i \in 1..m : q[TestOf(i)] = TestOf(i)
    BY <1>5
<1> HIDE DEF v, n, m, q
<1>8. Tests = [i \in 1..m |-> TestOf(i)]
    BY <1>2, <1>6, <1>7
<1>9. Tests \in [1..m -> 1..v]
    BY <1>5, <1>8
<1>10. Tests \in Seq(1..v) /\ Len(Tests) = m
    BY <1>2, <1>9, FunctionIsSeq
<1> QED BY <1>2, <1>5, <1>8, <1>10 DEF v, m

LEMMA PaddedIs ==
    ASSUME NEW S, NEW q \in Seq(S), Len(q) # 0, NEW w \in Nat \ {0}
    PROVE  /\ PadSize(q, w) \in Nat
           /\ Padded(q, w) \in Seq(S) /\ Len(Padded(q, w)) = Len(q) + PadSize(q, w)
           /\ Len(Padded(q, w)) % w = 0
           /\ \A i \in 1..Len(q) : Padded(q, w)[i] = q[i]
<1> DEFINE n == Len(q)
           d == PadSize(q, w)
           p == Padded(q, w)
<1>1. n \in Nat \ {0} /\ q \in [1..n -> S]
    BY LenProperties
<1>2. p = [i \in 1..(n + d) |-> q[((i - 1) % n) + 1]]
    BY DEF Padded
<1>3. d = IF n % w = 0 THEN 0 ELSE w - (n % w)
    BY DEF PadSize
<1> HIDE DEF n, d, p
<1>4. n \div w \in Nat /\ n % w \in 0..(w - 1) /\ n = (n \div w) * w + (n % w)
    BY <1>1, DivisionOf
<1>5. d \in Nat
    <2> DEFINE b == n % w
    <2>1. b \in 0..(w - 1) /\ d = IF b = 0 THEN 0 ELSE w - b
        BY <1>3, <1>4
    <2> HIDE DEF b
    <2> QED BY <2>1
<1>6. (n + d) % w = 0
    <2>1. CASE n % w = 0
        BY <1>1, <1>3, <2>1
    <2>2. CASE n % w # 0
        <3> DEFINE a == n \div w
                   b == n % w
                   c == a + 1
        <3>1. a \in Nat /\ b \in 0..(w - 1) /\ n = a * w + b /\ d = w - b
            BY <1>3, <1>4, <2>2
        <3> HIDE DEF a, b
        <3>2. a * w \in Nat /\ c \in Nat /\ c * w = a * w + w
            BY <3>1
        <3> HIDE DEF c
        <3>3. n + d = c * w
            BY <3>1, <3>2
        <3>4. (c * w) % w = 0
            BY <3>2, NoneRemains
        <3> QED BY <3>3, <3>4
    <2> QED BY <2>1, <2>2
<1>7. ASSUME NEW i \in 1..(n + d) PROVE q[((i - 1) % n) + 1] \in S
    <2> DEFINE x == i - 1
    <2>1. x \in Nat
        BY <1>1, <1>5
    <2> HIDE DEF x
    <2>2. x % n \in 0..(n - 1)
        BY <1>1, <2>1, DivisionOf
    <2> DEFINE y == x % n
    <2> HIDE DEF y
    <2>3. y + 1 \in 1..n
        BY <1>1, <2>2 DEF y
    <2>4. q[y + 1] \in S
        BY <1>1, <2>3
    <2> QED BY <2>4 DEF x, y
<1>8. p \in [1..(n + d) -> S]
    BY <1>2, <1>7
<1>9. p \in Seq(S) /\ Len(p) = n + d
    <2> DEFINE k == n + d
    <2>1. k \in Nat
        BY <1>1, <1>5
    <2>2. p \in [1..k -> S]
        BY <1>8
    <2> HIDE DEF k
    <2>3. p \in Seq(S) /\ Len(p) = k
        BY <2>1, <2>2, FunctionIsSeq
    <2> QED BY <2>3 DEF k
<1>10. ASSUME NEW i \in 1..n PROVE p[i] = q[i]
    <2>1. i \in 1..(n + d)
        BY <1>1, <1>5
    <2>2. (i - 1) % n = i - 1
        BY <1>1
    <2>3. p[i] = q[((i - 1) % n) + 1]
        BY <1>2, <2>1
    <2>4. (i - 1) + 1 = i
        BY <1>1
    <2> QED BY <2>2, <2>3, <2>4
<1> QED BY <1>5, <1>6, <1>9, <1>10 DEF n, d, p

\* A response of the current policy to a prompt of the validation set.
NowResp == [of : 1..setting.valSize, k : {0}, by : {actor}, len : setting.lens]
TestAnswers == [p \in 1..setting.valSize |-> <<Response(p, 0, Synced, Width)>>]

LEMMA TestAnswersAre ==
    ASSUME setting \in Settings, actor \in Nat
    PROVE  /\ AnswersAre(TestAnswers, setting.valSize, NowResp, 1)
           /\ \A p \in 1..setting.valSize : TestAnswers[p][1].of = p
<1>1. \A p \in 1..setting.valSize : Response(p, 0, Synced, Width) \in NowResp
    BY WidthIs DEF Response, Synced, NowResp
<1> QED BY <1>1 DEF AnswersAre, TestAnswers, Response

\* A row for every prompt of the validation set and each of its repeats.
IsValidation(v) ==
    /\ v \in [1..TestCount -> [prompt : 1..setting.valSize, resp : NowResp]]
    /\ \A i \in 1..TestCount :
           v[i].prompt = TestOf(i) /\ (KeepsOrder(setting) => v[i].resp.of = TestOf(i))

\* What the engine answers to the padded prompts.
AllTests == Padded(Tests, setting.world)
AllAnswers == Generations(setting, AllTests, TestAnswers)

LEMMA AllAnswersAre ==
    ASSUME setting \in Settings, actor \in Nat, WorkersStart
    PROVE  /\ AllAnswers \in Seq(NowResp)
           /\ Len(AllAnswers) = TestCount + PadSize(Tests, setting.world)
           /\ PadSize(Tests, setting.world) \in Nat
           /\ KeepsOrder(setting) => \A i \in 1..TestCount : AllAnswers[i].of = TestOf(i)
<1> DEFINE q == AllTests
           l == setting
           p == setting.valSize
           a == TestAnswers
           w == setting.world
           pad == PadSize(Tests, w)
<1>1. /\ TestCount \in Nat \ {0} /\ Tests \in Seq(1..p) /\ Len(Tests) = TestCount
      /\ \A i \in 1..TestCount : Tests[i] = TestOf(i) /\ TestOf(i) \in 1..p
    BY TestsAre
<1>2. p \in Nat /\ w \in Nat \ {0}
    BY SettingIs
<1>3. IsLayout(l) /\ EngineFits(l)
    BY EngineIs
<1> HIDE DEF p
<1>4. /\ pad \in Nat /\ q \in Seq(1..p) /\ Len(q) = Len(Tests) + pad /\ Len(q) % w = 0
      /\ \A i \in 1..Len(Tests) : q[i] = Tests[i]
    BY <1>1, <1>2, PaddedIs DEF AllTests
<1> HIDE DEF q, a, pad
<1>5. Len(q) % PromptsDivisor(l) = 0
    <2>1. Len(q) \in Nat /\ Len(q) % l.world = 0
        BY <1>4
    <2> QED BY <1>3, <2>1, DivisorIs
<1>6. AnswersAre(a, p, NowResp, 1) /\ \A x \in 1..p : a[x][1].of = x
    BY TestAnswersAre DEF a, p
<1>7. q \in Seq(1..p) /\ 1 \in Nat
    BY <1>4
<1>8. /\ Generations(l, q, a) \in Seq(NowResp)
      /\ Len(Generations(l, q, a)) = Len(q) * 1
      /\ KeepsOrder(l) => Answered(Generations(l, q, a), q, a, 1)
    BY <1>2, <1>3, <1>5, <1>6, <1>7, GenerationsAre
<1> DEFINE g == Generations(l, q, a)
<1>9. g = AllAnswers
    BY DEF AllAnswers, q, a
<1> HIDE DEF g
<1>10. g \in Seq(NowResp) /\ Len(g) = TestCount + pad
    BY <1>1, <1>4, <1>8 DEF g
<1>11. ASSUME KeepsOrder(l), NEW i \in 1..TestCount PROVE g[i].of = TestOf(i)
    <2>1. Answered(g, q, a, 1)
        BY <1>8, <1>11 DEF g
    <2>2. i \in 1..Len(q) /\ q[i] = TestOf(i) /\ TestOf(i) \in 1..p
        BY <1>1, <1>4
    <2>3. IsBlock(a[q[i]], g, i - 1, 1)
        BY <2>1, <2>2 DEF Answered
    <2>4. a[q[i]][1] = g[(i - 1) * 1 + 1]
        BY <2>3 DEF IsBlock
    <2>5. (i - 1) * 1 + 1 = i
        BY <1>1
    <2> QED BY <1>6, <2>2, <2>4, <2>5
<1> QED BY <1>4, <1>9, <1>10, <1>11 DEF pad, w

LEMMA ValidationIs ==
    ASSUME setting \in Settings, actor \in Nat, WorkersStart, Validate, setting.saves
    PROVE  /\ IsValidation(val') /\ engine' = actor /\ pc' = "next"
           /\ UNCHANGED <<setting, step, gen, rows, actor, updates>>
<1> DEFINE pad == PadSize(Tests, setting.world)
           answers == Unpadded(AllAnswers, pad)
<1>1. /\ val' = [i \in DOMAIN answers |-> [prompt |-> Tests[i], resp |-> answers[i]]]
      /\ engine' = actor /\ pc' = "next" /\ UNCHANGED <<setting, step, gen, rows, actor, updates>>
    BY DEF Validate, Go, Synced, Tests, AllTests, AllAnswers, TestAnswers
<1>2. /\ AllAnswers \in Seq(NowResp) /\ Len(AllAnswers) = TestCount + pad /\ pad \in Nat
      /\ KeepsOrder(setting) => \A i \in 1..TestCount : AllAnswers[i].of = TestOf(i)
    BY AllAnswersAre
<1>3. /\ TestCount \in Nat \ {0}
      /\ \A i \in 1..TestCount : Tests[i] = TestOf(i) /\ TestOf(i) \in 1..setting.valSize
    BY TestsAre
<1>4. answers = SubSeq(AllAnswers, 1, TestCount)
    <2>1. Len(AllAnswers) - pad = TestCount
        BY <1>2, <1>3
    <2> QED BY <2>1 DEF Unpadded
<1> DEFINE z == 0
           g == AllAnswers
           m == TestCount
<1> HIDE DEF z, g, answers, pad
<1>5. z \in Nat /\ z <= m /\ m <= Len(g) /\ g \in Seq(NowResp) /\ m \in Nat /\ m - z = m
    BY <1>2, <1>3 DEF z, g
<1> HIDE DEF m
<1>6. /\ SubSeq(g, z + 1, m) \in Seq(NowResp) /\ Len(SubSeq(g, z + 1, m)) = m - z
      /\ \A j \in 1..(m - z) : SubSeq(g, z + 1, m)[j] = g[z + j]
    BY <1>5, SliceIs
<1>7. answers \in Seq(NowResp) /\ Len(answers) = m /\ \A j \in 1..m : answers[j] = g[j]
    <2>1. answers = SubSeq(g, z + 1, m)
        BY <1>4 DEF g, z, m
    <2>2. \A j \in 1..m : z + j = j
        BY <1>5 DEF z
    <2> QED BY <1>5, <1>6, <2>1, <2>2
<1>8. DOMAIN answers = 1..m /\ \A j \in 1..m : answers[j] \in NowResp
    BY <1>5, <1>7, LenProperties
<1>9. val' = [i \in 1..m |-> [prompt |-> TestOf(i), resp |-> answers[i]]]
    BY <1>1, <1>3, <1>8 DEF m
<1>10. \A i \in 1..m : TestOf(i) \in 1..setting.valSize
    BY <1>3 DEF m
<1>11. val' \in [1..m -> [prompt : 1..setting.valSize, resp : NowResp]]
    BY <1>8, <1>9, <1>10
<1>12. \A i \in 1..m :
          val'[i].prompt = TestOf(i) /\ (KeepsOrder(setting) => val'[i].resp.of = TestOf(i))
    BY <1>2, <1>7, <1>9 DEF m, g
<1> QED BY <1>1, <1>11, <1>12 DEF IsValidation, m

LEMMA ValidateKeepsInv == ASSUME PpoInv, Validate PROVE PpoInv'
<1>1. setting' = setting /\ pc = "validate"
    BY DEF Validate
<1>2. /\ Resp' = Resp /\ (Row({{}}))' = Row({{}}) /\ (Row(Resp))' = Row(Resp)
      /\ Update' = Update /\ ValRow' = ValRow
      /\ ConfigAccepted' = ConfigAccepted /\ WorkersStart' = WorkersStart
    BY <1>1, SettingKept
<1>3. PpoTypes /\ RowTypes /\ Checked /\ BatchLengths
    BY DEF PpoInv
<1>4. setting \in Settings /\ actor \in Nat /\ WorkersStart
    BY <1>1, <1>3 DEF PpoTypes, Checked
<1>5. CASE ~setting.saves
    <2>1. pc' = "raised" /\ UNCHANGED <<setting, step, gen, rows, actor, engine, updates, val>>
        BY <1>1, <1>5 DEF Validate, Raise
    <2>2. Reasons
        BY <1>5 DEF Reasons
    <2>3. RaisesOnlyWhen'
        BY <1>1, <2>2, ReasonsAre
    <2> QED BY <1>1, <2>1, <2>3, RaiseKeepsInv
<1>6. CASE setting.saves
    <2>1. /\ IsValidation(val') /\ engine' = actor /\ pc' = "next"
          /\ UNCHANGED <<setting, step, gen, rows, actor, updates>>
        BY <1>4, <1>6, ValidationIs
    <2>2. val' \in Seq(ValRow)
        <3> DEFINE m == TestCount
        <3>1. m \in Nat
            BY <1>4, TestsAre
        <3>2. [prompt : 1..setting.valSize, resp : NowResp] \subseteq ValRow
            BY <1>4 DEF ValRow, ValResp, NowResp
        <3>3. val' \in [1..m -> ValRow]
            BY <2>1, <3>2 DEF IsValidation
        <3> HIDE DEF m
        <3> QED BY <3>1, <3>3, FunctionIsSeq
    <2>3. PpoTypes'
        BY <1>2, <1>3, <2>1, <2>2 DEF PpoTypes, Stages
    <2>4. RowTypes'
        BY <1>1, <1>2, <1>3, <2>1 DEF RowTypes
    <2>5. Checked'
        BY <1>1, <1>2, <1>3, <2>1 DEF Checked
    <2>6. BatchLengths'
        BY <1>1, <1>3, <2>1 DEF BatchLengths, Working
    <2>7. RaisesOnlyWhen'
        BY <2>1 DEF RaisesOnlyWhen
    <2> QED BY <2>3, <2>4, <2>5, <2>6, <2>7 DEF PpoInv
<1> QED BY <1>5, <1>6

LEMMA PpoNext == PpoInv /\ [Next]_vars => PpoInv'
<1> SUFFICES ASSUME PpoInv, [Next]_vars PROVE PpoInv'
    OBVIOUS
<1>1. CASE ValidateConfig \/ InitWorkers \/ NextBatch \/ Test
    BY <1>1, IdleKeepsInv
<1>2. CASE Generate
    BY <1>2, GenerateKeepsInv
<1>3. CASE GenerateBaseline
    BY <1>3, GenerateBaselineKeepsInv
<1>4. CASE UniteResponses
    BY <1>4, UniteKeepsInv
<1>5. CASE BalanceBatch
    BY <1>5, BalanceKeepsInv
<1>6. CASE OldLogProb
    BY <1>6, OldLogProbKeepsInv
<1>7. CASE RefLogProb
    BY <1>7, RefLogProbKeepsInv
<1>8. CASE ComputeValues \/ ComputeScores \/ ApplyKlPenalty \/ ComputeAdvantage
    BY <1>8, ColumnKeepsInv
<1>9. CASE UpdateCritic \/ UpdateActor
    BY <1>9, UpdateKeepsInv
<1>10. CASE Validate
    BY <1>10, ValidateKeepsInv
<1>11. CASE UNCHANGED vars
    <2>1. UNCHANGED <<setting, pc, step, gen, rows, actor, engine, updates, val>>
        BY <1>11 DEF vars
    <2>2. /\ Resp' = Resp /\ (Row({{}}))' = Row({{}}) /\ (Row(Resp))' = Row(Resp)
          /\ Update' = Update /\ ValRow' = ValRow
          /\ ConfigAccepted' = ConfigAccepted /\ WorkersStart' = WorkersStart
        BY <2>1, SettingKept
    <2>3. (PpoTypes /\ RowTypes /\ Checked /\ BatchLengths)'
        BY <2>1, <2>2 DEF PpoInv, PpoTypes, RowTypes, Checked, BatchLengths
    <2>4. RaisesOnlyWhen'
        BY <2>1 DEF PpoInv, RaisesOnlyWhen, Width, Dp
    <2> QED BY <2>3, <2>4 DEF PpoInv
<1> QED BY <1>1, <1>2, <1>3, <1>4, <1>5, <1>6, <1>7, <1>8, <1>9, <1>10, <1>11 DEF Next, Done

LEMMA PpoInvariant == Spec => []PpoInv
BY PpoInit, PpoNext, PTL DEF Spec

LEMMA PpoInvTypes == PpoInv => TypeOK
<1> SUFFICES ASSUME PpoInv PROVE TypeOK
    OBVIOUS
<1>1. PpoTypes /\ RowTypes /\ BatchLengths
    BY DEF PpoInv
<1>2. \A i \in DOMAIN rows : DOMAIN rows[i] = Columns
    <2>1. PICK S : rows \in Seq(Row(S))
        BY <1>1 DEF RowTypes
    <2>2. \A i \in DOMAIN rows : rows[i] \in Row(S)
        BY <2>1
    <2> QED BY <2>2 DEF Row, Columns
<1>3. Len(gen) \in {0, setting.batch * setting.n}
    BY <1>1 DEF BatchLengths
<1>4. Len(rows) \in {0, setting.batch, setting.batch * setting.n}
    BY <1>1 DEF BatchLengths
<1> QED BY <1>1, <1>2, <1>3, <1>4 DEF TypeOK, PpoTypes, Stages

\* The driver's state has its types: a batch is always none, its prompts or all its
\* responses, in whole rows, and the engine never holds a version of the policy that
\* has not been made.  For every setting PpoAssumption admits.
THEOREM PpoTypeCorrect == Spec => []TypeOK
BY PpoInvariant, PpoInvTypes, PTL

\* A run of whatever size that passed _validate_config and the workers' checks raises
\* for the listed reasons only: no chunk, split, union or assertion else can fail.
THEOREM RaisesForItsReasons == Spec => []RaisesOnlyWhen
<1>1. PpoInv => RaisesOnlyWhen
    BY DEF PpoInv
<1> QED BY <1>1, PpoInvariant, PTL

\* Whatever the lengths of the rows and the number of ranks, the ranks go through the
\* model equally often in every pass, so that none waits in an all-gather for another.
THEOREM NoneWaits == Spec => []NoRankWaits
<1>1. PpoInv => NoRankWaits
    <2> SUFFICES ASSUME PpoInv PROVE NoRankWaits
        OBVIOUS
    <2>1. ASSUME pc \in {"old_log_prob", "ref", "values"} PROVE ForwardInStep
        <3>1. setting \in Settings /\ ConfigAccepted /\ WholeBatch
            BY <2>1, AtWork DEF Working
        <3> QED BY <3>1, ForwardIsInStep
    <2>2. ASSUME pc \in {"update_critic", "update_actor"}, ~UpdateRaises
          PROVE  LET at == Len(Steps(IF pc = "update_actor" THEN "actor" ELSE "critic")) + 1
                 IN  InStep([d \in Ranks |-> MicroBatchesAt(d, at)])
        <3> DEFINE at == Len(Steps(IF pc = "update_actor" THEN "actor" ELSE "critic")) + 1
        <3>1. setting \in Settings /\ ConfigAccepted /\ WorkersStart /\ WholeBatch
            BY <2>2, AtWork DEF Working
        <3>2. Mini # 0
            BY <2>2, <3>1, MiniIsSome
        <3>3. at \in Nat \ {0}
            <4>1. updates \in Seq(Update)
                BY DEF PpoInv, PpoTypes
            <4> QED BY <4>1, StepsAre
        <3> HIDE DEF at
        <3>4. InStep([d \in Ranks |-> MicroBatchesAt(d, at)])
            BY <3>1, <3>2, <3>3, UpdateIsInStep
        <3> QED BY <3>4 DEF at
    <2> QED BY <2>1, <2>2 DEF NoRankWaits
<1> QED BY <1>1, PpoInvariant, PTL

\* What a validation found is about the policy as it is, until the next batch.
ValidationNow == Len(val) = 0 \/ (pc = "next" /\ IsValidation(val))

LEMMA ValidationNowHolds == Spec => []ValidationNow
<1>1. Init => ValidationNow
    BY DEF Init, ValidationNow
<1>2. PpoInv /\ ValidationNow /\ [Next]_vars => ValidationNow'
    <2> SUFFICES ASSUME PpoInv, ValidationNow, [Next]_vars PROVE ValidationNow'
        OBVIOUS
    <2>1. setting \in Settings /\ actor \in Nat /\ (pc = "validate" => WorkersStart)
        BY DEF PpoInv, PpoTypes, Checked
    <2>2. CASE NextBatch
        <3>1. val' = <<>>
            BY <2>2 DEF NextBatch
        <3>2. Len(val') = 0
            BY <3>1
        <3> QED BY <3>2 DEF ValidationNow
    <2>3. CASE Validate
        <3>1. pc = "validate"
            BY <2>3 DEF Validate
        <3>2. CASE setting.saves
            <4>1. /\ IsValidation(val') /\ pc' = "next"
                  /\ UNCHANGED <<setting, actor>>
                BY <2>1, <2>3, <3>1, <3>2, ValidationIs
            <4>2. TestCount' = TestCount /\ NowResp' = NowResp
                BY <4>1 DEF TestCount, NowResp
            <4>3. IsValidation(val)'
                BY <4>1, <4>2 DEF IsValidation, TestOf, KeepsOrder, Dp
            <4> QED BY <4>1, <4>3 DEF ValidationNow
        <3>3. CASE ~setting.saves
            <4>1. val' = val
                BY <2>3, <3>3 DEF Validate, Raise
            <4> QED BY <3>1, <4>1 DEF ValidationNow
        <3> QED BY <3>2, <3>3
    <2>4. CASE /\ ValidateConfig \/ InitWorkers \/ Generate \/ GenerateBaseline \/ UniteResponses
                  \/ BalanceBatch \/ OldLogProb \/ RefLogProb \/ ComputeValues \/ ComputeScores
                  \/ ApplyKlPenalty \/ ComputeAdvantage \/ UpdateCritic \/ UpdateActor \/ Test
        <3>1. pc # "next"
            BY <2>4 DEF ValidateConfig, InitWorkers, Generate, GenerateBaseline, UniteResponses,
                BalanceBatch, OldLogProb, RefLogProb, ComputeValues, ComputeScores,
                ApplyKlPenalty, ComputeAdvantage, UpdateCritic, UpdateActor, Test
        <3>2. val' = val
            BY <2>4 DEF ValidateConfig, InitWorkers, Generate, GenerateBaseline, UniteResponses,
                BalanceBatch, OldLogProb, RefLogProb, ComputeValues, ComputeScores,
                ApplyKlPenalty, ComputeAdvantage, UpdateCritic, UpdateActor, Test, Raise
        <3> QED BY <3>1, <3>2 DEF ValidationNow
    <2>5. CASE UNCHANGED vars
        <3>1. UNCHANGED <<setting, pc, actor, val>>
            BY <2>5 DEF vars
        <3>2. TestCount' = TestCount /\ NowResp' = NowResp
            BY <3>1 DEF TestCount, NowResp
        <3> QED BY <3>1, <3>2 DEF ValidationNow, IsValidation, TestOf, KeepsOrder, Dp
    <2> QED BY <2>2, <2>3, <2>4, <2>5 DEF Next, Done
<1> QED BY <1>1, <1>2, PpoInvariant, PTL DEF Spec

\* The rows of a prompt stand together.
LEMMA RowsOfTest ==
    ASSUME setting \in Settings, NEW p \in 1..setting.valSize
    PROVE  Cardinality({i \in 1..TestCount : TestOf(i) = p}) = setting.valN
<1> DEFINE v == setting.valSize
           n == setting.valN
           a == (p - 1) * n
           S == {i \in 1..TestCount : TestOf(i) = p}
<1>1. v \in Nat \ {0} /\ n \in Nat \ {0} /\ TestCount = v * n
    BY SettingIs DEF TestCount
<1>2. a \in Nat /\ a + n <= v * n
    <2>1. p - 1 \in 0..(v - 1)
        BY <1>1
    <2> DEFINE d == p - 1
    <2>2. d \in 0..(v - 1) /\ 1 \in 1..n
        BY <1>1, <2>1
    <2> HIDE DEF d, v, n
    <2>3. d * n \in Nat /\ d * n + n <= v * n
        BY <1>1, <2>2, InBlock
    <2> QED BY <2>3 DEF d
<1>3. ASSUME NEW i \in 1..(v * n) PROVE TestOf(i) = p <=> i \in (a + 1)..(a + n)
    <2> DEFINE x == i - 1
               d == x \div n
               r == x % n
    <2>1. x \in Nat /\ i = x + 1
        OBVIOUS
    <2> HIDE DEF x
    <2>2. d \in Nat /\ r \in 0..(n - 1) /\ x = d * n + r
        BY <1>1, <2>1, DivisionOf
    <2>3. TestOf(i) = d + 1
        BY <2>1 DEF TestOf, x
    <2> HIDE DEF d, r
    <2>4. ASSUME d + 1 = p PROVE i \in (a + 1)..(a + n)
        <3>1. d = p - 1
            BY <2>2, <2>4
        <3>2. d * n = a
            BY <3>1
        <3> HIDE DEF a
        <3> QED BY <1>1, <1>2, <2>1, <2>2, <3>2
    <2>5. ASSUME i \in (a + 1)..(a + n) PROVE d + 1 = p
        <3> DEFINE c == p - 1
                   e == x - a
        <3>1. c \in Nat /\ a = c * n
            OBVIOUS
        <3> HIDE DEF a, c
        <3>2. e \in 0..(n - 1) /\ x = a + e
            BY <1>1, <1>2, <2>1, <2>5
        <3> HIDE DEF e
        <3>3. (c * n + e) \div n = c
            BY <1>1, <3>1, <3>2, DivisionIs
        <3>4. d = c
            BY <3>1, <3>2, <3>3 DEF d
        <3> QED BY <3>4 DEF c
    <2> QED BY <2>3, <2>4, <2>5
<1>4. S = (a + 1)..(a + n)
    <2> HIDE DEF v, n, a
    <2>1. \A i \in (a + 1)..(a + n) : i \in 1..(v * n)
        <3>1. v * n \in Nat
            BY <1>1
        <3> QED BY <1>1, <1>2, <3>1
    <2> QED BY <1>1, <1>3, <2>1
<1> HIDE DEF a, n, v, S
<1>5. Cardinality((a + 1)..(a + n)) = n
    <2> DEFINE lo == a + 1
               hi == a + n
    <2>1. lo \in Int /\ hi \in Int /\ ~(lo > hi) /\ hi - lo + 1 = n
        BY <1>1, <1>2
    <2> HIDE DEF lo, hi
    <2>2. Cardinality(lo..hi) = hi - lo + 1
        BY <2>1, FS_Interval
    <2> QED BY <2>1, <2>2 DEF lo, hi
<1> QED BY <1>4, <1>5 DEF S, n

\* Over every number of prompts, repeats and ranks, padding and dispatching lose no
\* validation prompt and leave no padding row, and every response is one of the
\* policy as it is now, to the prompt it is scored with (but for the orders
\* PipelineKeepsOrder is about).
THEOREM ValidatesAll == Spec => []ValidationCoversAll
<1>1. PpoInv /\ ValidationNow => ValidationCoversAll
    <2> SUFFICES ASSUME PpoInv, ValidationNow, val # <<>> PROVE ValidationCoversAll
        BY DEF ValidationCoversAll
    <2>1. setting \in Settings /\ val \in Seq(ValRow) /\ actor \in Nat
        BY DEF PpoInv, PpoTypes
    <2>2. Len(val) # 0
        BY <2>1
    <2>3. IsValidation(val)
        BY <2>2 DEF ValidationNow
    <2>4. DOMAIN val = 1..TestCount /\ Len(val) = TestCount /\ TestCount \in Nat
        <3> DEFINE m == TestCount
        <3>1. m \in Nat /\ DOMAIN val = 1..m
            BY <2>1, <2>3, TestsAre DEF IsValidation
        <3> HIDE DEF m
        <3>2. Len(val) = m
            BY <2>1, <3>1, LenProperties
        <3> QED BY <3>1, <3>2 DEF m
    <2>5. ASSUME NEW p \in 1..setting.valSize
          PROVE  Cardinality({i \in DOMAIN val : val[i].prompt = p}) = setting.valN
        <3>1. {i \in DOMAIN val : val[i].prompt = p} = {i \in 1..TestCount : TestOf(i) = p}
            BY <2>3, <2>4 DEF IsValidation
        <3> QED BY <2>1, <3>1, RowsOfTest
    <2>6. ASSUME NEW i \in DOMAIN val
          PROVE  val[i].resp.by = actor /\ (Misplaces \/ val[i].resp.of = val[i].prompt)
        <3>1. val[i].resp \in NowResp /\ i \in 1..TestCount
            BY <2>3, <2>4 DEF IsValidation
        <3>2. val[i].resp.by = actor
            BY <3>1 DEF NowResp
        <3>3. Misplaces \/ KeepsOrder(setting)
            <4>1. Dp(setting) \in Nat \ {0} /\ setting.pp \in Nat \ {0}
                BY <2>1, SettingIs, SettingsAreLayouts DEF IsLayout
            <4> QED BY <4>1 DEF Misplaces, KeepsOrder
        <3>4. KeepsOrder(setting) => val[i].resp.of = val[i].prompt
            BY <2>3, <3>1 DEF IsValidation
        <3> QED BY <3>2, <3>3, <3>4
    <2>7. Len(val) = setting.valSize * setting.valN
        BY <2>4 DEF TestCount
    <2> QED BY <2>5, <2>6, <2>7 DEF ValidationCoversAll
<1> QED BY <1>1, PpoInvariant, ValidationNowHolds, PTL

-------------------------------------------------------------------------------
(* What a row holds is its own *)

\* A response to a prompt of the batch, by the policy as it is.
FreshResp == [of : 1..setting.batch, k : 1..setting.n, by : {actor}, len : setting.lens]
GreedyResp == [of : 1..setting.batch, k : {0}, by : {actor}, len : setting.lens]

\* The n responses to a prompt stand together, in the order of the prompts.
InOrderOfPrompts(g) ==
    \A p \in 1..setting.batch : \A k \in 1..setting.n :
        g[(p - 1) * setting.n + k].of = p /\ g[(p - 1) * setting.n + k].k = k

GeneratedNow(g) ==
    /\ g \in [1..(setting.batch * setting.n) -> FreshResp]
    /\ KeepsOrder(setting) => InOrderOfPrompts(g)

\* A row of the batch before it has a response.
AskedNow(r, i) ==
    /\ r.uid = i /\ r.prompt = i
    /\ r.old = {} /\ r.ref = {} /\ r.values = {} /\ r.score = {} /\ r.reward = {} /\ r.adv = {}
    /\ \A c \in r.base : c.by = actor /\ (KeepsOrder(setting) => c.of = i)

\* What RowsStayAligned says of a row, which is in the group of its prompt.
Own(r) ==
    /\ r.uid = r.prompt
    /\ \A c \in r.old : c.of = r.resp /\ c.under = r.resp.by
    /\ \A c \in r.ref : c.of = r.resp /\ c.under = 0
    /\ \A c \in r.values : c.of = r.resp /\ (c.mask = r.resp \/ setting.dynamic)
    /\ \A c \in r.score : c.of = r.resp
    /\ \A c \in r.base : c.by = r.resp.by
    /\ r.reward \subseteq {r.resp}
    /\ KeepsOrder(setting) =>
        /\ r.resp.of = r.prompt
        /\ \A c \in r.base \cup r.adv : c.of = r.prompt
        /\ \A c \in r.score : c.truth = r.prompt

\* The responses in the group of a prompt.
ResponsesIn(q, p) == {q[j].resp : j \in {x \in DOMAIN q : q[x].uid = p}}
Responses(p) == ResponsesIn(rows, p)

IsGroup(R, n) == Cardinality(R) = n /\ \A r \in R : r.k \in 1..n

\* What an advantage is made of in the end.
Compared(i) ==
    IF Grouped THEN Responses(rows[i].uid) ELSE {rows[i].resp} \cup rows[i].base

GenFresh == pc \in {"baseline", "unite"} => GeneratedNow(gen)
AskedFresh == pc = "unite" => \A i \in DOMAIN rows : AskedNow(rows[i], i)
RespFresh == pc \in {"balance", "old_log_prob"} => \A i \in DOMAIN rows : rows[i].resp.by = actor
RowsOwn == pc # "unite" => \A i \in DOMAIN rows : Own(rows[i])
Scored == pc = "reward" => \A i \in DOMAIN rows : rows[i].score # {}
Rewarded == pc = "advantage" => \A i \in DOMAIN rows : rows[i].reward = {rows[i].resp}
Grouping ==
    pc \in Working /\ KeepsOrder(setting) =>
        \A p \in 1..setting.batch : IsGroup(Responses(p), setting.n)
Advantages ==
    pc \in {"update_critic", "update_actor", "test"} /\ KeepsOrder(setting) =>
        \A i \in DOMAIN rows : rows[i].adv = Compared(i)

OwnInv ==
    /\ GenFresh /\ AskedFresh /\ RespFresh /\ RowsOwn
    /\ Scored /\ Rewarded /\ Grouping /\ Advantages

LEMMA OwnInit == Init => OwnInv
<1> SUFFICES ASSUME Init PROVE OwnInv
    OBVIOUS
<1>1. pc = "config" /\ rows = <<>>
    BY DEF Init
<1>2. DOMAIN rows = {}
    BY <1>1
<1> QED BY <1>1, <1>2 DEF OwnInv, GenFresh, AskedFresh, RespFresh, RowsOwn, Scored, Rewarded,
        Grouping, Advantages, Working

LEMMA GeneratedIs ==
    ASSUME PpoInv, Generate
    PROVE  IF setting.batch % PromptsDivisor(setting) # 0 THEN pc' = "raised" /\ rows' = rows
           ELSE GeneratedNow(gen') /\ pc' \in {"baseline", "unite"} /\ rows' = rows /\ actor' = actor
<1>1. setting \in Settings /\ WorkersStart /\ actor \in Nat
    BY DEF PpoInv, PpoTypes, Checked, Generate
<1>2. IsLayout(setting) /\ EngineFits(setting)
    BY <1>1, EngineIs
<1>3. CASE setting.batch % PromptsDivisor(setting) # 0
    BY <1>3 DEF Generate, Raise
<1>4. CASE setting.batch % PromptsDivisor(setting) = 0
    <2>1. PICK lens \in [1..(setting.batch * setting.n) -> setting.lens] :
              gen' = Generations(setting, Prompts, AnswersOf(lens))
        BY <1>4 DEF Generate, AnswersOf
    <2>2. pc' \in {"baseline", "unite"} /\ rows' = rows /\ actor' = actor
        BY <1>4 DEF Generate, Go
    <2> DEFINE q == Prompts
               l == setting
               n == setting.n
               p == setting.batch
               answers == AnswersOf(lens)
               g == Generations(l, q, answers)
    <2>3. Len(q) = p /\ \A x \in 1..p : q[x] = x
        BY <1>1, PromptsAre
    <2>4. q \in Seq(1..p)
        BY <1>1, PromptsAre
    <2>5. p \in Nat /\ n \in Nat
        BY <1>1, SettingIs
    <2>6. AnswersAre(answers, p, FreshResp, n)
        <3>1. AnswersAre(answers, p, Resp, n)
            BY <1>1, AnswersOfAre
        <3>2. ASSUME NEW x \in 1..p PROVE answers[x] \in Seq(FreshResp)
            <4> DEFINE a == [k \in 1..n |-> Response(x, k, Synced, lens[(x - 1) * n + k])]
            <4>1. answers[x] = a
                BY DEF AnswersOf
            <4>2. ASSUME NEW k \in 1..n PROVE lens[(x - 1) * n + k] \in setting.lens
                <5> DEFINE d == x - 1
                <5>1. d \in 0..(p - 1)
                    BY <2>5
                <5> HIDE DEF d, n, p
                <5>2. d * n + k \in 1..(p * n)
                    BY <2>5, <5>1, InBlock
                <5> QED BY <5>2 DEF d, n, p
            <4>3. a \in [1..n -> FreshResp]
                BY <4>2 DEF Response, Synced, FreshResp
            <4> HIDE DEF a
            <4> QED BY <2>5, <4>1, <4>3, FunctionIsSeq
        <3>3. answers = [x \in 1..p |-> answers[x]]
            BY DEF AnswersOf
        <3> HIDE DEF answers
        <3> QED BY <3>1, <3>2, <3>3 DEF AnswersAre
    <2>7. Len(q) % PromptsDivisor(l) = 0
        BY <1>4, <2>3
    <2>8. \A x \in 1..p : \A k \in 1..n : answers[x][k].of = x /\ answers[x][k].k = k
        BY DEF AnswersOf, Response
    <2>9. gen' = g
        BY <2>1
    <2> HIDE DEF answers, q, n, p
    <2>10. /\ g \in Seq(FreshResp) /\ Len(g) = Len(q) * n
           /\ KeepsOrder(l) => Answered(g, q, answers, n)
        <3>1. Asks(l, q, p, FreshResp, n, answers)
            BY <1>2, <2>4, <2>5, <2>6, <2>7 DEF Asks
        <3>2. Gives(Generations(l, q, answers), l, q, FreshResp, n, answers)
            BY <3>1, GenerationsGive
        <3> QED BY <3>2 DEF Gives
    <2> HIDE DEF g
    <2>11. g \in [1..(p * n) -> FreshResp]
        <3> DEFINE m == Len(g)
        <3>1. g \in [1..m -> FreshResp] /\ m = p * n
            BY <2>3, <2>10
        <3> QED BY <3>1
    <2>12. ASSUME KeepsOrder(l), NEW x \in 1..p, NEW k \in 1..n
           PROVE  g[(x - 1) * n + k].of = x /\ g[(x - 1) * n + k].k = k
        <3>1. IsBlock(answers[q[x]], g, x - 1, n)
            BY <2>3, <2>10, <2>12 DEF Answered
        <3>2. answers[x][k] = g[(x - 1) * n + k]
            BY <2>3, <3>1 DEF IsBlock
        <3> QED BY <2>8, <3>2
    <2>13. GeneratedNow(g)
        BY <2>11, <2>12 DEF GeneratedNow, InOrderOfPrompts, n, p
    <2> QED BY <1>4, <2>2, <2>9, <2>13
<1> QED BY <1>3, <1>4

LEMMA BaselineIs ==
    ASSUME PpoInv, GenerateBaseline
    PROVE  /\ DOMAIN rows' = 1..setting.batch /\ pc' = "unite" /\ UNCHANGED <<setting, gen, actor>>
           /\ \A i \in DOMAIN rows' : AskedNow(rows'[i], i)
<1>1. setting \in Settings /\ WorkersStart /\ actor \in Nat /\ setting.batch % PromptsDivisor(setting) = 0
    BY DEF PpoInv, PpoTypes, Checked, GenerateBaseline
<1>2. IsLayout(setting) /\ EngineFits(setting)
    BY <1>1, EngineIs
<1> DEFINE q == Prompts
           l == setting
           p == setting.batch
           g == Generations(l, q, Greedy)
<1>3. Len(q) = p /\ DOMAIN q = 1..p /\ \A x \in 1..p : q[x] = x
    BY <1>1, PromptsAre
<1>4. q \in Seq(1..p) /\ p \in Nat /\ 1 \in Nat
    BY <1>1, PromptsAre, SettingIs
<1>5. /\ rows' = [i \in DOMAIN q |-> [NewRow(i) EXCEPT !.base = {g[i]}]]
      /\ pc' = "unite" /\ UNCHANGED <<setting, gen, actor>>
    BY DEF GenerateBaseline, Greedy, Go
<1>6. AnswersAre(Greedy, p, GreedyResp, 1) /\ \A x \in 1..p : Greedy[x][1].of = x
    <2>1. \A x \in 1..p : Response(x, 0, Synced, Width) \in GreedyResp
        BY <1>1, WidthIs DEF Response, Synced, GreedyResp
    <2> QED BY <1>3, <2>1 DEF AnswersAre, Greedy, Response
<1>7. Len(q) % PromptsDivisor(l) = 0
    BY <1>1, <1>3
<1> HIDE DEF q, p
<1>8. /\ g \in Seq(GreedyResp) /\ Len(g) = Len(q) * 1
      /\ KeepsOrder(l) => Answered(g, q, Greedy, 1)
    BY <1>2, <1>4, <1>6, <1>7, GenerationsAre
<1> HIDE DEF g
<1>9. Len(g) = p
    BY <1>3, <1>4, <1>8
<1>10. ASSUME NEW i \in 1..p PROVE g[i].by = actor /\ (KeepsOrder(l) => g[i].of = i)
    <2>1. g[i] \in GreedyResp
        BY <1>8, <1>9
    <2>2. ASSUME KeepsOrder(l) PROVE g[i].of = i
        <3>1. IsBlock(Greedy[q[i]], g, i - 1, 1)
            BY <1>3, <1>8, <2>2 DEF Answered
        <3>2. Greedy[i][1] = g[(i - 1) * 1 + 1]
            BY <1>3, <3>1 DEF IsBlock
        <3>3. (i - 1) * 1 + 1 = i
            BY <1>4
        <3> QED BY <1>6, <3>2, <3>3
    <2> QED BY <2>1, <2>2 DEF GreedyResp
<1>11. ASSUME NEW i \in 1..p PROVE AskedNow(rows'[i], i)
    <2>1. rows'[i] = [NewRow(i) EXCEPT !.base = {g[i]}]
        BY <1>3, <1>5
    <2> QED BY <1>10, <2>1 DEF AskedNow, NewRow
<1>12. DOMAIN rows' = 1..p
    BY <1>3, <1>5
<1> QED BY <1>5, <1>11, <1>12 DEF p

LEMMA ImageCount ==
    ASSUME NEW n \in Nat, NEW f, \A k, j \in 1..n : f[k] = f[j] => k = j
    PROVE  Cardinality({f[k] : k \in 1..n}) = n
<1> DEFINE T == {f[k] : k \in 1..n}
           h == [k \in 1..n |-> f[k]]
<1>1. h \in Injection(1..n, T) /\ h \in Surjection(1..n, T)
    BY DEF Injection, IsInjective, Surjection
<1>2. h \in Bijection(1..n, T)
    BY <1>1 DEF Bijection
<1>3. ExistsBijection(1..n, T)
    BY <1>2 DEF ExistsBijection
<1> HIDE DEF T
<1>4. Cardinality(T) = n
    BY <1>3, FS_CountingElements
<1> QED BY <1>4 DEF T

\* Which of the responses to its prompt row i has.
CopyOf(i) == ((i - 1) % setting.n) + 1

LEMMA PlaceOf ==
    ASSUME setting \in Settings, NEW i \in 1..(setting.batch * setting.n)
    PROVE  /\ PromptOf(i) \in 1..setting.batch /\ CopyOf(i) \in 1..setting.n
           /\ i = (PromptOf(i) - 1) * setting.n + CopyOf(i)
<1> DEFINE n == setting.n
           b == setting.batch
           x == i - 1
           d == x \div n
           r == x % n
<1>1. b \in Nat \ {0} /\ n \in Nat \ {0}
    BY SettingIs
<1>2. x \in Nat /\ i = x + 1
    OBVIOUS
<1> HIDE DEF x, n, b
<1>3. d \in Nat /\ r \in 0..(n - 1) /\ x = d * n + r
    BY <1>1, <1>2, DivisionOf
<1>4. PromptOf(i) = d + 1 /\ CopyOf(i) = r + 1
    BY DEF PromptOf, CopyOf, x, n
<1>5. PromptOf(i) \in 1..b
    BY PromptOfIs DEF b
<1> HIDE DEF d, r
<1>6. (PromptOf(i) - 1) * n = d * n /\ d * n \in Nat
    BY <1>1, <1>3, <1>4
<1>7. i = (PromptOf(i) - 1) * n + CopyOf(i) /\ CopyOf(i) \in 1..n
    BY <1>1, <1>2, <1>3, <1>4, <1>6
<1> QED BY <1>5, <1>7 DEF n, b

LEMMA PlaceIs ==
    ASSUME setting \in Settings, NEW p \in 1..setting.batch, NEW k \in 1..setting.n
    PROVE  /\ (p - 1) * setting.n + k \in 1..(setting.batch * setting.n)
           /\ PromptOf((p - 1) * setting.n + k) = p
<1> DEFINE n == setting.n
           b == setting.batch
           c == p - 1
           e == k - 1
           i == c * n + k
<1>1. b \in Nat \ {0} /\ n \in Nat \ {0}
    BY SettingIs
<1>2. c \in 0..(b - 1) /\ c \in Nat /\ e \in 0..(n - 1) /\ k = e + 1 /\ p = c + 1 /\ k \in 1..n
    BY <1>1
<1> HIDE DEF c, n, b, e
<1>3. i \in 1..(b * n) /\ c * n \in Nat
    BY <1>1, <1>2, InBlock
<1>4. i - 1 = c * n + e
    BY <1>2, <1>3
<1>5. (c * n + e) \div n = c
    BY <1>1, <1>2, DivisionIs
<1>6. PromptOf(i) = p
    <2>1. PromptOf(i) = ((i - 1) \div n) + 1
        BY DEF PromptOf, n
    <2> HIDE DEF i
    <2> QED BY <1>2, <1>4, <1>5, <2>1
<1> QED BY <1>3, <1>6 DEF c, n, b

\* A row that asks, with its response.
LEMMA UnitedIsOwn ==
    ASSUME setting \in Settings, NEW p \in 1..setting.batch, NEW r \in Row({{}}), AskedNow(r, p),
           NEW g \in FreshResp, KeepsOrder(setting) => g.of = p
    PROVE  /\ Own([r EXCEPT !.resp = g]) /\ [r EXCEPT !.resp = g].uid = p
           /\ [r EXCEPT !.resp = g].resp = g /\ g.by = actor
<1> DEFINE t == [r EXCEPT !.resp = g]
<1>1. /\ t.uid = p /\ t.prompt = p /\ t.old = {} /\ t.ref = {} /\ t.values = {} /\ t.score = {}
      /\ t.reward = {} /\ t.adv = {} /\ t.base = r.base /\ t.resp = g
    BY DEF AskedNow, Row
<1>2. g.by = actor
    BY DEF FreshResp
<1>3. \A c \in r.base : c.by = actor /\ (KeepsOrder(setting) => c.of = p)
    BY DEF AskedNow
<1> HIDE DEF t
<1>4. Own(t)
    BY <1>1, <1>2, <1>3 DEF Own
<1> QED BY <1>1, <1>2, <1>4 DEF t

LEMMA AskedAreNow ==
    ASSUME PpoInv, OwnInv, pc = "unite", NEW p \in 1..setting.batch
    PROVE  AskedNow(Asked[p], p) /\ Asked[p] \in Row({{}})
<1>1. setting \in Settings
    BY DEF PpoInv, PpoTypes
<1>2. Asked[p] \in Row({{}}) /\ Asked \in [1..setting.batch -> Row({{}})]
    BY AskedIs
<1>3. CASE rows = <<>>
    <2>1. DOMAIN Prompts = 1..setting.batch
        BY <1>1, PromptsAre
    <2>2. Asked[p] = NewRow(p)
        BY <1>3, <2>1 DEF Asked
    <2>3. AskedNow(NewRow(p), p)
        BY DEF AskedNow, NewRow
    <2> QED BY <1>2, <2>2, <2>3
<1>4. CASE rows # <<>>
    <2>1. Asked = rows
        BY <1>4 DEF Asked
    <2>2. p \in DOMAIN rows
        BY <1>2, <2>1
    <2>3. AskedNow(rows[p], p)
        BY <2>2 DEF OwnInv, AskedFresh
    <2> QED BY <1>2, <2>1, <2>3
<1> QED BY <1>3, <1>4

LEMMA UnitedAreOwn ==
    ASSUME PpoInv, OwnInv, UniteResponses
    PROVE  /\ DOMAIN rows' = 1..(setting.batch * setting.n)
           /\ \A i \in DOMAIN rows' :
                  /\ Own(rows'[i]) /\ rows'[i].resp.by = actor /\ rows'[i].uid = PromptOf(i)
                  /\ rows'[i].resp = gen[i]
<1>1. setting \in Settings /\ pc = "unite"
    BY DEF PpoInv, PpoTypes, UniteResponses
<1>2. GeneratedNow(gen)
    BY <1>1 DEF OwnInv, GenFresh
<1> DEFINE m == setting.batch * setting.n
<1>3. /\ DOMAIN rows' = 1..m
      /\ \A i \in 1..m : /\ PromptOf(i) \in 1..setting.batch
                         /\ rows'[i] = [Asked[PromptOf(i)] EXCEPT !.resp = gen[i]]
    BY UnitedRows
<1>4. ASSUME NEW i \in 1..m
      PROVE  gen[i] \in FreshResp /\ (KeepsOrder(setting) => gen[i].of = PromptOf(i))
    <2>1. gen[i] \in FreshResp
        BY <1>2 DEF GeneratedNow
    <2>2. ASSUME KeepsOrder(setting) PROVE gen[i].of = PromptOf(i)
        <3>1. /\ PromptOf(i) \in 1..setting.batch /\ CopyOf(i) \in 1..setting.n
              /\ i = (PromptOf(i) - 1) * setting.n + CopyOf(i)
            BY <1>1, PlaceOf
        <3>2. InOrderOfPrompts(gen)
            BY <1>2, <2>2 DEF GeneratedNow
        <3>3. gen[(PromptOf(i) - 1) * setting.n + CopyOf(i)].of = PromptOf(i)
            BY <3>1, <3>2 DEF InOrderOfPrompts
        <3> QED BY <3>1, <3>3
    <2> QED BY <2>1, <2>2
<1>5. ASSUME NEW i \in 1..m
      PROVE  /\ Own(rows'[i]) /\ rows'[i].resp.by = actor /\ rows'[i].uid = PromptOf(i)
             /\ rows'[i].resp = gen[i]
    <2> DEFINE p == PromptOf(i)
               r == Asked[p]
               g == gen[i]
    <2>1. p \in 1..setting.batch /\ rows'[i] = [r EXCEPT !.resp = g]
        BY <1>3
    <2>2. g \in FreshResp /\ (KeepsOrder(setting) => g.of = p)
        BY <1>4
    <2>3. r \in Row({{}}) /\ AskedNow(r, p)
        BY <1>1, <2>1, AskedAreNow
    <2> HIDE DEF p, r, g
    <2>4. /\ Own([r EXCEPT !.resp = g]) /\ [r EXCEPT !.resp = g].uid = p
          /\ [r EXCEPT !.resp = g].resp = g /\ g.by = actor
        BY <1>1, <2>1, <2>2, <2>3, UnitedIsOwn
    <2> QED BY <2>1, <2>4 DEF p, g
<1> QED BY <1>3, <1>5

\* The responses in the group of a prompt, after a step.
LEMMA UnitedGroups ==
    ASSUME PpoInv, OwnInv, UniteResponses, KeepsOrder(setting), NEW p \in 1..setting.batch
    PROVE  IsGroup(ResponsesIn(rows', p), setting.n)
<1> DEFINE n == setting.n
           at(k) == (p - 1) * n + k
           f == [k \in 1..n |-> gen[at(k)]]
           R == {rows'[j].resp : j \in {x \in DOMAIN rows' : rows'[x].uid = p}}
<1>1. setting \in Settings /\ pc = "unite" /\ n \in Nat
    BY SettingIs DEF PpoInv, PpoTypes, UniteResponses
<1>2. InOrderOfPrompts(gen)
    BY <1>1 DEF OwnInv, GenFresh, GeneratedNow
<1>3. /\ DOMAIN rows' = 1..(setting.batch * n)
      /\ \A i \in DOMAIN rows' : rows'[i].uid = PromptOf(i) /\ rows'[i].resp = gen[i]
    BY UnitedAreOwn
<1>4. \A k \in 1..n : at(k) \in DOMAIN rows' /\ PromptOf(at(k)) = p
    BY <1>1, <1>3, PlaceIs
<1>5. \A j \in DOMAIN rows' : PromptOf(j) = p => \E k \in 1..n : j = at(k)
    BY <1>1, <1>3, PlaceOf
<1>6. R = {f[k] : k \in 1..n}
    <2>1. ASSUME NEW x \in R PROVE \E k \in 1..n : x = f[k]
        <3>1. PICK j \in DOMAIN rows' : rows'[j].uid = p /\ x = rows'[j].resp
            BY <2>1
        <3>2. PICK k \in 1..n : j = at(k)
            BY <1>3, <1>5, <3>1
        <3> QED BY <1>3, <3>1, <3>2
    <2>2. ASSUME NEW k \in 1..n PROVE f[k] \in R
        BY <1>3, <1>4
    <2> HIDE DEF R, f
    <2> QED BY <2>1, <2>2
<1>7. \A k \in 1..n : f[k].k = k
    BY <1>2 DEF InOrderOfPrompts
<1> HIDE DEF f, R
<1>8. Cardinality(R) = n
    BY <1>1, <1>6, <1>7, ImageCount
<1>9. \A r \in R : r.k \in 1..n
    BY <1>6, <1>7
<1>10. R = ResponsesIn(rows', p)
    BY DEF R, ResponsesIn
<1> QED BY <1>8, <1>9, <1>10 DEF IsGroup, n

\* A step after which every row is whole.
LEMMA OwnKept ==
    ASSUME setting' = setting, pc' \notin {"baseline", "unite"},
           \A i \in DOMAIN rows' : Own(rows'[i]),
           pc' \in {"balance", "old_log_prob"} => \A i \in DOMAIN rows' : rows'[i].resp.by = actor',
           pc' = "reward" => \A i \in DOMAIN rows' : rows'[i].score # {},
           pc' = "advantage" => \A i \in DOMAIN rows' : rows'[i].reward = {rows'[i].resp},
           pc' \in Working /\ KeepsOrder(setting) =>
               \A p \in 1..setting.batch : IsGroup(ResponsesIn(rows', p), setting.n),
           pc' \in {"update_critic", "update_actor", "test"} /\ KeepsOrder(setting) =>
               \A i \in DOMAIN rows' :
                   rows'[i].adv = IF Grouped THEN ResponsesIn(rows', rows'[i].uid)
                                  ELSE {rows'[i].resp} \cup rows'[i].base
    PROVE  OwnInv'
<1>1. KeepsOrder(setting)' = KeepsOrder(setting) /\ Grouped' = Grouped
    BY DEF KeepsOrder, Dp, Grouped
<1>2. GenFresh' /\ AskedFresh'
    BY DEF GenFresh, AskedFresh
<1>3. RespFresh' /\ Scored' /\ Rewarded'
    BY DEF RespFresh, Scored, Rewarded
<1>4. RowsOwn'
    BY <1>1 DEF RowsOwn, Own
<1>5. Grouping'
    BY <1>1 DEF Grouping, Responses, IsGroup, Working
<1>6. Advantages'
    BY <1>1 DEF Advantages, Compared, Responses
<1> QED BY <1>2, <1>3, <1>4, <1>5, <1>6 DEF OwnInv

LEMMA UniteKeepsOwn == ASSUME PpoInv, OwnInv, UniteResponses PROVE OwnInv'
<1>1. setting' = setting /\ actor' = actor /\ pc' \in {"balance", "old_log_prob"}
    BY DEF UniteResponses, Go
<1>2. \A i \in DOMAIN rows' : Own(rows'[i]) /\ rows'[i].resp.by = actor
    BY UnitedAreOwn
<1>3. KeepsOrder(setting) =>
          \A p \in 1..setting.batch : IsGroup(ResponsesIn(rows', p), setting.n)
    BY UnitedGroups
<1> QED BY <1>1, <1>2, <1>3, OwnKept

LEMMA ReorderedGroups ==
    ASSUME NEW q, NEW n \in Nat, DOMAIN q = 1..n, NEW order, Permutes(order, n), NEW p
    PROVE  ResponsesIn([i \in DOMAIN q |-> q[order[i]]], p) = ResponsesIn(q, p)
<1> DEFINE t == [i \in DOMAIN q |-> q[order[i]]]
<1>1. /\ \A i \in 1..n : order[i] \in 1..n
      /\ \A r \in 1..n : \E i \in 1..n : order[i] = r
    BY DEF Permutes
<1>2. DOMAIN t = 1..n /\ \A i \in 1..n : t[i] = q[order[i]]
    OBVIOUS
<1> HIDE DEF t
<1>3. ASSUME NEW x \in ResponsesIn(t, p) PROVE x \in ResponsesIn(q, p)
    <2>1. PICK j \in 1..n : t[j].uid = p /\ x = t[j].resp
        BY <1>2, <1>3 DEF ResponsesIn
    <2>2. order[j] \in DOMAIN q /\ q[order[j]].uid = p /\ x = q[order[j]].resp
        BY <1>1, <1>2, <2>1
    <2> QED BY <2>2 DEF ResponsesIn
<1>4. ASSUME NEW x \in ResponsesIn(q, p) PROVE x \in ResponsesIn(t, p)
    <2>1. PICK j \in 1..n : q[j].uid = p /\ x = q[j].resp
        BY <1>4 DEF ResponsesIn
    <2>2. PICK i \in 1..n : order[i] = j
        BY <1>1
    <2>3. t[i].uid = p /\ x = t[i].resp /\ i \in DOMAIN t
        BY <1>2, <2>1, <2>2
    <2> QED BY <2>3 DEF ResponsesIn
<1>5. ResponsesIn(t, p) = ResponsesIn(q, p)
    BY <1>3, <1>4
<1> QED BY <1>5 DEF t

LEMMA BalanceKeepsOwn == ASSUME PpoInv, OwnInv, BalanceBatch PROVE OwnInv'
<1>1. setting' = setting /\ actor' = actor /\ pc = "balance" /\ pc' = "old_log_prob"
    BY DEF BalanceBatch, Go
<1> DEFINE order == BalanceOrder(Lens(rows))
<1>2. rows' = [i \in DOMAIN rows |-> rows[order[i]]] /\ Permutes(order, Len(rows))
    BY BalancedRows
<1>3. DOMAIN rows = 1..Len(rows) /\ Len(rows) \in Nat
    BY LenProperties DEF PpoInv, RowTypes
<1> HIDE DEF order
<1>4. \A i \in DOMAIN rows : order[i] \in DOMAIN rows
    BY <1>2, <1>3 DEF Permutes
<1>5. \A i \in DOMAIN rows : Own(rows[i]) /\ rows[i].resp.by = actor
    BY <1>1 DEF OwnInv, RowsOwn, RespFresh
<1>6. \A i \in DOMAIN rows' : Own(rows'[i]) /\ rows'[i].resp.by = actor
    BY <1>2, <1>4, <1>5
<1>7. ASSUME NEW p PROVE ResponsesIn(rows', p) = ResponsesIn(rows, p)
    BY <1>2, <1>3, ReorderedGroups
<1>8. KeepsOrder(setting) =>
          \A p \in 1..setting.batch : IsGroup(ResponsesIn(rows', p), setting.n)
    BY <1>1, <1>7 DEF OwnInv, Grouping, Responses, Working
<1> QED BY <1>1, <1>6, <1>8, OwnKept

LEMMA SameGroups ==
    ASSUME NEW q, NEW t, DOMAIN q = DOMAIN t,
           \A i \in DOMAIN q : q[i].uid = t[i].uid /\ q[i].resp = t[i].resp, NEW p
    PROVE  ResponsesIn(q, p) = ResponsesIn(t, p)
BY DEF ResponsesIn

LEMMA ColumnOwn ==
    ASSUME setting \in Settings, NEW r \in Row(Resp), Own(r)
    PROVE  /\ Own([r EXCEPT !.old = {[of |-> r.resp, under |-> r.resp.by]}])
           /\ Own([r EXCEPT !.ref = {[of |-> r.resp, under |-> 0]}])
           /\ \A v : v.of = r.resp /\ (v.mask = r.resp \/ setting.dynamic) =>
                  Own([r EXCEPT !.values = {v}])
           /\ \A x : (KeepsOrder(setting) => x = r.prompt) =>
                  Own([r EXCEPT !.score = {[of |-> r.resp, truth |-> x]}])
           /\ Own([r EXCEPT !.reward = {r.resp}])
           /\ \A s, z : (KeepsOrder(setting) => \A c \in s : c.of = r.prompt) =>
                  Own([r EXCEPT !.adv = s, !.scale = z])
<1>1. Own([r EXCEPT !.old = {[of |-> r.resp, under |-> r.resp.by]}])
    BY DEF Own, Row
<1>2. Own([r EXCEPT !.ref = {[of |-> r.resp, under |-> 0]}])
    BY DEF Own, Row
<1>3. ASSUME NEW v, v.of = r.resp /\ (v.mask = r.resp \/ setting.dynamic)
      PROVE  Own([r EXCEPT !.values = {v}])
    BY <1>3 DEF Own, Row
<1>4. ASSUME NEW x, KeepsOrder(setting) => x = r.prompt
      PROVE  Own([r EXCEPT !.score = {[of |-> r.resp, truth |-> x]}])
    BY <1>4 DEF Own, Row
<1>5. Own([r EXCEPT !.reward = {r.resp}])
    BY DEF Own, Row
<1>6. ASSUME NEW s, NEW z, KeepsOrder(setting) => \A c \in s : c.of = r.prompt
      PROVE  Own([r EXCEPT !.adv = s, !.scale = z])
    BY <1>6 DEF Own, Row
<1> QED BY <1>1, <1>2, <1>3, <1>4, <1>5, <1>6

LEMMA ColumnKept ==
    ASSUME OwnInv, pc \in Working, setting' = setting,
           pc' \notin {"baseline", "unite", "balance", "old_log_prob"},
           DOMAIN rows' = DOMAIN rows,
           \A i \in DOMAIN rows :
               rows'[i].uid = rows[i].uid /\ rows'[i].resp = rows[i].resp /\ Own(rows'[i]),
           pc' = "reward" => \A i \in DOMAIN rows : rows'[i].score # {},
           pc' = "advantage" => \A i \in DOMAIN rows : rows'[i].reward = {rows[i].resp},
           pc' \in {"update_critic", "update_actor", "test"} /\ KeepsOrder(setting) =>
               \A i \in DOMAIN rows : rows'[i].adv = Compared(i) /\ rows'[i].base = rows[i].base
    PROVE  OwnInv'
<1>1. ASSUME NEW p PROVE ResponsesIn(rows', p) = ResponsesIn(rows, p)
    BY SameGroups
<1>2. pc' \in Working /\ KeepsOrder(setting) =>
          \A p \in 1..setting.batch : IsGroup(ResponsesIn(rows', p), setting.n)
    BY <1>1 DEF OwnInv, Grouping, Responses
<1>3. pc' \in {"update_critic", "update_actor", "test"} /\ KeepsOrder(setting) =>
          \A i \in DOMAIN rows' :
              rows'[i].adv = IF Grouped THEN ResponsesIn(rows', rows'[i].uid)
                             ELSE {rows'[i].resp} \cup rows'[i].base
    BY <1>1 DEF Compared, Responses
<1>4. \A i \in DOMAIN rows' : Own(rows'[i])
    OBVIOUS
<1>5. pc' = "reward" => \A i \in DOMAIN rows' : rows'[i].score # {}
    OBVIOUS
<1>6. pc' = "advantage" => \A i \in DOMAIN rows' : rows'[i].reward = {rows'[i].resp}
    OBVIOUS
<1>7. pc' \in {"balance", "old_log_prob"} => \A i \in DOMAIN rows' : rows'[i].resp.by = actor'
    OBVIOUS
<1>8. pc' \notin {"baseline", "unite"}
    OBVIOUS
<1> QED BY <1>2, <1>3, <1>4, <1>5, <1>6, <1>7, <1>8, OwnKept

LEMMA OwnAtWork ==
    ASSUME PpoInv, OwnInv, pc \in Working
    PROVE  /\ setting \in Settings /\ ConfigAccepted /\ WholeBatch
           /\ \A i \in DOMAIN rows : rows[i] \in Row(Resp) /\ Own(rows[i])
<1>1. setting \in Settings /\ ConfigAccepted /\ WholeBatch
    BY AtWork
<1>2. \A i \in DOMAIN rows : rows[i] \in Row(Resp)
    BY <1>1, RowsAre
<1>3. \A i \in DOMAIN rows : Own(rows[i])
    BY DEF OwnInv, RowsOwn, Working
<1> QED BY <1>1, <1>2, <1>3

LEMMA OldLogProbKeepsOwn == ASSUME PpoInv, OwnInv, OldLogProb, pc' # "raised" PROVE OwnInv'
<1>1. pc = "old_log_prob" /\ pc \in Working
    BY DEF OldLogProb, Working
<1>2. /\ setting \in Settings /\ ConfigAccepted /\ WholeBatch
      /\ \A i \in DOMAIN rows : rows[i] \in Row(Resp) /\ Own(rows[i])
    BY <1>1, OwnAtWork
<1>3. rows' = WithOld /\ pc' = "ref" /\ setting' = setting
    BY OldLogProbRows DEF Raise
<1>4. \A i \in DOMAIN rows : rows[i].resp.by = actor
    BY <1>1 DEF OwnInv, RespFresh
<1>5. ASSUME NEW i \in DOMAIN rows
      PROVE  rows'[i].uid = rows[i].uid /\ rows'[i].resp = rows[i].resp /\ Own(rows'[i])
    <2> DEFINE r == rows[i]
    <2>1. r \in Row(Resp) /\ Own(r) /\ r.resp.by = actor
        BY <1>2, <1>4
    <2>2. rows'[i] = [r EXCEPT !.old = {[of |-> r.resp, under |-> r.resp.by]}]
        BY <1>3, <2>1 DEF WithOld, Computed
    <2> HIDE DEF r
    <2>3. rows'[i].uid = r.uid /\ rows'[i].resp = r.resp
        BY <2>1, <2>2 DEF Row
    <2>4. Own(rows'[i])
        BY <1>2, <2>1, <2>2, ColumnOwn
    <2> QED BY <2>3, <2>4 DEF r
<1>6. DOMAIN rows' = DOMAIN rows
    BY <1>3 DEF WithOld
<1> QED BY <1>1, <1>3, <1>5, <1>6, ColumnKept

LEMMA RefLogProbKeepsOwn == ASSUME PpoInv, OwnInv, RefLogProb PROVE OwnInv'
<1>1. pc = "ref" /\ pc \in Working
    BY DEF RefLogProb, Working
<1>2. /\ setting \in Settings /\ ConfigAccepted /\ WholeBatch
      /\ \A i \in DOMAIN rows : rows[i] \in Row(Resp) /\ Own(rows[i])
    BY <1>1, OwnAtWork
<1>3. rows' = (IF setting.ref THEN WithRef ELSE rows) /\ pc' = "values" /\ setting' = setting
    BY RefLogProbRows
<1>4. ASSUME NEW i \in DOMAIN rows
      PROVE  rows'[i].uid = rows[i].uid /\ rows'[i].resp = rows[i].resp /\ Own(rows'[i])
    <2> DEFINE r == rows[i]
    <2>1. r \in Row(Resp) /\ Own(r)
        BY <1>2
    <2>2. rows'[i] = r \/ rows'[i] = [r EXCEPT !.ref = {[of |-> r.resp, under |-> 0]}]
        BY <1>3 DEF WithRef, Computed
    <2> HIDE DEF r
    <2>3. rows'[i].uid = r.uid /\ rows'[i].resp = r.resp
        BY <2>1, <2>2 DEF Row
    <2>4. Own(rows'[i])
        BY <1>2, <2>1, <2>2, ColumnOwn
    <2> QED BY <2>3, <2>4 DEF r
<1>5. DOMAIN rows' = DOMAIN rows
    BY <1>3 DEF WithRef
<1> QED BY <1>1, <1>3, <1>4, <1>5, ColumnKept

LEMMA ComputeValuesKeepsOwn == ASSUME PpoInv, OwnInv, ComputeValues PROVE OwnInv'
<1>1. pc = "values" /\ pc \in Working
    BY DEF ComputeValues, Working
<1>2. /\ setting \in Settings /\ ConfigAccepted /\ WholeBatch
      /\ \A i \in DOMAIN rows : rows[i] \in Row(Resp) /\ Own(rows[i])
    BY <1>1, OwnAtWork
<1>3. rows' = (IF Critic THEN WithValues ELSE rows) /\ pc' = "score" /\ setting' = setting
    BY ComputeValuesRows
<1>4. ASSUME NEW i \in DOMAIN rows
      PROVE  rows'[i].uid = rows[i].uid /\ rows'[i].resp = rows[i].resp /\ Own(rows'[i])
    <2> DEFINE r == rows[i]
               v == ValuesCollected[i]
    <2>1. r \in Row(Resp) /\ Own(r)
        BY <1>2
    <2>2. rows'[i] = r \/ rows'[i] = [r EXCEPT !.values = {v}]
        BY <1>3 DEF WithValues
    <2>3. v.of = r.resp /\ (v.mask = r.resp \/ setting.dynamic)
        BY <1>2, ValuesCollectedAre, RowsAre
    <2> HIDE DEF r, v
    <2>4. rows'[i].uid = r.uid /\ rows'[i].resp = r.resp
        BY <2>1, <2>2 DEF Row
    <2>5. Own(rows'[i])
        BY <1>2, <2>1, <2>2, <2>3, ColumnOwn
    <2> QED BY <2>4, <2>5 DEF r
<1>5. DOMAIN rows' = DOMAIN rows
    BY <1>3 DEF WithValues
<1> QED BY <1>1, <1>3, <1>4, <1>5, ColumnKept

LEMMA ComputeScoresKeepsOwn == ASSUME PpoInv, OwnInv, ComputeScores PROVE OwnInv'
<1>1. pc = "score" /\ pc \in Working
    BY DEF ComputeScores, Working
<1>2. /\ setting \in Settings /\ ConfigAccepted /\ WholeBatch
      /\ \A i \in DOMAIN rows : rows[i] \in Row(Resp) /\ Own(rows[i])
    BY <1>1, OwnAtWork
<1>3. rows' = WithScore /\ pc' = "reward" /\ setting' = setting
    BY ComputeScoresRows
<1>4. ASSUME NEW i \in DOMAIN rows
      PROVE  /\ rows'[i].uid = rows[i].uid /\ rows'[i].resp = rows[i].resp /\ Own(rows'[i])
             /\ rows'[i].score # {}
    <2> DEFINE r == rows[i]
               x == Truth(i)
    <2>1. r \in Row(Resp) /\ Own(r)
        BY <1>2
    <2>2. rows'[i] = [r EXCEPT !.score = {[of |-> r.resp, truth |-> x]}]
        BY <1>3 DEF WithScore, Score
    <2>3. KeepsOrder(setting) => x = r.prompt
        BY <2>1 DEF Truth, Own
    <2> HIDE DEF r, x
    <2>4. rows'[i].uid = r.uid /\ rows'[i].resp = r.resp /\ rows'[i].score # {}
        BY <2>1, <2>2 DEF Row
    <2>5. Own(rows'[i])
        <3>1. Own([r EXCEPT !.score = {[of |-> r.resp, truth |-> x]}])
            BY <1>2, <2>1, <2>3, ColumnOwn
        <3> QED BY <2>2, <3>1
    <2> QED BY <2>4, <2>5 DEF r
<1>5. DOMAIN rows' = DOMAIN rows
    BY <1>3 DEF WithScore
<1> QED BY <1>1, <1>3, <1>4, <1>5, ColumnKept

LEMMA ApplyKlPenaltyKeepsOwn == ASSUME PpoInv, OwnInv, ApplyKlPenalty PROVE OwnInv'
<1>1. pc = "reward" /\ pc \in Working
    BY DEF ApplyKlPenalty, Working
<1>2. /\ setting \in Settings /\ ConfigAccepted /\ WholeBatch
      /\ \A i \in DOMAIN rows : rows[i] \in Row(Resp) /\ Own(rows[i])
    BY <1>1, OwnAtWork
<1>3. rows' = WithReward /\ pc' = "advantage" /\ setting' = setting
    BY ApplyKlPenaltyRows
<1>4. \A i \in DOMAIN rows : rows[i].score # {}
    BY <1>1 DEF OwnInv, Scored
<1>5. ASSUME NEW i \in DOMAIN rows
      PROVE  /\ rows'[i].uid = rows[i].uid /\ rows'[i].resp = rows[i].resp /\ Own(rows'[i])
             /\ rows'[i].reward = {rows[i].resp}
    <2> DEFINE r == rows[i]
    <2>1. r \in Row(Resp) /\ Own(r)
        BY <1>2
    <2>2. Reward(i) = {r.resp}
        <3>1. \A c \in From(i) : c.of = r.resp
            BY <2>1 DEF From, Own
        <3>2. From(i) # {}
            BY <1>4 DEF From
        <3> QED BY <3>1, <3>2 DEF Reward
    <2>3. rows'[i] = [r EXCEPT !.reward = {r.resp}]
        BY <1>3, <2>2 DEF WithReward
    <2> HIDE DEF r
    <2>4. rows'[i].uid = r.uid /\ rows'[i].resp = r.resp /\ rows'[i].reward = {r.resp}
        BY <2>1, <2>3 DEF Row
    <2>5. Own(rows'[i])
        BY <1>2, <2>1, <2>3, ColumnOwn
    <2> QED BY <2>4, <2>5 DEF r
<1>6. DOMAIN rows' = DOMAIN rows
    BY <1>3 DEF WithReward
<1> QED BY <1>1, <1>3, <1>5, <1>6, ColumnKept

LEMMA ComputeAdvantageKeepsOwn == ASSUME PpoInv, OwnInv, ComputeAdvantage PROVE OwnInv'
<1>1. pc = "advantage" /\ pc \in Working
    BY DEF ComputeAdvantage, Working
<1>2. /\ setting \in Settings /\ ConfigAccepted /\ WholeBatch
      /\ \A i \in DOMAIN rows : rows[i] \in Row(Resp) /\ Own(rows[i])
    BY <1>1, OwnAtWork
<1>3. rows' = WithAdv /\ pc' \in {"update_critic", "update_actor", "test"} /\ setting' = setting
    BY ComputeAdvantageRows
<1>4. \A i \in DOMAIN rows : rows[i].reward = {rows[i].resp}
    BY <1>1 DEF OwnInv, Rewarded
<1>5. ASSUME NEW i \in DOMAIN rows PROVE Sources(i) = Compared(i)
    <2>1. CASE Grouped
        <3>1. UNION {rows[j].reward : j \in GroupOf(i)} = {rows[j].resp : j \in GroupOf(i)}
            <4>1. GroupOf(i) \subseteq DOMAIN rows
                BY DEF GroupOf
            <4>2. ASSUME NEW x, x \in UNION {rows[j].reward : j \in GroupOf(i)}
                  PROVE  x \in {rows[j].resp : j \in GroupOf(i)}
                <5>1. PICK j \in GroupOf(i) : x \in rows[j].reward
                    BY <4>2
                <5>2. x = rows[j].resp
                    BY <1>4, <4>1, <5>1
                <5> QED BY <5>1, <5>2
            <4>3. ASSUME NEW j \in GroupOf(i)
                  PROVE  rows[j].resp \in UNION {rows[k].reward : k \in GroupOf(i)}
                <5>1. rows[j].resp \in rows[j].reward
                    BY <1>4, <4>1
                <5> QED BY <5>1
            <4> QED BY <4>2, <4>3
        <3>2. {rows[j].resp : j \in GroupOf(i)} = Responses(rows[i].uid)
            BY DEF GroupOf, Responses, ResponsesIn
        <3> QED BY <2>1, <3>1, <3>2 DEF Sources, Compared
    <2>2. CASE ~Grouped
        <3>1. \A v \in rows[i].values : v.of = rows[i].resp
            BY <1>2 DEF Own
        <3>2. rows[i].reward \cup {v.of : v \in rows[i].values} = {rows[i].resp}
            BY <1>4, <3>1
        <3> QED BY <2>2, <3>2 DEF Sources, Compared
    <2> QED BY <2>1, <2>2
<1>6. ASSUME KeepsOrder(setting), NEW i \in DOMAIN rows
      PROVE  \A c \in Compared(i) : c.of = rows[i].prompt
    <2>1. \A j \in DOMAIN rows : rows[j].uid = rows[j].prompt /\ rows[j].resp.of = rows[j].prompt
        BY <1>2, <1>6 DEF Own
    <2>2. \A c \in rows[i].base : c.of = rows[i].prompt
        BY <1>2, <1>6 DEF Own
    <2>3. \A c \in Responses(rows[i].uid) : c.of = rows[i].prompt
        BY <2>1 DEF Responses, ResponsesIn
    <2> QED BY <2>1, <2>2, <2>3 DEF Compared
<1>7. ASSUME NEW i \in DOMAIN rows
      PROVE  /\ rows'[i].uid = rows[i].uid /\ rows'[i].resp = rows[i].resp /\ Own(rows'[i])
             /\ rows'[i].adv = Compared(i) /\ rows'[i].base = rows[i].base
    <2> DEFINE r == rows[i]
               s == Compared(i)
               z == Scale
    <2>1. r \in Row(Resp) /\ Own(r)
        BY <1>2
    <2>2. rows'[i] = [r EXCEPT !.adv = s, !.scale = z]
        BY <1>3, <1>5 DEF WithAdv
    <2>3. KeepsOrder(setting) => \A c \in s : c.of = r.prompt
        BY <1>6
    <2> HIDE DEF r, s, z
    <2>4. rows'[i].uid = r.uid /\ rows'[i].resp = r.resp /\ rows'[i].adv = s /\ rows'[i].base = r.base
        BY <2>1, <2>2 DEF Row
    <2>5. Own(rows'[i])
        <3>1. Own([r EXCEPT !.adv = s, !.scale = z])
            BY <1>2, <2>1, <2>3, ColumnOwn
        <3> QED BY <2>2, <3>1
    <2> QED BY <2>4, <2>5 DEF r, s
<1>8. DOMAIN rows' = DOMAIN rows
    BY <1>3 DEF WithAdv
<1> QED BY <1>1, <1>3, <1>7, <1>8, ColumnKept

\* A step that leaves the rows alone.
LEMMA SameRowsOwn ==
    ASSUME OwnInv, rows' = rows, setting' = setting, pc # "unite",
           pc' \notin {"baseline", "unite", "balance", "old_log_prob", "reward", "advantage"},
           pc' \in Working => pc \in {"update_critic", "update_actor", "test"} /\ pc' \in {"update_critic", "update_actor", "test"}
    PROVE  OwnInv'
<1>1. \A i \in DOMAIN rows' : Own(rows'[i])
    BY DEF OwnInv, RowsOwn
<1>2. pc' \in Working /\ KeepsOrder(setting) =>
          \A p \in 1..setting.batch : IsGroup(ResponsesIn(rows', p), setting.n)
    BY DEF OwnInv, Grouping, Responses, Working
<1>3. pc' \in {"update_critic", "update_actor", "test"} /\ KeepsOrder(setting) =>
          \A i \in DOMAIN rows' :
              rows'[i].adv = IF Grouped THEN ResponsesIn(rows', rows'[i].uid)
                             ELSE {rows'[i].resp} \cup rows'[i].base
    BY DEF OwnInv, Advantages, Compared, Responses, Working
<1> QED BY <1>1, <1>2, <1>3, OwnKept

LEMMA NoRowsOwn ==
    ASSUME setting' = setting, DOMAIN rows' = {}, pc' \notin {"baseline", "unite"}, pc' \notin Working
    PROVE  OwnInv'
<1>1. \A i \in DOMAIN rows' : FALSE
    OBVIOUS
<1>2. pc' \notin {"balance", "old_log_prob", "reward", "advantage", "update_critic", "update_actor", "test"}
    BY DEF Working
<1> QED BY <1>1, <1>2, OwnKept

LEMMA GenerateKeepsOwn == ASSUME PpoInv, OwnInv, Generate PROVE OwnInv'
<1>1. pc = "generate" /\ setting' = setting /\ rows \in Seq(Row(Resp)) /\ Len(rows) = 0
    BY DEF PpoInv, RowTypes, BatchLengths, Generate
<1>2. DOMAIN rows = {}
    BY <1>1
<1>3. CASE setting.batch % PromptsDivisor(setting) # 0
    <2>1. pc' = "raised" /\ rows' = rows
        BY <1>3, GeneratedIs
    <2> QED BY <1>1, <1>2, <2>1, NoRowsOwn DEF Working
<1>4. CASE setting.batch % PromptsDivisor(setting) = 0
    <2>1. GeneratedNow(gen') /\ pc' \in {"baseline", "unite"} /\ rows' = rows /\ actor' = actor
        BY <1>4, GeneratedIs
    <2>2. GenFresh'
        <3>1. FreshResp' = FreshResp
            BY <1>1, <2>1 DEF FreshResp
        <3>2. GeneratedNow(gen)'
            BY <1>1, <2>1, <3>1 DEF GeneratedNow, InOrderOfPrompts, KeepsOrder, Dp
        <3> QED BY <3>2 DEF GenFresh
    <2>3. AskedFresh' /\ RowsOwn' /\ RespFresh' /\ Scored' /\ Rewarded'
        BY <1>2, <2>1 DEF AskedFresh, RowsOwn, RespFresh, Scored, Rewarded
    <2>4. Grouping' /\ Advantages'
        BY <2>1 DEF Grouping, Advantages, Working
    <2> QED BY <2>2, <2>3, <2>4 DEF OwnInv
<1> QED BY <1>3, <1>4

LEMMA BaselineKeepsOwn == ASSUME PpoInv, OwnInv, GenerateBaseline PROVE OwnInv'
<1>1. /\ DOMAIN rows' = 1..setting.batch /\ pc' = "unite" /\ UNCHANGED <<setting, gen, actor>>
      /\ \A i \in DOMAIN rows' : AskedNow(rows'[i], i)
    BY BaselineIs
<1>2. GeneratedNow(gen)
    BY DEF OwnInv, GenFresh, GenerateBaseline
<1>3. GenFresh'
    <2>1. FreshResp' = FreshResp
        BY <1>1 DEF FreshResp
    <2>2. GeneratedNow(gen)'
        BY <1>1, <1>2, <2>1 DEF GeneratedNow, InOrderOfPrompts, KeepsOrder, Dp
    <2> QED BY <2>2 DEF GenFresh
<1>4. AskedFresh'
    BY <1>1 DEF AskedFresh, AskedNow, KeepsOrder, Dp
<1>5. RowsOwn' /\ RespFresh' /\ Scored' /\ Rewarded' /\ Grouping' /\ Advantages'
    BY <1>1 DEF RowsOwn, RespFresh, Scored, Rewarded, Grouping, Advantages, Working
<1> QED BY <1>3, <1>4, <1>5 DEF OwnInv

LEMMA OwnNext == PpoInv /\ OwnInv /\ [Next]_vars => OwnInv'
<1> SUFFICES ASSUME PpoInv, OwnInv, [Next]_vars PROVE OwnInv'
    OBVIOUS
<1>1. CASE ValidateConfig \/ InitWorkers
    <2>1. /\ pc \in {"config", "init"} /\ pc' \in {"init", "rejected", "validate", "next"}
          /\ setting' = setting /\ rows' = rows
        BY <1>1 DEF ValidateConfig, InitWorkers, Go
    <2> QED BY <2>1, SameRowsOwn DEF Working
<1>2. CASE NextBatch
    <2>1. rows' = <<>> /\ pc' \in {"finished", "generate"} /\ setting' = setting
        BY <1>2 DEF NextBatch
    <2>2. DOMAIN rows' = {}
        BY <2>1
    <2> QED BY <2>1, <2>2, NoRowsOwn DEF Working
<1>3. CASE Generate
    BY <1>3, GenerateKeepsOwn
<1>4. CASE GenerateBaseline
    BY <1>4, BaselineKeepsOwn
<1>5. CASE UniteResponses
    BY <1>5, UniteKeepsOwn
<1>6. CASE BalanceBatch
    BY <1>6, BalanceKeepsOwn
<1>7. CASE OldLogProb
    <2>1. CASE pc' = "raised"
        <3>1. setting' = setting /\ rows' = rows /\ pc = "old_log_prob"
            BY <1>7, <2>1 DEF OldLogProb, Raise, Go
        <3> QED BY <2>1, <3>1, SameRowsOwn DEF Working
    <2>2. CASE pc' # "raised"
        BY <1>7, <2>2, OldLogProbKeepsOwn
    <2> QED BY <2>1, <2>2
<1>8. CASE RefLogProb
    BY <1>8, RefLogProbKeepsOwn
<1>9. CASE ComputeValues
    BY <1>9, ComputeValuesKeepsOwn
<1>10. CASE ComputeScores
    BY <1>10, ComputeScoresKeepsOwn
<1>11. CASE ApplyKlPenalty
    BY <1>11, ApplyKlPenaltyKeepsOwn
<1>12. CASE ComputeAdvantage
    BY <1>12, ComputeAdvantageKeepsOwn
<1>13. CASE UpdateCritic \/ UpdateActor
    <2>1. PICK who \in {"critic", "actor"} : IF who = "critic" THEN UpdateCritic ELSE UpdateActor
        BY <1>13
    <2>2. /\ pc \in {"update_critic", "update_actor"} /\ setting' = setting /\ rows' = rows
          /\ pc' \in {"raised", "update_critic", "update_actor", "test"}
        BY <2>1, UpdateRows DEF UpdateCritic, UpdateActor, Raise
    <2> QED BY <2>2, SameRowsOwn DEF Working
<1>14. CASE Test \/ Validate
    <2>1. /\ pc \in {"test", "validate"} /\ pc' \in {"next", "validate", "raised"}
          /\ setting' = setting /\ rows' = rows
        BY <1>14 DEF Test, Validate, Go, Raise
    <2> QED BY <2>1, SameRowsOwn DEF Working
<1>15. CASE UNCHANGED vars
    <2>1. UNCHANGED <<setting, pc, gen, rows, actor>>
        BY <1>15 DEF vars
    <2>2. KeepsOrder(setting)' = KeepsOrder(setting) /\ Grouped' = Grouped /\ FreshResp' = FreshResp
        BY <2>1 DEF KeepsOrder, Dp, Grouped, FreshResp
    <2>3. GenFresh' /\ AskedFresh' /\ RespFresh' /\ Scored' /\ Rewarded'
        BY <2>1, <2>2 DEF OwnInv, GenFresh, AskedFresh, RespFresh, Scored, Rewarded, GeneratedNow,
            InOrderOfPrompts, AskedNow
    <2>4. RowsOwn'
        BY <2>1, <2>2 DEF OwnInv, RowsOwn, Own
    <2>5. Grouping' /\ Advantages'
        BY <2>1, <2>2 DEF OwnInv, Grouping, Advantages, Responses, Compared, Working
    <2> QED BY <2>3, <2>4, <2>5 DEF OwnInv
<1> QED BY <1>1, <1>2, <1>3, <1>4, <1>5, <1>6, <1>7, <1>8, <1>9, <1>10, <1>11, <1>12, <1>13,
       <1>14, <1>15 DEF Next, Done

LEMMA OwnInvariant == Spec => [](PpoInv /\ OwnInv)
<1>1. PpoInv /\ OwnInv /\ [Next]_vars => (PpoInv /\ OwnInv)'
    BY PpoNext, OwnNext
<1> QED BY PpoInit, OwnInit, <1>1, PTL DEF Spec

LEMMA MisplacesOrKeeps == ASSUME setting \in Settings PROVE Misplaces <=> ~KeepsOrder(setting)
<1>1. Dp(setting) \in Nat \ {0} /\ setting.pp \in Nat \ {0}
    BY SettingIs, SettingsAreLayouts DEF IsLayout
<1> QED BY <1>1 DEF Misplaces, KeepsOrder

\* Through every layout's dispatch, gathering, micro-batches, balancing and union, what
\* a row holds is computed for its own response, and its response for its own prompt.
THEOREM RowsAligned == Spec => []RowsStayAligned
<1>1. PpoInv /\ OwnInv => RowsStayAligned
    <2> SUFFICES ASSUME PpoInv, OwnInv, United, NEW i \in DOMAIN rows
                 PROVE  LET r == rows[i]
                        IN  /\ \A c \in r.old \cup r.ref \cup r.values \cup r.score : c.of = r.resp
                            /\ \A c \in r.old : c.under = r.resp.by
                            /\ \A c \in r.ref : c.under = 0
                            /\ \A c \in r.base : c.by = r.resp.by
                            /\ \A v \in r.values : v.mask = r.resp \/ setting.dynamic
                            /\ r.reward \subseteq {r.resp}
                            /\ ~Misplaces =>
                                /\ r.resp.of = r.prompt
                                /\ \A c \in r.base \cup r.adv : c.of = r.prompt
                                /\ \A c \in r.score : c.truth = r.prompt
        BY DEF RowsStayAligned
    <2>1. Own(rows[i])
        BY DEF OwnInv, RowsOwn, United
    <2>2. Misplaces <=> ~KeepsOrder(setting)
        BY MisplacesOrKeeps DEF PpoInv, PpoTypes
    <2> QED BY <2>1, <2>2 DEF Own
<1> QED BY <1>1, OwnInvariant, PTL

-------------------------------------------------------------------------------
(* What the advantages are whitened with *)

AllResponses(q) == {q[i].resp : i \in DOMAIN q}

\* Only ReMax has a baseline, and all rows whiten or none.
NoBase == setting.estimator # "remax" => \A i \in DOMAIN rows : rows[i].base = {}
ScaleInv ==
    /\ pc = "baseline" => setting.estimator = "remax"
    /\ NoBase
    /\ pc \in {"update_critic", "update_actor", "test"} =>
           \A i \in DOMAIN rows : rows[i].scale = IF Whitens THEN AllResponses(rows) ELSE {}

LEMMA ScaleInit == Init => ScaleInv
<1> SUFFICES ASSUME Init PROVE ScaleInv
    OBVIOUS
<1>1. pc = "config" /\ rows = <<>>
    BY DEF Init
<1>2. DOMAIN rows = {}
    BY <1>1
<1> QED BY <1>1, <1>2 DEF ScaleInv, NoBase

\* Uniting and reordering the rows gives every row the baseline of one there was.
LEMMA ScaleMoves ==
    ASSUME PpoInv, ScaleInv, UniteResponses \/ BalanceBatch
    PROVE  ScaleInv'
<1>1. setting' = setting /\ pc' \in {"balance", "old_log_prob"}
    BY DEF UniteResponses, BalanceBatch, Go
<1> SUFFICES ASSUME setting.estimator # "remax", NEW i \in DOMAIN rows' PROVE rows'[i].base = {}
    BY <1>1 DEF ScaleInv, NoBase
<1>2. \A j \in DOMAIN rows : rows[j].base = {}
    BY DEF ScaleInv, NoBase
<1>3. CASE UniteResponses
    <2>1. /\ DOMAIN rows' = 1..(setting.batch * setting.n)
          /\ PromptOf(i) \in 1..setting.batch
          /\ rows'[i] = [Asked[PromptOf(i)] EXCEPT !.resp = gen[i]]
        BY <1>3, UnitedRows
    <2>2. pc = "unite" /\ setting \in Settings
        BY <1>3 DEF UniteResponses, PpoInv, PpoTypes
    <2> DEFINE p == PromptOf(i)
               r == Asked[p]
               g == gen[i]
    <2>3. r \in Row({{}}) /\ Asked \in [1..setting.batch -> Row({{}})]
        BY <2>1, <2>2, AskedIs
    <2>4. r.base = {}
        <3>1. CASE rows = <<>>
            <4>1. DOMAIN Prompts = 1..setting.batch
                BY <2>2, PromptsAre
            <4>2. r = NewRow(p)
                BY <2>1, <3>1, <4>1 DEF Asked
            <4> QED BY <4>2 DEF NewRow
        <3>2. CASE rows # <<>>
            <4>1. Asked = rows
                BY <3>2 DEF Asked
            <4>2. p \in DOMAIN rows
                BY <2>1, <2>3, <4>1
            <4> QED BY <1>2, <4>1, <4>2
        <3> QED BY <3>1, <3>2
    <2> HIDE DEF r, p, g
    <2>5. [r EXCEPT !.resp = g].base = r.base
        BY <2>3 DEF Row
    <2> QED BY <2>1, <2>4, <2>5 DEF r, p, g
<1>4. CASE BalanceBatch
    <2> DEFINE order == BalanceOrder(Lens(rows))
    <2>1. rows' = [x \in DOMAIN rows |-> rows[order[x]]] /\ Permutes(order, Len(rows))
        BY <1>4, BalancedRows
    <2>2. DOMAIN rows = 1..Len(rows)
        BY LenProperties DEF PpoInv, RowTypes
    <2> HIDE DEF order
    <2>3. order[i] \in DOMAIN rows /\ rows'[i] = rows[order[i]]
        BY <2>1, <2>2 DEF Permutes
    <2> QED BY <1>2, <2>3
<1> QED BY <1>3, <1>4

\* The steps that fill a column leave the baseline as it is.
LEMMA BaseStays ==
    ASSUME setting \in Settings, WholeBatch,
           rows' \in {rows, WithOld, WithRef, WithValues, WithScore, WithReward, WithAdv}
    PROVE  /\ DOMAIN rows' = DOMAIN rows
           /\ \A i \in DOMAIN rows : rows'[i].base = rows[i].base /\ rows'[i].resp = rows[i].resp
<1>1. \A i \in DOMAIN rows : rows[i] \in Row(Resp)
    BY RowsAre
<1>2. DOMAIN rows' = DOMAIN rows
    BY DEF WithOld, WithRef, WithValues, WithScore, WithReward, WithAdv
<1>3. ASSUME NEW i \in DOMAIN rows
      PROVE  rows'[i].base = rows[i].base /\ rows'[i].resp = rows[i].resp
    <2> DEFINE r == rows[i]
               Filled(x, z) ==
                   \/ rows'[i] = [r EXCEPT !.old = x] \/ rows'[i] = [r EXCEPT !.ref = x]
                   \/ rows'[i] = [r EXCEPT !.values = x] \/ rows'[i] = [r EXCEPT !.score = x]
                   \/ rows'[i] = [r EXCEPT !.reward = x]
                   \/ rows'[i] = [r EXCEPT !.adv = x, !.scale = z]
    <2>1. r \in Row(Resp)
        BY <1>1
    <2>2. rows'[i] = r \/ \E x, z : Filled(x, z)
        <3>1. CASE rows' = rows
            BY <3>1
        <3>2. CASE rows' = WithOld
            BY <3>2, Zenon DEF WithOld
        <3>3. CASE rows' = WithRef
            BY <3>3, Zenon DEF WithRef
        <3>4. CASE rows' = WithValues
            BY <3>4, Zenon DEF WithValues
        <3>5. CASE rows' = WithScore
            BY <3>5, Zenon DEF WithScore
        <3>6. CASE rows' = WithReward
            BY <3>6, Zenon DEF WithReward
        <3>7. CASE rows' = WithAdv
            BY <3>7, Zenon DEF WithAdv
        <3> QED BY <3>1, <3>2, <3>3, <3>4, <3>5, <3>6, <3>7
    <2> HIDE DEF r
    <2>3. ASSUME NEW x, NEW z, Filled(x, z)
          PROVE  rows'[i].base = r.base /\ rows'[i].resp = r.resp
        <3>1. CASE rows'[i] = [r EXCEPT !.old = x]
            BY <2>1, <3>1 DEF Row
        <3>2. CASE rows'[i] = [r EXCEPT !.ref = x]
            BY <2>1, <3>2 DEF Row
        <3>3. CASE rows'[i] = [r EXCEPT !.values = x]
            BY <2>1, <3>3 DEF Row
        <3>4. CASE rows'[i] = [r EXCEPT !.score = x]
            BY <2>1, <3>4 DEF Row
        <3>5. CASE rows'[i] = [r EXCEPT !.reward = x]
            BY <2>1, <3>5 DEF Row
        <3>6. CASE rows'[i] = [r EXCEPT !.adv = x, !.scale = z]
            BY <2>1, <3>6 DEF Row
        <3> QED BY <2>3, <3>1, <3>2, <3>3, <3>4, <3>5, <3>6, Zenon
    <2> HIDE DEF Filled
    <2>4. rows'[i].base = r.base /\ rows'[i].resp = r.resp
        BY <2>2, <2>3, Zenon
    <2> QED BY <2>4 DEF r
<1> QED BY <1>2, <1>3

\* What a whitening estimator's advantages are made of is, over all rows, the responses.
LEMMA ScaleIs ==
    ASSUME PpoInv, OwnInv, NoBase, pc = "advantage", Whitens
    PROVE  Scale = AllResponses(rows)
<1>1. /\ setting \in Settings /\ ConfigAccepted /\ WholeBatch
      /\ \A i \in DOMAIN rows : rows[i] \in Row(Resp) /\ Own(rows[i])
    BY OwnAtWork DEF Working
<1>2. \A i \in DOMAIN rows : rows[i].reward = {rows[i].resp}
    BY DEF OwnInv, Rewarded
<1>3. \A i \in DOMAIN rows : rows[i].base = {}
    BY DEF NoBase, Whitens
<1>4. \A i \in DOMAIN rows : \A v \in rows[i].values : v.of = rows[i].resp
    BY <1>1 DEF Own
<1>5. ASSUME NEW i \in DOMAIN rows
      PROVE  rows[i].resp \in Sources(i) /\ Sources(i) \subseteq AllResponses(rows)
    <2>1. CASE Grouped
        <3>1. i \in GroupOf(i) /\ GroupOf(i) \subseteq DOMAIN rows
            BY DEF GroupOf
        <3>2. Sources(i) = UNION {rows[j].reward : j \in GroupOf(i)}
            BY <2>1 DEF Sources
        <3>3. rows[i].resp \in Sources(i)
            BY <1>2, <3>1, <3>2
        <3>4. ASSUME NEW x \in Sources(i) PROVE x \in AllResponses(rows)
            <4>1. PICK j \in GroupOf(i) : x \in rows[j].reward
                BY <3>2
            <4>2. j \in DOMAIN rows /\ x = rows[j].resp
                BY <1>2, <3>1, <4>1
            <4> QED BY <4>2 DEF AllResponses
        <3> QED BY <3>3, <3>4
    <2>2. CASE ~Grouped
        <3>1. Sources(i) = {rows[i].resp}
            BY <1>2, <1>3, <1>4, <2>2 DEF Sources
        <3> QED BY <3>1 DEF AllResponses
    <2> QED BY <2>1, <2>2
<1>6. Scale = UNION {Sources(i) : i \in DOMAIN rows}
    BY DEF Scale
<1>7. ASSUME NEW x \in Scale PROVE x \in AllResponses(rows)
    <2>1. PICK i \in DOMAIN rows : x \in Sources(i)
        BY <1>6
    <2> QED BY <1>5, <2>1
<1>8. ASSUME NEW x \in AllResponses(rows) PROVE x \in Scale
    <2>1. PICK i \in DOMAIN rows : x = rows[i].resp
        BY DEF AllResponses
    <2>2. x \in Sources(i)
        BY <1>5, <2>1
    <2> QED BY <1>6, <2>2
<1> QED BY <1>7, <1>8

LEMMA ScaleFills ==
    ASSUME PpoInv, OwnInv, ScaleInv,
           \/ OldLogProb \/ RefLogProb \/ ComputeValues \/ ComputeScores \/ ApplyKlPenalty
           \/ ComputeAdvantage
    PROVE  ScaleInv'
<1>1. pc \in Working /\ setting' = setting /\ pc' # "baseline"
    BY DEF OldLogProb, RefLogProb, ComputeValues, ComputeScores, ApplyKlPenalty,
        ComputeAdvantage, Working, Go, Raise
<1>2. setting \in Settings /\ WholeBatch
    BY <1>1, AtWork
<1>3. rows' \in {rows, WithOld, WithRef, WithValues, WithScore, WithReward, WithAdv}
    <2>1. CASE OldLogProb
        BY <2>1, OldLogProbRows DEF Raise
    <2>2. CASE RefLogProb
        BY <2>2, RefLogProbRows
    <2>3. CASE ComputeValues
        BY <2>3, ComputeValuesRows
    <2>4. CASE ComputeScores
        BY <2>4, ComputeScoresRows
    <2>5. CASE ApplyKlPenalty
        BY <2>5, ApplyKlPenaltyRows
    <2>6. CASE ComputeAdvantage
        BY <2>6, ComputeAdvantageRows
    <2> QED BY <2>1, <2>2, <2>3, <2>4, <2>5, <2>6
<1>4. /\ DOMAIN rows' = DOMAIN rows
      /\ \A i \in DOMAIN rows : rows'[i].base = rows[i].base /\ rows'[i].resp = rows[i].resp
    BY <1>2, <1>3, BaseStays
<1>5. NoBase'
    BY <1>1, <1>4 DEF ScaleInv, NoBase
<1>6. CASE ComputeAdvantage
    <2>1. pc = "advantage" /\ rows' = WithAdv
        BY <1>6, ComputeAdvantageRows DEF ComputeAdvantage
    <2>2. Scale = IF Whitens THEN AllResponses(rows) ELSE {}
        BY <2>1, ScaleIs DEF Scale, ScaleInv
    <2>3. AllResponses(rows') = AllResponses(rows)
        BY <1>4 DEF AllResponses
    <2>4. Whitens' = Whitens
        BY <1>1 DEF Whitens
    <2>5. ASSUME NEW i \in DOMAIN rows PROVE rows'[i].scale = Scale
        <3> DEFINE r == rows[i]
                   x == Sources(i)
                   z == Scale
        <3>1. rows'[i] = [r EXCEPT !.adv = x, !.scale = z] /\ r \in Row(Resp)
            BY <1>2, <2>1, RowsAre DEF WithAdv
        <3> HIDE DEF r, x, z
        <3>2. [r EXCEPT !.adv = x, !.scale = z].scale = z
            BY <3>1 DEF Row
        <3> QED BY <3>1, <3>2 DEF z
    <2>6. \A i \in DOMAIN rows' : rows'[i].scale = IF Whitens THEN AllResponses(rows') ELSE {}
        BY <1>4, <2>2, <2>3, <2>5
    <2>7. (\A i \in DOMAIN rows : rows[i].scale = IF Whitens THEN AllResponses(rows) ELSE {})'
        BY <2>4, <2>6 DEF AllResponses
    <2> QED BY <1>1, <1>5, <2>7 DEF ScaleInv
<1>7. CASE ~ComputeAdvantage
    <2>1. pc' \notin {"update_critic", "update_actor", "test"}
        BY <1>7 DEF OldLogProb, RefLogProb, ComputeValues, ComputeScores, ApplyKlPenalty, Go, Raise
    <2> QED BY <1>1, <1>5, <2>1 DEF ScaleInv
<1> QED BY <1>6, <1>7

\* A step that leaves the rows alone.
LEMMA ScaleKept ==
    ASSUME ScaleInv, UNCHANGED <<setting, rows>>, pc' = "baseline" => setting.estimator = "remax",
           pc' \in {"update_critic", "update_actor", "test"} =>
               pc \in {"update_critic", "update_actor", "test"}
    PROVE  ScaleInv'
<1>1. NoBase'
    BY DEF ScaleInv, NoBase
<1>2. Whitens' = Whitens /\ AllResponses(rows)' = AllResponses(rows)
    BY DEF Whitens, AllResponses
<1> QED BY <1>1, <1>2 DEF ScaleInv

LEMMA ScaleNext == PpoInv /\ OwnInv /\ ScaleInv /\ [Next]_vars => ScaleInv'
<1> SUFFICES ASSUME PpoInv, OwnInv, ScaleInv, [Next]_vars PROVE ScaleInv'
    OBVIOUS
<1>1. CASE ValidateConfig \/ InitWorkers \/ Generate
    <2>1. UNCHANGED <<setting, rows>> /\ pc' \notin {"update_critic", "update_actor", "test"}
        BY <1>1 DEF ValidateConfig, InitWorkers, Generate, Go, Raise
    <2>2. pc' = "baseline" => setting.estimator = "remax"
        BY <1>1 DEF ValidateConfig, InitWorkers, Generate, Go, Raise
    <2> QED BY <2>1, <2>2, ScaleKept
<1>2. CASE NextBatch
    <2>1. rows' = <<>> /\ pc' \in {"finished", "generate"}
        BY <1>2 DEF NextBatch
    <2>2. DOMAIN rows' = {}
        BY <2>1
    <2> QED BY <2>1, <2>2 DEF ScaleInv, NoBase
<1>3. CASE GenerateBaseline
    <2>1. setting' = setting /\ setting.estimator = "remax" /\ pc' = "unite"
        BY <1>3 DEF GenerateBaseline, ScaleInv, Go
    <2> QED BY <2>1 DEF ScaleInv, NoBase
<1>4. CASE UniteResponses \/ BalanceBatch
    BY <1>4, ScaleMoves
<1>5. CASE \/ OldLogProb \/ RefLogProb \/ ComputeValues \/ ComputeScores \/ ApplyKlPenalty
           \/ ComputeAdvantage
    BY <1>5, ScaleFills
<1>6. CASE UpdateCritic \/ UpdateActor
    <2>1. PICK who \in {"critic", "actor"} : IF who = "critic" THEN UpdateCritic ELSE UpdateActor
        BY <1>6
    <2>2. /\ pc \in {"update_critic", "update_actor"} /\ UNCHANGED <<setting, rows>>
          /\ pc' \in {"raised", "update_critic", "update_actor", "test"}
        BY <2>1, UpdateRows DEF UpdateCritic, UpdateActor, Raise
    <2> QED BY <2>2, ScaleKept
<1>7. CASE Test \/ Validate
    <2>1. UNCHANGED <<setting, rows>> /\ pc' \in {"next", "validate", "raised"}
        BY <1>7 DEF Test, Validate, Go, Raise
    <2> QED BY <2>1, ScaleKept
<1>8. CASE UNCHANGED vars
    <2>1. UNCHANGED <<setting, rows, pc>>
        BY <1>8 DEF vars
    <2>2. pc' = "baseline" => setting.estimator = "remax"
        BY <2>1 DEF ScaleInv
    <2> QED BY <2>1, <2>2, ScaleKept
<1> QED BY <1>1, <1>2, <1>3, <1>4, <1>5, <1>6, <1>7, <1>8 DEF Next, Done

LEMMA ScaleInvariant == Spec => [](PpoInv /\ OwnInv /\ ScaleInv)
BY ScaleInit, ScaleNext, OwnInvariant, PTL DEF Spec

\* For every batch size, number of responses and order balance_batch puts the rows in:
\* an estimator with groups compares a response with all n responses to its prompt and
\* no other, one without groups starts from the row's own; and those that whiten take
\* mean and variance of every row of the batch, the others of none.
THEOREM GroupsWhole == Spec => []GroupsAreWhole
<1>1. PpoInv /\ OwnInv /\ ScaleInv => GroupsAreWhole
    <2> SUFFICES ASSUME PpoInv, OwnInv, ScaleInv, pc \in {"update_critic", "update_actor", "test"},
                        ~Misplaces, NEW i \in DOMAIN rows
                 PROVE  /\ IF Grouped
                           THEN /\ Cardinality(rows[i].adv) = setting.n
                                /\ \A r \in rows[i].adv :
                                      r.of = rows[i].prompt /\ r.k \in 1..setting.n
                           ELSE rows[i].adv = {rows[i].resp} \cup rows[i].base
                        /\ rows[i].scale =
                               IF setting.estimator \in {"grpo", "rloo", "remax"} THEN {}
                               ELSE {rows[j].resp : j \in DOMAIN rows}
        BY DEF GroupsAreWhole
    <2>1. KeepsOrder(setting)
        BY MisplacesOrKeeps DEF PpoInv, PpoTypes
    <2>2. rows[i] \in Row(Resp) /\ Own(rows[i]) /\ pc \in Working
        BY OwnAtWork DEF Working
    <2>3. rows[i].adv = Compared(i)
        BY <2>1 DEF OwnInv, Advantages
    <2>4. rows[i].scale = IF setting.estimator \in {"grpo", "rloo", "remax"} THEN {}
                          ELSE {rows[j].resp : j \in DOMAIN rows}
        <3>1. setting.estimator \in {"grpo", "rloo", "remax"} <=> ~Whitens
            BY SettingIs DEF PpoInv, PpoTypes, Whitens, Estimators
        <3> QED BY <3>1 DEF ScaleInv, AllResponses
    <2>5. CASE Grouped
        <3>1. rows[i].uid \in 1..setting.batch
            BY <2>2 DEF Row
        <3>2. IsGroup(Responses(rows[i].uid), setting.n)
            BY <2>1, <2>2, <3>1 DEF OwnInv, Grouping
        <3>3. \A r \in rows[i].adv : r.of = rows[i].prompt
            BY <2>1, <2>2 DEF Own
        <3> QED BY <2>3, <2>4, <2>5, <3>2, <3>3 DEF Compared, IsGroup
    <2>6. CASE ~Grouped
        BY <2>3, <2>4, <2>6 DEF Compared
    <2> QED BY <2>5, <2>6
<1> QED BY <1>1, ScaleInvariant, PTL

-------------------------------------------------------------------------------
(* What a list of optimizer steps adds up to *)

\* The weights of a mini-batch's micro-batches, added up as UpdatesWeighOne does.
TotalWeight(parts) ==
    LET total[j \in 0..Len(parts)] ==
            IF j = 0 THEN 0 ELSE total[j - 1] + parts[j].weight[1]
    IN  total[Len(parts)]

\* The k micro-batches have the weights w.
HasWeights(parts, k, w) == Len(parts) = k /\ \A j \in 1..k : parts[j].weight[1] = w[j]

LEMMA TotalIs ==
    ASSUME NEW k \in Nat, NEW parts, NEW w \in [1..k -> Int], HasWeights(parts, k, w),
           NEW u \in [0..k -> Int], Sums(u, k, w)
    PROVE  TotalWeight(parts) = u[k]
<1>0. Len(parts) = k /\ \A j \in 1..k : parts[j].weight[1] = w[j]
    BY DEF HasWeights
<1> DEFINE Body(h, j) == IF j = 0 THEN 0 ELSE h[j - 1] + parts[j].weight[1]
           P(h) == h = [j \in 0..k |-> Body(h, j)]
           F == CHOOSE h : P(h)
<1>1. P(u)
    <2>1. ASSUME NEW j \in 0..k PROVE u[j] = Body(u, j)
        <3>1. CASE j = 0
            BY <3>1 DEF Sums
        <3>2. CASE j # 0
            <4>1. j \in 1..k
                BY <3>2
            <4>2. u[j] = u[j - 1] + w[j] /\ parts[j].weight[1] = w[j]
                BY <1>0, <4>1 DEF Sums
            <4> QED BY <3>2, <4>2
        <3> QED BY <3>1, <3>2
    <2>2. u = [j \in 0..k |-> u[j]]
        OBVIOUS
    <2> HIDE DEF Body
    <2> QED BY <2>1, <2>2
<1>2. P(F)
    <2> HIDE DEF P
    <2> QED BY <1>1
<1>3. TotalWeight(parts) = F[k]
    BY <1>0 DEF TotalWeight
<1>4. F[0] = 0 /\ \A j \in 1..k : F[j] = F[j - 1] + w[j]
    <2> HIDE DEF F
    <2>1. \A j \in 0..k : F[j] = Body(F, j)
        <3> HIDE DEF Body
        <3> QED BY <1>2
    <2>2. 0 \in 0..k /\ \A j \in 1..k : j \in 0..k /\ j # 0
        OBVIOUS
    <2> QED BY <1>0, <2>1, <2>2, Zenon
<1> HIDE DEF F, P
<1>5. \A j \in Nat : j <= k => F[j] = u[j]
    <2> DEFINE T == {j \in Nat : j <= k => F[j] = u[j]}
    <2>1. 0 \in T
        BY <1>4 DEF Sums
    <2>2. ASSUME NEW j \in Nat, j \in T PROVE j + 1 \in T
        <3> SUFFICES ASSUME j + 1 <= k PROVE F[j + 1] = u[j + 1]
            OBVIOUS
        <3>1. F[j] = u[j] /\ j + 1 \in 1..k /\ (j + 1) - 1 = j
            BY <2>2
        <3>2. F[j + 1] = F[j] + w[j + 1] /\ u[j + 1] = u[j] + w[j + 1]
            BY <1>4, <3>1 DEF Sums
        <3> QED BY <3>1, <3>2
    <2>3. \A j \in Nat : j \in T
        <3> HIDE DEF T
        <3> QED BY <2>1, <2>2, InductionOnNat
    <2> QED BY <2>3
<1> QED BY <1>3, <1>5

\* Lists of rows that count alike row by row have as many tokens.
CountAlike(n, lens, part, m, others, piece) ==
    /\ n \in Nat /\ lens \in [1..n -> Nat] /\ part \in Seq(1..n)
    /\ m \in Nat /\ others \in [1..m -> Nat] /\ piece \in Seq(1..m)
    /\ Len(part) = Len(piece)
    /\ \A i \in 1..Len(part) : lens[part[i]] = others[piece[i]]

LEMMA TokensAlike ==
    ASSUME NEW n, NEW lens, NEW part, NEW m, NEW others, NEW piece,
           CountAlike(n, lens, part, m, others, piece)
    PROVE  Tokens(lens, part) = Tokens(others, piece)
<1> n \in Nat /\ lens \in [1..n -> Nat] /\ part \in Seq(1..n)
    BY DEF CountAlike
<1> m \in Nat /\ others \in [1..m -> Nat] /\ piece \in Seq(1..m)
    BY DEF CountAlike
<1>0. Len(part) = Len(piece) /\ \A i \in 1..Len(part) : lens[part[i]] = others[piece[i]]
    BY DEF CountAlike
<1> DEFINE l == Len(part)
<1>1. PICK u \in [0..l -> Nat] : Counts(u, lens, part) /\ Tokens(lens, part) = u[l]
    BY TokensUnfolds, Zenon
<1>2. PICK v \in [0..l -> Nat] : Counts(v, others, piece) /\ Tokens(others, piece) = v[l]
    <2>1. \E v \in [0..Len(piece) -> Nat] :
              Counts(v, others, piece) /\ Tokens(others, piece) = v[Len(piece)]
        BY TokensUnfolds, Zenon
    <2> QED BY <1>0, <2>1
<1>3. /\ u[0] = 0 /\ \A i \in 1..l : u[i] = u[i - 1] + lens[part[i]]
      /\ v[0] = 0 /\ \A i \in 1..l : v[i] = v[i - 1] + lens[part[i]]
    BY <1>0, <1>1, <1>2 DEF Counts
<1>4. l \in Nat
    OBVIOUS
<1> HIDE DEF l
<1> DEFINE T == {i \in Nat : i <= l => u[i] = v[i]}
<1>5. 0 \in T
    BY <1>3
<1>6. ASSUME NEW i \in Nat, i \in T PROVE i + 1 \in T
    <2> SUFFICES ASSUME i + 1 <= l PROVE u[i + 1] = v[i + 1]
        OBVIOUS
    <2>1. u[i] = v[i] /\ i + 1 \in 1..l /\ (i + 1) - 1 = i
        BY <1>4, <1>6
    <2> QED BY <1>3, <2>1
<1>7. \A i \in Nat : i \in T
    <2> HIDE DEF T
    <2> QED BY <1>5, <1>6, InductionOnNat
<1> QED BY <1>1, <1>2, <1>4, <1>7

\* The length of a concatenation is the sum of the lengths.
LEMMA FlattenSums ==
    ASSUME NEW S, NEW parts, parts \in Seq(Seq(S))
    PROVE  \E u \in [0..Len(parts) -> Int] :
               /\ Sums(u, Len(parts), [j \in 1..Len(parts) |-> Len(parts[j])])
               /\ Len(FlattenSeq(parts)) = u[Len(parts)]
<1> DEFINE k == Len(parts)
           w == [j \in 1..k |-> Len(parts[j])]
<1>1. k \in Nat /\ \A j \in 1..k : parts[j] \in Seq(S)
    OBVIOUS
<1>2. PICK f \in [0..k -> Seq(S)] : Joins(f, parts) /\ FlattenSeq(parts) = f[k]
    BY FlattenUnfolds, Zenon
<1> DEFINE u == [j \in 0..k |-> Len(f[j])]
<1>3. u \in [0..k -> Int]
    BY <1>1
<1>4. Sums(u, k, w)
    <2>1. u[0] = 0
        <3>1. f[0] = <<>> /\ 0 \in 0..k
            BY <1>1, <1>2 DEF Joins
        <3> QED BY <3>1
    <2>2. ASSUME NEW j \in 1..k PROVE u[j] = u[j - 1] + w[j]
        <3>1. j - 1 \in 0..k /\ j \in 0..k
            BY <1>1
        <3>2. f[j] = f[j - 1] \o parts[j] /\ f[j - 1] \in Seq(S) /\ parts[j] \in Seq(S)
            BY <1>1, <1>2, <3>1 DEF Joins
        <3>3. Len(f[j]) = Len(f[j - 1]) + Len(parts[j])
            BY <3>2
        <3> QED BY <3>1, <3>3
    <2> QED BY <2>1, <2>2 DEF Sums
<1>5. Len(FlattenSeq(parts)) = u[k]
    BY <1>1, <1>2
<1> QED BY <1>3, <1>4, <1>5

LEMMA CeilDivOf ==
    ASSUME NEW q \in Nat, NEW size \in Nat \ {0}
    PROVE  CeilDiv(q * size, size) = q
<1>1. size - 1 \in 0..(size - 1)
    OBVIOUS
<1>2. (q * size + (size - 1)) \div size = q
    BY <1>1, DivisionIs
<1>3. q * size \in Int
    OBVIOUS
<1> DEFINE x == q * size
<1> HIDE DEF x
<1>4. x + size - 1 = x + (size - 1)
    BY <1>3 DEF x
<1> QED BY <1>2, <1>4 DEF CeilDiv, x

\* As many ones as micro-batches add up to their number.
LEMMA OnesAre ==
    ASSUME NEW k \in Nat, NEW parts, Len(parts) = k, \A j \in 1..k : parts[j].weight[1] = 1
    PROVE  TotalWeight(parts) = k
<1> DEFINE w == [j \in 1..k |-> 1]
           u == [j \in 0..k |-> j]
<1>1. w \in [1..k -> Int] /\ u \in [0..k -> Int] /\ Sums(u, k, w)
    BY DEF Sums
<1>2. HasWeights(parts, k, w)
    BY DEF HasWeights
<1>3. u[k] = k
    OBVIOUS
<1> HIDE DEF w, u
<1> QED BY <1>1, <1>2, <1>3, TotalIs

\* What UpdatesWeighOne says of the micro-batches a rank goes through for one step.
WeighsOne(parts) ==
    \/ TotalWeight(parts) = parts[1].weight[2]
    \/ ~setting.dynamic /\ Mini % Micro # 0
    \/ Share % Mini # 0

\* The micro-batches of a step, the same number on every rank, and their rows.
CountAt(at) == CountOf(Minis(at), MiniSize(at))
RowsAt(d, at, j) ==
    [i \in DOMAIN MicroBatchesAt(d, at)[j] |-> MiniBatch(d, at)[MicroBatchesAt(d, at)[j][i]].resp]

LEMMA GradientIs ==
    ASSUME setting \in Settings, ConfigAccepted, WholeBatch, Mini # 0, NEW at \in Nat \ {0},
           NEW d \in Ranks
    PROVE  /\ Len(Gradients(d, at)) = CountAt(at) /\ DOMAIN Gradients(d, at) = 1..CountAt(at)
           /\ CountAt(at) \in Nat \ {0}
           /\ \A j \in 1..CountAt(at) :
                  /\ Gradients(d, at)[j].rows = RowsAt(d, at, j)
                  /\ Gradients(d, at)[j].weight = Weight(MicroBatchesAt(d, at)[j], CountAt(at))
<1> DEFINE micros == MicroBatchesAt(d, at)
           k == CountAt(at)
           G == Gradients(d, at)
<1>1. micros \in Seq(Seq(1..MiniSize(at))) /\ Len(micros) = k /\ k \in Nat \ {0}
    BY MicroBatchesAtAre DEF CountAt
<1>2. DOMAIN micros = 1..k
    <2> HIDE DEF micros, k
    <2> QED BY <1>1, LenProperties
<1>3. G = [j \in 1..k |-> [rows |-> RowsAt(d, at, j), weight |-> Weight(micros[j], k)]]
    <2>1. G = [j \in DOMAIN micros |->
                  [rows |-> RowsAt(d, at, j), weight |-> Weight(micros[j], Len(micros))]]
        BY Zenon DEF Gradients, RowsAt
    <2> HIDE DEF G, micros, k
    <2> QED BY <1>1, <1>2, <2>1, Zenon
<1>4. Len(G) = k
    <2>1. G \in Seq(MicroUpdate)
        BY GradientsAre
    <2> HIDE DEF G, micros, k
    <2>2. DOMAIN G = 1..Len(G) /\ Len(G) \in Nat
        BY <2>1, LenProperties
    <2>3. DOMAIN G = 1..k
        BY <1>3, Zenon
    <2>4. k \in Nat \ {0}
        BY <1>1
    <2> DEFINE l == Len(G)
    <2>5. \A j : j \in 1..l <=> j \in 1..k
        BY <2>2, <2>3
    <2>6. l \in Nat
        BY <2>2
    <2> HIDE DEF l
    <2>7. l = k
        <3>1. l # 0
            <4>1. 1 \in 1..k
                BY <2>4
            <4> QED BY <2>5, <4>1
        <3>2. l \in 1..k /\ k \in 1..l
            BY <2>4, <2>5, <2>6, <3>1
        <3> QED BY <2>4, <2>6, <3>2
    <2> QED BY <2>7 DEF l
<1> HIDE DEF G, micros, k
<1>5. DOMAIN G = 1..k /\ \A j \in 1..k : /\ G[j].rows = RowsAt(d, at, j)
                                          /\ G[j].weight = Weight(micros[j], k)
    BY <1>3
<1> QED BY <1>1, <1>4, <1>5 DEF G, micros, k

LEMMA GradientsWeighOne ==
    ASSUME setting \in Settings, ConfigAccepted, WholeBatch, Mini # 0, NEW at \in Nat \ {0},
           NEW d \in Ranks
    PROVE  WeighsOne(Gradients(d, at))
<1> DEFINE micros == MicroBatchesAt(d, at)
           m == MiniSize(at)
           k == CountOf(Minis(at), m)
           G == Gradients(d, at)
<1> SUFFICES ASSUME setting.dynamic \/ Mini % Micro = 0, Share % Mini = 0
             PROVE  TotalWeight(G) = G[1].weight[2]
    BY DEF WeighsOne
<1>1. /\ micros \in Seq(Seq(1..m)) /\ Len(micros) = k /\ k \in Nat \ {0}
      /\ Permutes(FlattenSeq(micros), m)
      /\ ~setting.dynamic => k = CeilDiv(m, Micro)
    BY MicroBatchesAtAre DEF CountOf
<1>2. m = Mini /\ Mini \in Nat \ {0} /\ (~setting.dynamic => Micro \in Nat \ {0})
    BY MiniSizeIs, SizesAre
<1>3. k = CountAt(at)
    BY DEF CountAt
<1>4. \A j \in 1..k : G[j].weight = Weight(micros[j], k)
    BY <1>3, GradientIs
<1>5. Len(G) = k /\ 1 \in 1..k /\ k \in Nat
    BY <1>1, <1>3, GradientIs
<1> HIDE DEF G, micros, m, k
<1>6. CASE setting.backend # "megatron" /\ setting.dynamic
    <2> DEFINE w == [j \in 1..k |-> Len(micros[j])]
    <2>1. \A j \in 1..k : Weight(micros[j], k) = <<Len(micros[j]), Mini>>
        BY <1>6 DEF Weight
    <2>2. \A j \in 1..k : G[j].weight[1] = w[j] /\ G[j].weight[2] = Mini
        BY <1>4, <2>1
    <2>3. PICK u \in [0..k -> Int] : Sums(u, k, w) /\ Len(FlattenSeq(micros)) = u[k]
        <3>1. \E u \in [0..Len(micros) -> Int] :
                  /\ Sums(u, Len(micros), [j \in 1..Len(micros) |-> Len(micros[j])])
                  /\ Len(FlattenSeq(micros)) = u[Len(micros)]
            BY <1>1, FlattenSums, Zenon
        <3> QED BY <1>1, <3>1
    <2>4. w \in [1..k -> Int]
        BY <1>1
    <2> HIDE DEF w
    <2>5. TotalWeight(G) = u[k]
        <3>1. \A j \in 1..k : G[j].weight[1] = w[j]
            BY <2>2
        <3>2. Sums(u, k, w)
            BY <2>3 DEF w
        <3>3. HasWeights(G, k, w) /\ k \in Nat
            BY <1>5, <3>1 DEF HasWeights
        <3> QED BY <2>4, <3>2, <3>3, TotalIs
    <2>6. Len(FlattenSeq(micros)) = m
        BY <1>1 DEF Permutes
    <2> QED BY <1>2, <1>5, <2>2, <2>3, <2>5, <2>6
<1>7. CASE setting.backend # "megatron" /\ ~setting.dynamic
    <2> DEFINE q == Mini \div Micro
    <2>1. \A j \in 1..k : Weight(micros[j], k) = <<1, q>>
        BY <1>7 DEF Weight
    <2>2. \A j \in 1..k : G[j].weight[1] = 1 /\ G[j].weight[2] = q
        BY <1>4, <2>1
    <2>3. q \in Nat /\ Mini = q * Micro
        BY <1>2, <1>7, NoRemainder
    <2> HIDE DEF q
    <2>4. CeilDiv(q * Micro, Micro) = q
        BY <1>2, <1>7, <2>3, CeilDivOf
    <2>5. k = q
        BY <1>1, <1>2, <1>7, <2>3, <2>4
    <2>6. TotalWeight(G) = k
        BY <1>5, <2>2, OnesAre
    <2> QED BY <1>5, <2>2, <2>5, <2>6
<1>8. CASE setting.backend = "megatron"
    <2>1. ~setting.dynamic
        BY <1>8, SettingIs
    <2>2. \A j \in 1..k : Weight(micros[j], k) = <<1, k>>
        BY <1>8, <2>1 DEF Weight
    <2>3. \A j \in 1..k : G[j].weight[1] = 1 /\ G[j].weight[2] = k
        BY <1>4, <2>2
    <2>4. TotalWeight(G) = k
        BY <1>5, <2>3, OnesAre
    <2> QED BY <1>5, <2>3, <2>4
<1> QED BY <1>6, <1>7, <1>8

-------------------------------------------------------------------------------
(* What the optimizer steps of a global step are *)

\* What depends on the configuration and the batch alone.
LEMMA GradientsKept ==
    ASSUME setting' = setting, rows' = rows
    PROVE  /\ Mini' = Mini /\ Micro' = Micro /\ Ranks' = Ranks /\ Made' = Made
           /\ \A d : MiniBatchesOf(d)' = MiniBatchesOf(d)
           /\ \A d, at : Gradients(d, at)' = Gradients(d, at)
<1>1. Mini' = Mini /\ Micro' = Micro /\ Ranks' = Ranks
    BY DEF Mini, Micro, Ranks
<1>2. ASSUME NEW d PROVE MiniBatchesOf(d)' = MiniBatchesOf(d)
    BY <1>1, Zenon DEF MiniBatchesOf
<1>3. ASSUME NEW d, NEW at PROVE MiniBatch(d, at)' = MiniBatch(d, at)
    BY <1>2, Zenon DEF MiniBatch
<1>4. ASSUME NEW at PROVE Minis(at)' = Minis(at)
    BY <1>1, <1>3, Zenon DEF Minis
<1>5. ASSUME NEW part, NEW others PROVE MicroBatches(part, others)' = MicroBatches(part, others)
    BY <1>1, Zenon DEF MicroBatches
<1>6. ASSUME NEW d, NEW at PROVE MicroBatchesAt(d, at)' = MicroBatchesAt(d, at)
    BY <1>3, <1>4, <1>5, Zenon DEF MicroBatchesAt, Minis
<1>7. ASSUME NEW micro, NEW count PROVE Weight(micro, count)' = Weight(micro, count)
    BY <1>1, Zenon DEF Weight
<1>8. ASSUME NEW d, NEW at PROVE Gradients(d, at)' = Gradients(d, at)
    BY <1>3, <1>6, <1>7, Zenon DEF Gradients
<1>9. Made' = Made
    BY <1>1 DEF Made, DividesByZero
<1> QED BY <1>1, <1>2, <1>8, <1>9

AfterAdvantage == {"update_critic", "update_actor", "test", "validate", "next", "raised"}

IsGradients(u) ==
    u.at \in Nat \ {0} /\ u.made \in Made /\ u.parts = [d \in Ranks |-> Gradients(d, u.at)]

\* The steps made are steps on the batch as it is.
UpdatesAreGradients ==
    Len(updates) # 0 =>
        /\ pc \in AfterAdvantage /\ Len(rows) = setting.batch * setting.n /\ Mini \in Nat \ {0}
        /\ \A i \in 1..Len(updates) : IsGradients(updates[i])

LEMMA NoUpdates == ASSUME Len(updates') = 0 PROVE UpdatesAreGradients'
BY DEF UpdatesAreGradients

LEMMA UpdatesAreGradientsKept ==
    ASSUME UpdatesAreGradients, UNCHANGED <<setting, rows, updates>>, pc' \in AfterAdvantage
    PROVE  UpdatesAreGradients'
<1> SUFFICES ASSUME Len(updates) # 0 PROVE UpdatesAreGradients'
    BY DEF UpdatesAreGradients
<1>1. /\ Len(rows) = setting.batch * setting.n /\ Mini \in Nat \ {0}
      /\ \A i \in 1..Len(updates) : IsGradients(updates[i])
    BY DEF UpdatesAreGradients
<1>2. /\ Mini' = Mini /\ Ranks' = Ranks /\ Made' = Made
      /\ \A d, at : Gradients(d, at)' = Gradients(d, at)
    BY GradientsKept
<1>3. ASSUME NEW i \in 1..Len(updates) PROVE IsGradients(updates[i])'
    <2>1. IsGradients(updates[i])
        BY <1>1
    <2> QED BY <1>2, <2>1 DEF IsGradients
<1>4. AfterAdvantage' = AfterAdvantage
    BY DEF AfterAdvantage
<1> QED BY <1>1, <1>2, <1>3, <1>4 DEF UpdatesAreGradients

LEMMA UpdateIsGradients ==
    ASSUME PpoInv, UpdatesAreGradients, NEW who \in {"critic", "actor"},
           IF who = "critic" THEN UpdateCritic ELSE UpdateActor
    PROVE  UpdatesAreGradients'
<1>1. /\ setting \in Settings /\ ConfigAccepted /\ WholeBatch /\ pc \in Working
      /\ updates \in Seq(Update)
    BY AtWork DEF UpdateCritic, UpdateActor, Working, PpoInv, PpoTypes
<1>2. CASE (UpdateRaises \/ StepRaises) /\ Raise /\ setting' = setting
    BY <1>2, UpdatesAreGradientsKept DEF Raise, AfterAdvantage
<1>3. CASE /\ Mini \in Nat \ {0}
           /\ \E made \in Made : updates' = Append(updates, NextUpdate(who, made))
           /\ pc' \in {"update_critic", "update_actor", "test"}
           /\ UNCHANGED <<setting, rows>>
    <2>0. PICK made \in Made : updates' = Append(updates, NextUpdate(who, made))
        BY <1>3
    <2>1. NextAt(who) \in Nat \ {0} /\ NextUpdate(who, made) \in Update
        BY <1>1, <1>3, NextUpdateIs
    <2>2. /\ Len(updates') = Len(updates) + 1 /\ Len(updates) \in Nat
          /\ \A i \in 1..Len(updates) : updates'[i] = updates[i]
          /\ updates'[Len(updates) + 1] = NextUpdate(who, made)
        BY <1>1, <2>0, <2>1
    <2>3. /\ Mini' = Mini /\ Ranks' = Ranks /\ Made' = Made
          /\ \A d, at : Gradients(d, at)' = Gradients(d, at)
        BY <1>3, GradientsKept
    <2>4. Len(rows) = setting.batch * setting.n
        BY <1>1 DEF WholeBatch, IsPart
    <2>5. IsGradients(NextUpdate(who, made))
        BY <2>1 DEF IsGradients, NextUpdate
    <2>6. ASSUME NEW i \in 1..Len(updates') PROVE IsGradients(updates'[i])
        <3>1. CASE i = Len(updates) + 1
            BY <2>2, <2>5, <3>1
        <3>2. CASE i # Len(updates) + 1
            <4>1. i \in 1..Len(updates)
                BY <2>2, <3>2
            <4>2. IsGradients(updates[i])
                BY <4>1 DEF UpdatesAreGradients
            <4> QED BY <2>2, <4>1, <4>2
        <3> QED BY <3>1, <3>2
    <2>7. ASSUME NEW i \in 1..Len(updates') PROVE IsGradients(updates[i])'
        BY <2>3, <2>6 DEF IsGradients
    <2> QED BY <1>3, <2>3, <2>4, <2>7 DEF UpdatesAreGradients, AfterAdvantage
<1> QED BY <1>2, <1>3, UpdateRows

LEMMA UpdatesAreGradientsNext ==
    PpoInv /\ UpdatesAreGradients /\ [Next]_vars => UpdatesAreGradients'
<1> SUFFICES ASSUME PpoInv, UpdatesAreGradients, [Next]_vars PROVE UpdatesAreGradients'
    OBVIOUS
<1>1. CASE /\ ValidateConfig \/ InitWorkers \/ Generate \/ GenerateBaseline \/ UniteResponses
              \/ BalanceBatch \/ OldLogProb \/ RefLogProb \/ ComputeValues \/ ComputeScores
              \/ ApplyKlPenalty \/ ComputeAdvantage
    <2>1. pc \notin AfterAdvantage
        BY <1>1 DEF ValidateConfig, InitWorkers, Generate, GenerateBaseline, UniteResponses,
            BalanceBatch, OldLogProb, RefLogProb, ComputeValues, ComputeScores,
            ApplyKlPenalty, ComputeAdvantage, AfterAdvantage
    <2>2. updates' = updates
        BY <1>1 DEF ValidateConfig, InitWorkers, Generate, GenerateBaseline, UniteResponses,
            BalanceBatch, OldLogProb, RefLogProb, ComputeValues, ComputeScores,
            ApplyKlPenalty, ComputeAdvantage, Raise
    <2>3. Len(updates) = 0
        BY <2>1 DEF UpdatesAreGradients
    <2> QED BY <2>2, <2>3, NoUpdates
<1>2. CASE NextBatch
    <2>1. updates' = <<>>
        BY <1>2 DEF NextBatch
    <2>2. Len(updates') = 0
        BY <2>1
    <2> QED BY <2>2, NoUpdates
<1>3. CASE UpdateCritic
    BY <1>3, UpdateIsGradients
<1>4. CASE UpdateActor
    BY <1>4, UpdateIsGradients
<1>5. CASE Test \/ Validate
    <2>1. UNCHANGED <<setting, rows, updates>> /\ pc' \in AfterAdvantage
        BY <1>5 DEF Test, Validate, Go, Raise, AfterAdvantage
    <2> QED BY <2>1, UpdatesAreGradientsKept
<1>6. CASE UNCHANGED vars
    <2>1. UNCHANGED <<setting, rows, updates, pc>>
        BY <1>6 DEF vars
    <2>2. CASE Len(updates) = 0
        BY <2>1, <2>2, NoUpdates
    <2>3. CASE Len(updates) # 0
        <3>1. pc \in AfterAdvantage
            BY <2>3 DEF UpdatesAreGradients
        <3> QED BY <2>1, <3>1, UpdatesAreGradientsKept
    <2> QED BY <2>2, <2>3
<1> QED BY <1>1, <1>2, <1>3, <1>4, <1>5, <1>6 DEF Next, Done

LEMMA UpdatesInvariant == Spec => [](PpoInv /\ UpdatesAreGradients)
<1>1. Init => UpdatesAreGradients
    <2> SUFFICES ASSUME Init PROVE Len(updates) = 0
        BY DEF UpdatesAreGradients
    <2>1. updates = <<>>
        BY DEF Init
    <2> QED BY <2>1
<1> QED BY <1>1, PpoInvariant, UpdatesAreGradientsNext, PTL DEF Spec

\* The batch is whole, and the configuration one that starts, where there are steps.
LEMMA UpdatesAre ==
    ASSUME PpoInv, UpdatesAreGradients, NEW u \in DOMAIN updates
    PROVE  /\ setting \in Settings /\ ConfigAccepted /\ WholeBatch /\ Mini \in Nat \ {0}
           /\ Len(rows) = setting.batch * setting.n /\ pc \in AfterAdvantage
           /\ IsGradients(updates[u])
<1>1. updates \in Seq(Update) /\ setting \in Settings
    BY DEF PpoInv, PpoTypes
<1>2. u \in 1..Len(updates) /\ Len(updates) # 0
    BY <1>1
<1>3. /\ pc \in AfterAdvantage /\ Len(rows) = setting.batch * setting.n /\ Mini \in Nat \ {0}
      /\ IsGradients(updates[u])
    BY <1>2 DEF UpdatesAreGradients
<1>4. ConfigAccepted
    BY <1>3 DEF AfterAdvantage, PpoInv, Checked
<1>5. rows \in Seq(Row(Resp))
    BY <1>3 DEF AfterAdvantage, PpoInv, RowTypes
<1> QED BY <1>1, <1>3, <1>4, <1>5 DEF WholeBatch, IsPart

\* A weight is divided by zero in one case only.
LEMMA ZeroWeight ==
    ASSUME setting \in Settings, ConfigAccepted, WholeBatch, Mini # 0, NEW at \in Nat \ {0},
           NEW d \in Ranks, Gradients(d, at)[1].weight[2] = 0
    PROVE  DividesByZero
<1> DEFINE micro == MicroBatchesAt(d, at)[1]
           k == CountAt(at)
<1>1. k \in Nat \ {0} /\ Gradients(d, at)[1].weight = Weight(micro, k)
    <2>1. 1 \in 1..CountAt(at) /\ CountAt(at) \in Nat \ {0}
        BY GradientIs
    <2> QED BY <2>1, GradientIs
<1> HIDE DEF micro, k
<1>2. Weight(micro, k)[2] = 0
    BY <1>1
<1>3. setting.backend # "megatron"
    <2> SUFFICES ASSUME setting.backend = "megatron" PROVE FALSE
        OBVIOUS
    <2>1. Weight(micro, k) = <<1, k>>
        BY SettingIs DEF Weight
    <2> QED BY <1>1, <1>2, <2>1
<1>4. ~setting.dynamic
    <2> SUFFICES ASSUME setting.dynamic PROVE FALSE
        OBVIOUS
    <2>1. Weight(micro, k) = <<Len(micro), Mini>>
        BY <1>3 DEF Weight
    <2> QED BY <1>2, <2>1
<1>5. Weight(micro, k) = <<1, Mini \div Micro>>
    BY <1>3, <1>4 DEF Weight
<1>6. setting.backend = "fsdp"
    BY <1>3, SettingIs
<1> QED BY <1>2, <1>4, <1>5, <1>6 DEF DividesByZero

\* With micro-batches of whatever sizes: the weights a rank gives those of a mini-batch
\* add up to one in every optimizer step, when sizes divide one another; and no step
\* whose weights are divided by zero is made.
THEOREM WeightsAddUp == Spec => []UpdatesWeighOne
<1>1. PpoInv /\ UpdatesAreGradients => UpdatesWeighOne
    <2> SUFFICES ASSUME PpoInv, UpdatesAreGradients PROVE UpdatesWeighOne
        OBVIOUS
    <2>1. ASSUME NEW u \in DOMAIN updates, NEW d \in Ranks
          PROVE  IF updates[u].parts[d][1].weight[2] = 0 THEN ~updates[u].made
                 ELSE \/ TotalWeight(updates[u].parts[d]) = updates[u].parts[d][1].weight[2]
                      \/ ~setting.dynamic /\ Mini % Micro # 0
                      \/ (Len(rows) \div Dp(setting)) % Mini # 0
        <3>1. /\ setting \in Settings /\ ConfigAccepted /\ WholeBatch /\ Mini # 0
              /\ Len(rows) = setting.batch * setting.n /\ IsGradients(updates[u])
            BY UpdatesAre
        <3>2. /\ updates[u].parts[d] = Gradients(d, updates[u].at)
              /\ updates[u].at \in Nat \ {0} /\ updates[u].made \in Made
            BY <3>1 DEF IsGradients
        <3>3. WeighsOne(Gradients(d, updates[u].at))
            BY <3>1, <3>2, GradientsWeighOne
        <3>4. ASSUME updates[u].parts[d][1].weight[2] = 0 PROVE ~updates[u].made
            <4>1. DividesByZero
                BY <3>1, <3>2, <3>4, ZeroWeight
            <4>2. setting.backend # "megatron"
                BY <4>1 DEF DividesByZero
            <4> QED BY <3>2, <4>1, <4>2 DEF Made
        <3> QED BY <3>1, <3>2, <3>3, <3>4 DEF WeighsOne, Share
    <2> QED BY <2>1, Zenon DEF UpdatesWeighOne, TotalWeight
<1> QED BY <1>1, UpdatesInvariant, PTL

-------------------------------------------------------------------------------
(* How many tokens a part may have *)

\* The tokens of the first i parts.
TokensUpTo(u, lens, parts, k) ==
    u[0] = 0 /\ \A i \in 1..k : u[i] = u[i - 1] + Tokens(lens, parts[i])

LEMMA FlattenTokens ==
    ASSUME NEW n \in Nat, NEW lens \in [1..n -> Nat], NEW parts, parts \in Seq(Seq(1..n))
    PROVE  \E u \in [0..Len(parts) -> Nat] :
               /\ TokensUpTo(u, lens, parts, Len(parts))
               /\ Tokens(lens, FlattenSeq(parts)) = u[Len(parts)]
<1> DEFINE k == Len(parts)
<1>1. k \in Nat /\ \A j \in 1..k : parts[j] \in Seq(1..n)
    OBVIOUS
<1>2. PICK f \in [0..k -> Seq(1..n)] : Joins(f, parts) /\ FlattenSeq(parts) = f[k]
    BY FlattenUnfolds, Zenon
<1> DEFINE u == [j \in 0..k |-> Tokens(lens, f[j])]
<1>3. \A j \in 0..k : Tokens(lens, f[j]) \in Nat
    <2> TAKE j \in 0..k
    <2>1. f[j] \in Seq(1..n)
        BY <1>1
    <2> QED BY <2>1, TokensType
<1>4. u \in [0..k -> Nat]
    BY <1>3
<1>5. u[0] = 0
    <2>1. f[0] = <<>> /\ 0 \in 0..k
        BY <1>1, <1>2 DEF Joins
    <2>2. f[0] \in Seq(1..n) /\ Len(f[0]) = 0
        BY <2>1
    <2>3. Tokens(lens, f[0]) = 0
        BY <2>2, TokensOfNone
    <2> QED BY <2>1, <2>3
<1>6. ASSUME NEW j \in 1..k PROVE u[j] = u[j - 1] + Tokens(lens, parts[j])
    <2>1. j - 1 \in 0..k /\ j \in 0..k
        BY <1>1
    <2>2. f[j] = f[j - 1] \o parts[j] /\ f[j - 1] \in Seq(1..n) /\ parts[j] \in Seq(1..n)
        BY <1>1, <1>2, <2>1 DEF Joins
    <2>3. Tokens(lens, f[j - 1] \o parts[j]) = Tokens(lens, f[j - 1]) + Tokens(lens, parts[j])
        BY <2>2, TokensConcat
    <2> QED BY <2>1, <2>2, <2>3
<1>7. Tokens(lens, FlattenSeq(parts)) = u[k]
    BY <1>1, <1>2
<1> HIDE DEF u
<1>8. TokensUpTo(u, lens, parts, k)
    BY <1>5, <1>6 DEF TokensUpTo
<1> QED BY <1>4, <1>7, <1>8

\* However the rows are ordered, they have as many tokens in all.
LEMMA TokensOfAll ==
    ASSUME NEW n \in Nat, NEW lens \in [1..n -> Nat], NEW p, Permutes(p, n)
    PROVE  Tokens(lens, p) = Tokens(lens, OneToOne(n))
<1>1. p \in Seq(1..n) /\ Distinct(p) /\ Elems(p) = 1..n
    <2>1. p \in [1..n -> 1..n] /\ Len(p) = n
        BY DEF Permutes
    <2>2. Elems(p) = 1..n
        BY <2>1 DEF Permutes, Elems
    <2> QED BY <2>1, <2>2, FunctionIsSeq DEF Permutes, Distinct
<1> DEFINE q == OneToOne(n)
<1>2. q \in Seq(1..n) /\ Distinct(q) /\ Elems(q) = 1..n
    <2>1. q \in [1..n -> 1..n] /\ \A i \in 1..n : q[i] = i
        BY DEF OneToOne
    <2>2. q \in Seq(1..n) /\ Len(q) = n
        BY <2>1, FunctionIsSeq
    <2> HIDE DEF q
    <2> QED BY <2>1, <2>2 DEF Distinct, Elems
<1> HIDE DEF q
<1>3. Tokens(lens, p) = SumOver(n, lens, 1..n)
    BY <1>1, TokensOfElems
<1>4. Tokens(lens, q) = SumOver(n, lens, 1..n)
    BY <1>2, TokensOfElems
<1> QED BY <1>3, <1>4 DEF q

\* As many even parts as are needed for the limit: none exceeds it by a whole row.
LEMMA PartsUnderLimit ==
    ASSUME NEW n \in Nat \ {0}, NEW lens \in [1..n -> Nat \ {0}], NEW limit \in Nat \ {0},
           NEW width \in Nat \ {0}, NEW k \in Nat \ {0}, NEW parts, PartsOf(parts, k, n),
           Even(lens, parts, k, width), MicroBatchesNeeded(lens, limit) <= k, NEW x \in 1..k
    PROVE  Tokens(lens, parts[x]) < limit + width
<1>l. lens \in [1..n -> Nat] /\ n \in Nat
    OBVIOUS
<1>1. parts \in Seq(Seq(1..n)) /\ Len(parts) = k /\ \A j \in 1..k : parts[j] \in Seq(1..n)
    BY DEF PartsOf
<1> DEFINE t(j) == Tokens(lens, parts[j])
<1>2. \A j \in 1..k : t(j) \in Nat
    <2> TAKE j \in 1..k
    <2>1. parts[j] \in Seq(1..n)
        BY <1>1
    <2> QED BY <1>l, <2>1, TokensType
<1>3. PICK u \in [0..k -> Nat] : TokensUpTo(u, lens, parts, k)
                                     /\ Tokens(lens, FlattenSeq(parts)) = u[k]
    <2>1. \E u \in [0..Len(parts) -> Nat] :
              /\ TokensUpTo(u, lens, parts, Len(parts))
              /\ Tokens(lens, FlattenSeq(parts)) = u[Len(parts)]
        BY <1>l, <1>1, FlattenTokens, Zenon
    <2> QED BY <1>1, <2>1, Zenon
<1>4. u[k] <= k * limit
    <2>1. Permutes(FlattenSeq(parts), n)
        BY <1>l, FlattenPermutes
    <2>2. Tokens(lens, FlattenSeq(parts)) = Tokens(lens, OneToOne(n))
        BY <1>l, <2>1, TokensOfAll
    <2> DEFINE q == MicroBatchesNeeded(lens, limit)
    <2>3. q \in Nat \ {0} /\ Tokens(lens, OneToOne(n)) <= q * limit /\ q <= k
        BY NeededIs
    <2> HIDE DEF q
    <2>4. q * limit <= k * limit /\ q * limit \in Int /\ k * limit \in Int
        BY <2>3, Multiples
    <2>5. u[k] \in Nat /\ u[k] <= q * limit
        <3>1. k \in 0..k
            OBVIOUS
        <3>2. u[k] \in Nat
            BY <3>1
        <3>3. u[k] = Tokens(lens, OneToOne(n))
            BY <1>3, <2>2, Zenon
        <3> QED BY <2>3, <3>2, <3>3
    <2> QED BY <2>4, <2>5
<1> SUFFICES ASSUME t(x) >= limit + width PROVE FALSE
    BY <1>2
<1>5. \A j \in 1..k : t(j) >= limit
    <2> TAKE j \in 1..k
    <2>1. t(x) <= t(j) + width
        BY DEF Even
    <2>2. t(x) \in Nat /\ t(j) \in Nat
        BY <1>2
    <2> HIDE DEF t
    <2> QED BY <2>1, <2>2
<1>6. u[0] = 0 /\ \A j \in 1..k : u[j] = u[j - 1] + t(j)
    BY <1>3 DEF TokensUpTo
<1> HIDE DEF t
<1> DEFINE Enough(j) == u[j] >= j * limit /\ (x <= j => u[j] >= j * limit + width)
           T == {j \in Nat : j <= k => Enough(j)}
<1>7. 0 \in T
    BY <1>6
<1>8. ASSUME NEW j \in Nat, j \in T PROVE j + 1 \in T
    <2> SUFFICES ASSUME j + 1 <= k PROVE Enough(j + 1)
        <3> HIDE DEF Enough
        <3> QED OBVIOUS
    <2>1. Enough(j)
        BY <1>8
    <2>2. j + 1 \in 1..k /\ (j + 1) - 1 = j /\ j \in 0..k
        OBVIOUS
    <2>3. u[j + 1] = u[j] + t(j + 1) /\ t(j + 1) >= limit /\ t(j + 1) \in Nat /\ u[j] \in Nat
        BY <1>2, <1>5, <1>6, <2>2
    <2>4. (j + 1) * limit = j * limit + limit /\ j * limit \in Nat
        OBVIOUS
    <2> DEFINE a == j * limit
               b == (j + 1) * limit
               c == u[j]
               d == u[j + 1]
               e == t(j + 1)
    <2>5. d = c + e /\ e >= limit /\ e \in Nat /\ c \in Nat /\ b = a + limit /\ a \in Nat /\ c >= a
        BY <2>1, <2>3, <2>4
    <2>6. x <= j => c >= a + width
        BY <2>1
    <2>7. x = j + 1 => e >= limit + width
        OBVIOUS
    <2> SUFFICES d >= b /\ (x <= j + 1 => d >= b + width)
        OBVIOUS
    <2> HIDE DEF a, b, c, d, e
    <2> QED BY <2>5, <2>6, <2>7
<1>9. \A j \in Nat : j \in T
    <2> HIDE DEF T
    <2> QED BY <1>7, <1>8, InductionOnNat
<1>10. Enough(k)
    <2>1. k \in T
        BY <1>9
    <2> HIDE DEF Enough
    <2> QED BY <2>1
<1>11. u[k] >= k * limit + width /\ k * limit \in Nat /\ u[k] \in Nat
    BY <1>10
<1> DEFINE y == k * limit
           z == u[k]
<1>12. z <= y /\ z >= y + width /\ y \in Nat /\ z \in Nat
    BY <1>4, <1>11
<1> HIDE DEF y, z
<1> QED BY <1>12

\* The tokens of the rows of a micro-batch.
TokensIn(micro) == Tokens([i \in DOMAIN micro |-> micro[i].len], [i \in DOMAIN micro |-> i])

LEMMA MicroUnderLimit ==
    ASSUME setting \in Settings, ConfigAccepted, WholeBatch, Mini # 0, NEW at \in Nat \ {0},
           NEW d \in Ranks, setting.dynamic, NEW j \in DOMAIN Gradients(d, at)
    PROVE  TokensIn(Gradients(d, at)[j].rows) < Limit + Width
<1> DEFINE micros == MicroBatchesAt(d, at)
           mine == MiniBatch(d, at)
           m == MiniSize(at)
           k == CountAt(at)
           lens == Lens(mine)
           part == micros[j]
           l == Len(part)
           micro == RowsAt(d, at, j)
           others == [i \in 1..l |-> micro[i].len]
           piece == [i \in 1..l |-> i]
<1>1. /\ j \in 1..k /\ k \in Nat \ {0} /\ Gradients(d, at)[j].rows = micro
    BY GradientIs
<1>2. IsPart(mine, m) /\ m \in Nat \ {0}
    BY MiniBatchIs, MiniSizeIs
<1>3. /\ lens \in [1..m -> Nat \ {0}]
      /\ \A i \in 1..m : lens[i] = mine[i].resp.len
    <2> HIDE DEF mine, m
    <2> QED BY <1>2, PartLens
<1>4. DealtEvenly(micros, lens, k, m)
    BY MicroBatchesAtAre DEF CountAt
<1>5. Limit \in Nat \ {0} /\ Width \in Nat \ {0}
    <2>1. setting.maxTokens \in Nat \ {0} /\ setting.sp \in Nat \ {0}
        BY SettingIs
    <2> DEFINE a == setting.maxTokens
               b == setting.sp
    <2>2. a \in Nat \ {0} /\ b \in Nat \ {0}
        BY <2>1
    <2> HIDE DEF a, b
    <2>3. a * b \in Nat \ {0}
        BY <2>2
    <2> QED BY <2>3, WidthIs DEF Limit, a, b
<1>6. part \in Seq(1..m)
    <2> HIDE DEF micros, m, k
    <2> QED BY <1>1, <1>4 DEF DealtEvenly, PartsOf
<1>7. Tokens(lens, part) < Limit + Width
    <2> HIDE DEF micros, mine, m, k, lens
    <2>1. PartsOf(micros, k, m) /\ Even(lens, micros, k, Width) /\ MicroBatchesNeeded(lens, Limit) <= k
        BY <1>4 DEF DealtEvenly
    <2> QED BY <1>1, <1>2, <1>3, <1>5, <2>1, PartsUnderLimit
<1>8. micro = [i \in DOMAIN part |-> mine[part[i]].resp]
    BY DEF RowsAt
<1> HIDE DEF micro, part, lens, mine, m, k
<1>9. l \in Nat /\ DOMAIN part = 1..l /\ \A i \in 1..l : part[i] \in 1..m
    BY <1>6, LenProperties
<1> HIDE DEF l
<1>10. DOMAIN micro = 1..l /\ \A i \in 1..l : micro[i].len = lens[part[i]]
    BY <1>3, <1>8, <1>9
<1>11. others \in [1..l -> Nat] /\ \A i \in 1..l : lens[part[i]] = others[i]
    <2>1. \A i \in 1..l : lens[part[i]] \in Nat
        BY <1>3, <1>9
    <2> QED BY <1>10, <2>1
<1>12. piece \in Seq(1..l) /\ Len(piece) = l /\ \A i \in 1..l : piece[i] = i
    <2>1. piece \in [1..l -> 1..l]
        OBVIOUS
    <2> QED BY <1>9, <2>1, FunctionIsSeq
<1>13. TokensIn(micro) = Tokens(others, piece)
    BY <1>10, Zenon DEF TokensIn
<1> HIDE DEF others, piece
<1>14. Tokens(lens, part) = Tokens(others, piece)
    <2>1. lens \in [1..m -> Nat] /\ m \in Nat /\ Len(part) = l
        BY <1>2, <1>3 DEF l
    <2>2. CountAlike(m, lens, part, l, others, piece)
        BY <1>6, <1>9, <1>11, <1>12, <2>1 DEF CountAlike
    <2>3. CountAlike(m, lens, part, l, others, piece) => Tokens(lens, part) = Tokens(others, piece)
        BY TokensAlike, SMT
    <2> QED BY <2>2, <2>3, Zenon
<1> QED BY <1>1, <1>7, <1>13, <1>14

LEMMA BalanceIsPartitioned ==
    ASSUME PpoInv, pc = "balance"
    PROVE  Partitioned
<1> DEFINE m == setting.batch * setting.n
           w == setting.world
           lens == Lens(rows)
<1>1. setting \in Settings /\ ConfigAccepted /\ WholeBatch
    BY AtWork DEF Working
<1>2. m \in Nat \ {0} /\ w \in Nat \ {0} /\ Len(rows) = m /\ lens \in [1..m -> Nat \ {0}]
    <2>1. m \in Nat \ {0} /\ w \in Nat \ {0} /\ Len(rows) = m
        BY <1>1, SizesAre, SettingIs DEF WholeBatch, IsPart
    <2> QED BY <1>1, <2>1, PartLens DEF WholeBatch
<1>3. IsMultiple(m, w)
    <2>1. m % w = 0
        BY <1>1 DEF ConfigAccepted
    <2> HIDE DEF m, w
    <2>2. m \div w \in Nat /\ m = (m \div w) * w
        BY <1>2, <2>1, NoRemainder
    <2> QED BY <2>2 DEF IsMultiple
<1> HIDE DEF m, w, lens
<1>4. IsPartition(lens, w, TRUE, BalancedPartitions(lens, w, TRUE))
    BY <1>2, <1>3, PartitionHolds
<1>5. ASSUME NEW k \in 1..m
      PROVE  IsPartition(lens, k, FALSE, BalancedPartitions(lens, k, FALSE))
    <2>1. k \in Nat \ {0} /\ k <= m
        BY <1>2
    <2> QED BY <1>2, <2>1, PartitionHolds
<1> QED BY <1>2, <1>4, <1>5 DEF Partitioned, lens, w

-------------------------------------------------------------------------------
(* What the ranks have to do after balance_batch *)

\* Parts of c elements each stand in blocks of c.
LEMMA EvenParts ==
    ASSUME NEW n \in Nat, NEW k \in Nat \ {0}, NEW c \in Nat, NEW parts, PartsOf(parts, k, n),
           \A i \in 1..k : Len(parts[i]) = c, NEW d \in 0..(k - 1)
    PROVE  IsBlock(parts[d + 1], FlattenSeq(parts), d, c)
<1> DEFINE g == [i \in 0..k |-> i * c]
<1>1. g \in [0..k -> Nat] /\ g[0] = 0 /\ \A i \in 1..k : g[i] = g[i - 1] + c
    <2>1. \A i \in 0..k : i * c \in Nat
        OBVIOUS
    <2>2. \A i \in 1..k : i * c = (i - 1) * c + c
        OBVIOUS
    <2>3. \A i \in 1..k : i \in 0..k /\ i - 1 \in 0..k
        OBVIOUS
    <2> QED BY <2>1, <2>2, <2>3
<1>2. parts \in Seq(Seq(1..n)) /\ Len(parts) = k
    BY DEF PartsOf
<1> HIDE DEF g
<1>3. Offsets(g, parts)
    BY <1>1, <1>2 DEF Offsets
<1>4. LaidOut(FlattenSeq(parts), g, parts)
    BY <1>1, <1>2, <1>3, FlattenAt
<1>5. d + 1 \in 1..k /\ (d + 1) - 1 = d /\ d \in 0..k
    OBVIOUS
<1>6. g[d] = d * c
    BY <1>5 DEF g
<1> DEFINE i == d + 1
           f == FlattenSeq(parts)
<1>7. i \in 1..Len(parts) /\ i - 1 = d /\ Len(parts[i]) = c
    BY <1>2, <1>5
<1> HIDE DEF i, f
<1>8. \A j \in 1..Len(parts[i]) : f[g[i - 1] + j] = parts[i][j]
    BY <1>4, <1>7 DEF LaidOut, f
<1>9. \A j \in 1..c : parts[i][j] = f[d * c + j]
    BY <1>6, <1>7, <1>8, Zenon
<1> QED BY <1>7, <1>9, Zenon DEF IsBlock, i, f

\* The tokens of the rows of q that go to rank r.
RankTokens(q, r) == Tokens(Lens(q), Chunk([i \in DOMAIN q |-> i], setting.world, r))

BalancedRanks(q) ==
    /\ \A r \in 0..(setting.world - 1) : RankTokens(q, r) \in Nat
    /\ \A r, s \in 0..(setting.world - 1) : RankTokens(q, r) <= RankTokens(q, s) + Width

LEMMA SameResponses ==
    ASSUME NEW q, NEW t, DOMAIN q = DOMAIN t, \A i \in DOMAIN q : q[i].resp = t[i].resp,
           BalancedRanks(q)
    PROVE  BalancedRanks(t)
<1>1. Lens(q) = Lens(t)
    BY DEF Lens
<1>2. [i \in DOMAIN q |-> i] = [i \in DOMAIN t |-> i]
    OBVIOUS
<1>3. \A r : RankTokens(q, r) = RankTokens(t, r)
    BY <1>1, <1>2, Zenon DEF RankTokens
<1> QED BY <1>3 DEF BalancedRanks

\* A rank gets the rows of one of the parts.
LEMMA RankHasPart ==
    ASSUME setting \in Settings, ConfigAccepted, WholeBatch,
           NEW t, t = [i \in DOMAIN rows |-> rows[BalanceOrder(Lens(rows))[i]]],
           NEW r \in 0..(setting.world - 1)
    PROVE  RankTokens(t, r)
               = Tokens(Lens(rows), BalancedPartitions(Lens(rows), setting.world, TRUE)[r + 1])
<1> DEFINE n == setting.batch * setting.n
           k == setting.world
           c == n \div k
           lens == Lens(rows)
           parts == BalancedPartitions(lens, k, TRUE)
           order == FlattenSeq(parts)
           others == Lens(t)
           places == OneToOne(n)
           chunk == Chunk(places, k, r)
<1>1. n \in Nat \ {0} /\ k \in Nat \ {0} /\ DOMAIN rows = 1..n
    BY SizesAre, SettingIs, RowsAre
<1>2. lens \in [1..n -> Nat \ {0}] /\ \A i \in 1..n : lens[i] = rows[i].resp.len
    BY <1>1, PartLens DEF WholeBatch
<1>3. c \in Nat /\ n = c * k /\ n = k * c
    <2>1. n % k = 0
        BY DEF ConfigAccepted
    <2> HIDE DEF n, k
    <2>2. n \div k \in Nat /\ n = (n \div k) * k
        BY <1>1, <2>1, NoRemainder
    <2> QED BY <1>1, <2>2
<1>4. BalanceOrder(lens) = order /\ Permutes(order, n) /\ PartsOf(parts, k, n)
    BY BalanceOrderIs DEF BalanceOrder
<1>5. t = [i \in 1..n |-> rows[order[i]]]
    BY <1>1, <1>4
<1> HIDE DEF n, k, c, lens, parts, order
<1>6. \A i \in 1..k : Len(parts[i]) = c
    <2>1. IsMultiple(n, k)
        BY <1>3 DEF IsMultiple
    <2>2. IsPartition(lens, k, TRUE, parts)
        BY <1>1, <1>2, <2>1, PartitionHolds DEF parts
    <2>3. DOMAIN lens = 1..n /\ Len(lens) = n
        BY <1>1, <1>2, FunctionIsSeq
    <2>4. ASSUME NEW i \in 1..k PROVE Len(parts[i]) = c
        <3>1. Len(parts[i]) * k = n /\ Len(parts[i]) \in Nat
            BY <1>4, <2>2, <2>3, <2>4 DEF IsPartition, PartsOf
        <3> DEFINE x == Len(parts[i])
        <3>2. x \in Nat /\ n = x * k
            BY <3>1
        <3> HIDE DEF x
        <3>3. n \div k = x
            BY <1>1, <3>2, QuotientIs
        <3>4. n \div k = c
            BY <1>1, <1>3, QuotientIs
        <3> QED BY <3>3, <3>4 DEF x
    <2> QED BY <2>4
<1>7. IsBlock(parts[r + 1], order, r, c)
    <2>1. r \in 0..(k - 1)
        BY DEF k
    <2> QED BY <1>1, <1>3, <1>4, <1>6, <2>1, EvenParts DEF order
<1>8. chunk \in Seq(1..n) /\ IsBlock(chunk, places, r, c)
    <2>1. places \in Seq(1..n) /\ Len(places) = n
        <3>1. places \in [1..n -> 1..n]
            BY DEF OneToOne
        <3> QED BY <1>1, <3>1, FunctionIsSeq
    <2>2. r \in 0..(k - 1) /\ Len(places) = k * c
        BY <1>3, <2>1 DEF k
    <2> HIDE DEF places
    <2> QED BY <1>1, <1>3, <2>1, <2>2, ChunkIs
<1>9. \A j \in 1..c : r * c + j \in 1..n
    <2>1. r \in 0..(k - 1)
        BY DEF k
    <2> QED BY <1>1, <1>3, <2>1, InBlock
<1>10. \A i \in 1..n : order[i] \in 1..n /\ others[i] = lens[order[i]] /\ t[i] = rows[order[i]]
    <2>1. \A i \in 1..n : order[i] \in 1..n
        BY <1>4 DEF Permutes
    <2> QED BY <1>2, <1>5, <2>1 DEF Lens
<1>11. others \in [1..n -> Nat]
    <2>1. DOMAIN others = 1..n /\ others = [i \in 1..n |-> others[i]]
        BY <1>5 DEF Lens
    <2>2. \A i \in 1..n : others[i] \in Nat
        BY <1>2, <1>10
    <2> HIDE DEF others
    <2> QED BY <2>1, <2>2
<1>12. \A j \in 1..c : chunk[j] = r * c + j /\ lens[parts[r + 1][j]] = others[chunk[j]]
    <2> TAKE j \in 1..c
    <2>1. chunk[j] = places[r * c + j] /\ parts[r + 1][j] = order[r * c + j]
        BY <1>7, <1>8 DEF IsBlock
    <2>2. r * c + j \in 1..n
        BY <1>9
    <2> DEFINE x == r * c + j
    <2>3. places[x] = x
        BY <2>2 DEF OneToOne
    <2> HIDE DEF x, chunk, others, places
    <2>4. x \in 1..n /\ chunk[j] = x /\ parts[r + 1][j] = order[x]
        BY <2>1, <2>2, <2>3 DEF x
    <2> QED BY <1>10, <2>4 DEF x
<1>13. CountAlike(n, lens, parts[r + 1], n, others, chunk)
    <2>1. parts[r + 1] \in Seq(1..n)
        <3>1. r + 1 \in 1..k
            BY <1>1 DEF k
        <3> QED BY <1>4, <3>1 DEF PartsOf
    <2>2. Len(parts[r + 1]) = c /\ Len(chunk) = c
        BY <1>7, <1>8 DEF IsBlock
    <2>3. n \in Nat /\ lens \in [1..n -> Nat]
        BY <1>1, <1>2
    <2> HIDE DEF chunk, others
    <2> QED BY <1>8, <1>11, <1>12, <2>1, <2>2, <2>3 DEF CountAlike
<1>14. RankTokens(t, r) = Tokens(others, chunk)
    <2>1. [i \in DOMAIN t |-> i] = places
        BY <1>5 DEF OneToOne
    <2> QED BY <2>1, Zenon DEF RankTokens, k
<1> HIDE DEF others, chunk
<1>15. Tokens(lens, parts[r + 1]) = Tokens(others, chunk)
    BY <1>13, TokensAlike
<1> QED BY <1>14, <1>15 DEF lens, parts, k

\* After balance_batch, no rank has more than a row's width of tokens more than another.
BalancedInv ==
    setting.balance /\ Len(rows) # 0 /\ pc \notin {"baseline", "unite", "balance"} =>
        BalancedRanks(rows)

LEMMA BalancedRanksKept ==
    ASSUME setting' = setting, BalancedRanks(rows')
    PROVE  BalancedRanks(rows)'
<1>1. Width' = Width
    BY DEF Width
<1>2. \A r : RankTokens(rows, r)' = RankTokens(rows', r)
    BY Zenon DEF RankTokens, Lens
<1> QED BY <1>1, <1>2 DEF BalancedRanks

\* A step that leaves every row its response.
LEMMA BalancedKept ==
    ASSUME BalancedInv, setting' = setting, Len(rows') = Len(rows),
           pc \notin {"baseline", "unite", "balance"}, DOMAIN rows' = DOMAIN rows,
           \A i \in DOMAIN rows : rows'[i].resp = rows[i].resp
    PROVE  BalancedInv'
<1> SUFFICES ASSUME setting.balance, Len(rows) # 0 PROVE BalancedRanks(rows)'
    BY DEF BalancedInv
<1>1. BalancedRanks(rows)
    BY DEF BalancedInv
<1>2. BalancedRanks(rows')
    BY <1>1, SameResponses
<1> QED BY <1>2, BalancedRanksKept

LEMMA BalanceBalances == ASSUME PpoInv, BalanceBatch PROVE BalancedInv'
<1>1. setting \in Settings /\ ConfigAccepted /\ WholeBatch /\ setting' = setting
    BY AtWork DEF BalanceBatch, Working
<1>2. rows' = [i \in DOMAIN rows |-> rows[BalanceOrder(Lens(rows))[i]]]
    BY BalancedRows
<1> DEFINE k == setting.world
           lens == Lens(rows)
           parts == BalancedPartitions(lens, k, TRUE)
           n == setting.batch * setting.n
<1>3. Even(lens, parts, k, Width) /\ PartsOf(parts, k, n) /\ k \in Nat \ {0}
    BY <1>1, BalanceOrderIs, SettingIs
<1>4. \A r \in 0..(k - 1) : RankTokens(rows', r) = Tokens(lens, parts[r + 1])
    BY <1>1, <1>2, RankHasPart
<1>8. n \in Nat /\ lens \in [1..n -> Nat \ {0}]
    <2>1. n \in Nat
        BY <1>1, SizesAre
    <2> QED BY <1>1, <2>1, PartLens DEF WholeBatch
<1> HIDE DEF lens, parts, n
<1>7. \A r \in 0..(k - 1) : RankTokens(rows', r) \in Nat
    <2> TAKE r \in 0..(k - 1)
    <2> HIDE DEF k
    <2>1. r + 1 \in 1..k
        BY <1>3
    <2>2. parts[r + 1] \in Seq(1..n)
        BY <1>3, <2>1 DEF PartsOf
    <2>3. Tokens(lens, parts[r + 1]) \in Nat
        BY <1>8, <2>2, TokensType
    <2> QED BY <1>4, <2>3
<1>5. \A r, s \in 0..(k - 1) : RankTokens(rows', r) <= RankTokens(rows', s) + Width
    <2> TAKE r, s \in 0..(k - 1)
    <2> HIDE DEF k
    <2>1. r + 1 \in 1..k /\ s + 1 \in 1..k
        BY <1>3
    <2>2. Tokens(lens, parts[r + 1]) <= Tokens(lens, parts[s + 1]) + Width
        BY <1>3, <2>1 DEF Even
    <2> QED BY <1>4, <2>2
<1>6. BalancedRanks(rows')
    BY <1>5, <1>7 DEF BalancedRanks
<1> QED BY <1>1, <1>6, BalancedRanksKept DEF BalancedInv

\* The steps that fill a column of the rows.
LEMMA ColumnStays ==
    ASSUME setting \in Settings, WholeBatch,
           rows' \in {rows, WithOld, WithRef, WithValues, WithScore, WithReward, WithAdv}
    PROVE  /\ Len(rows') = Len(rows) /\ DOMAIN rows' = DOMAIN rows
           /\ \A i \in DOMAIN rows : rows'[i].resp = rows[i].resp
<1> DEFINE m == setting.batch * setting.n
<1>1. DOMAIN rows = 1..m /\ Len(rows) = m /\ m \in Nat /\ \A i \in DOMAIN rows : rows[i] \in Row(Resp)
    BY RowsAre
<1> HIDE DEF m
<1>2. DOMAIN rows' = 1..m
    BY <1>1 DEF WithOld, WithRef, WithValues, WithScore, WithReward, WithAdv
<1>3. ASSUME NEW i \in 1..m PROVE rows'[i].resp = rows[i].resp
    <2> DEFINE r == rows[i]
    <2>1. r \in Row(Resp)
        BY <1>1
    <2> DEFINE Filled(x, z) ==
                   \/ rows'[i] = [r EXCEPT !.old = x] \/ rows'[i] = [r EXCEPT !.ref = x]
                   \/ rows'[i] = [r EXCEPT !.values = x] \/ rows'[i] = [r EXCEPT !.score = x]
                   \/ rows'[i] = [r EXCEPT !.reward = x]
                   \/ rows'[i] = [r EXCEPT !.adv = x, !.scale = z]
    <2>2. rows'[i] = r \/ \E x, z : Filled(x, z)
        <3>1. CASE rows' = rows
            BY <3>1
        <3>2. CASE rows' = WithOld
            BY <1>1, <3>2, Zenon DEF WithOld
        <3>3. CASE rows' = WithRef
            BY <1>1, <3>3, Zenon DEF WithRef
        <3>4. CASE rows' = WithValues
            BY <1>1, <3>4, Zenon DEF WithValues
        <3>5. CASE rows' = WithScore
            BY <1>1, <3>5, Zenon DEF WithScore
        <3>6. CASE rows' = WithReward
            BY <1>1, <3>6, Zenon DEF WithReward
        <3>7. CASE rows' = WithAdv
            BY <1>1, <3>7, Zenon DEF WithAdv
        <3> QED BY <3>1, <3>2, <3>3, <3>4, <3>5, <3>6, <3>7
    <2> HIDE DEF r
    <2>3. ASSUME NEW x, NEW z, Filled(x, z) PROVE rows'[i].resp = r.resp
        <3>1. CASE rows'[i] = [r EXCEPT !.old = x]
            BY <2>1, <3>1 DEF Row
        <3>2. CASE rows'[i] = [r EXCEPT !.ref = x]
            BY <2>1, <3>2 DEF Row
        <3>3. CASE rows'[i] = [r EXCEPT !.values = x]
            BY <2>1, <3>3 DEF Row
        <3>4. CASE rows'[i] = [r EXCEPT !.score = x]
            BY <2>1, <3>4 DEF Row
        <3>5. CASE rows'[i] = [r EXCEPT !.reward = x]
            BY <2>1, <3>5 DEF Row
        <3>6. CASE rows'[i] = [r EXCEPT !.adv = x, !.scale = z]
            BY <2>1, <3>6 DEF Row
        <3> QED BY <2>3, <3>1, <3>2, <3>3, <3>4, <3>5, <3>6, Zenon
    <2> HIDE DEF Filled
    <2>4. rows'[i].resp = r.resp
        BY <2>2, <2>3, Zenon
    <2> QED BY <2>4 DEF r
<1>4. Len(rows') = m
    <2>1. CASE rows' = rows
        BY <1>1, <2>1
    <2>2. CASE rows' # rows
        <3>1. rows' \in {WithOld, WithRef, WithValues, WithScore, WithReward, WithAdv}
            BY <2>2
        <3>2. rows' = [i \in 1..m |-> rows'[i]]
            BY <1>1, <3>1 DEF WithOld, WithRef, WithValues, WithScore, WithReward, WithAdv
        <3>3. \E f : rows' = [i \in 1..m |-> f[i]]
            BY <3>2
        <3> QED BY <1>1, <3>3
    <2> QED BY <2>1, <2>2
<1> QED BY <1>1, <1>2, <1>3, <1>4

LEMMA BalancedNext == PpoInv /\ BalancedInv /\ [Next]_vars => BalancedInv'
<1> SUFFICES ASSUME PpoInv, BalancedInv, [Next]_vars PROVE BalancedInv'
    OBVIOUS
<1>1. CASE ValidateConfig \/ InitWorkers \/ UpdateCritic \/ UpdateActor \/ Test \/ Validate
    <2>1. UNCHANGED <<setting, rows>> /\ pc \notin {"baseline", "unite", "balance"}
        BY <1>1 DEF ValidateConfig, InitWorkers, UpdateCritic, UpdateActor, Test, Validate, Raise
    <2> QED BY <2>1, BalancedKept
<1>2. CASE NextBatch
    <2>1. rows' = <<>>
        BY <1>2 DEF NextBatch
    <2>2. Len(rows') = 0
        BY <2>1
    <2> QED BY <2>2 DEF BalancedInv
<1>3. CASE Generate
    <2>1. rows' = rows /\ pc = "generate"
        BY <1>3 DEF Generate, Raise
    <2>2. Len(rows) = 0
        BY <2>1 DEF PpoInv, BatchLengths
    <2> QED BY <2>1, <2>2 DEF BalancedInv
<1>4. CASE GenerateBaseline
    BY <1>4 DEF GenerateBaseline, Go, BalancedInv
<1>5. CASE UniteResponses
    BY <1>5 DEF UniteResponses, Go, BalancedInv
<1>6. CASE BalanceBatch
    BY <1>6, BalanceBalances
<1>7. CASE OldLogProb \/ RefLogProb \/ ComputeValues \/ ComputeScores \/ ApplyKlPenalty
              \/ ComputeAdvantage
    <2>1. pc \in Working /\ pc \notin {"baseline", "unite", "balance"} /\ setting' = setting
        BY <1>7 DEF OldLogProb, RefLogProb, ComputeValues, ComputeScores, ApplyKlPenalty,
            ComputeAdvantage, Working
    <2>2. setting \in Settings /\ WholeBatch
        BY <2>1, AtWork
    <2>3. rows' \in {rows, WithOld, WithRef, WithValues, WithScore, WithReward, WithAdv}
        <3>1. CASE OldLogProb
            BY <3>1, OldLogProbRows DEF Raise
        <3>2. CASE RefLogProb
            BY <3>2, RefLogProbRows
        <3>3. CASE ComputeValues
            BY <3>3, ComputeValuesRows
        <3>4. CASE ComputeScores
            BY <3>4, ComputeScoresRows
        <3>5. CASE ApplyKlPenalty
            BY <3>5, ApplyKlPenaltyRows
        <3>6. CASE ComputeAdvantage
            BY <3>6, ComputeAdvantageRows
        <3> QED BY <1>7, <3>1, <3>2, <3>3, <3>4, <3>5, <3>6
    <2> QED BY <2>1, <2>2, <2>3, ColumnStays, BalancedKept
<1>8. CASE UNCHANGED vars
    <2>1. UNCHANGED <<setting, rows, pc>>
        BY <1>8 DEF vars
    <2>2. CASE pc \in {"baseline", "unite", "balance"}
        BY <2>1, <2>2 DEF BalancedInv
    <2>3. CASE pc \notin {"baseline", "unite", "balance"}
        BY <2>1, <2>3, BalancedKept
    <2> QED BY <2>2, <2>3
<1> QED BY <1>1, <1>2, <1>3, <1>4, <1>5, <1>6, <1>7, <1>8 DEF Next, Done

LEMMA BalancedInvariant == Spec => [](PpoInv /\ BalancedInv)
<1>1. Init => BalancedInv
    <2> SUFFICES ASSUME Init PROVE Len(rows) = 0
        BY DEF BalancedInv
    <2>1. rows = <<>>
        BY DEF Init
    <2> QED BY <2>1
<1> QED BY <1>1, PpoInvariant, BalancedNext, PTL DEF Spec

\* What WorkIsBalanced says of the ranks and of the micro-batches.
RanksAlike ==
    LET tokens == {Tokens(Lens(rows), Chunk([i \in DOMAIN rows |-> i], setting.world, r)) :
                   r \in 0..(setting.world - 1)}
    IN  Max(tokens) - Min(tokens) <= Width

MicrosFit ==
    \A u \in DOMAIN updates : \A d \in Ranks : \A j \in DOMAIN updates[u].parts[d] :
        TokensIn(updates[u].parts[d][j].rows) < Limit + Width

LEMMA RanksAreAlike ==
    ASSUME setting \in Settings, BalancedRanks(rows)
    PROVE  RanksAlike
<1> DEFINE R == 0..(setting.world - 1)
           tokens == {RankTokens(rows, r) : r \in R}
<1>1. setting.world \in Nat \ {0} /\ Width \in Nat
    BY SettingIs, WidthIs
<1>2. \A r \in R : RankTokens(rows, r) \in Nat
    BY DEF BalancedRanks
<1>3. \A r, s \in R : RankTokens(rows, r) <= RankTokens(rows, s) + Width
    BY DEF BalancedRanks
<1>4. IsFiniteSet(tokens)
    <2>1. IsFiniteSet(R)
        BY <1>1, FS_Interval
    <2> QED
        <3> DEFINE f == [r \in R |-> RankTokens(rows, r)]
        <3>1. tokens = {f[r] : r \in R}
            OBVIOUS
        <3> HIDE DEF f, R, tokens
        <3> QED BY <2>1, <3>1, FiniteImage
<1>5. tokens # {} /\ tokens \subseteq Int
    <2>1. 0 \in R
        BY <1>1
    <2> QED BY <1>2, <2>1
<1>6. \A x, y \in tokens : x <= y + Width
    BY <1>3
<1> HIDE DEF tokens
<1>7. Max(tokens) \in tokens /\ Min(tokens) \in tokens
    BY <1>4, <1>5, MaxIs, MinIs
<1>8. Max(tokens) - Min(tokens) <= Width
    <2> DEFINE x == Max(tokens)
               y == Min(tokens)
    <2>1. x \in Int /\ y \in Int /\ x <= y + Width
        BY <1>5, <1>6, <1>7
    <2> HIDE DEF x, y
    <2>2. x - y <= Width
        BY <1>1, <2>1
    <2> QED BY <2>2 DEF x, y
<1> QED BY <1>8, Zenon DEF RanksAlike, tokens, RankTokens

LEMMA MicrosUnderLimit == ASSUME PpoInv, UpdatesAreGradients, setting.dynamic PROVE MicrosFit
<1> SUFFICES ASSUME NEW u \in DOMAIN updates, NEW d \in Ranks, NEW j \in DOMAIN updates[u].parts[d]
             PROVE  TokensIn(updates[u].parts[d][j].rows) < Limit + Width
    BY DEF MicrosFit
<1>1. /\ setting \in Settings /\ ConfigAccepted /\ WholeBatch /\ Mini # 0
      /\ IsGradients(updates[u])
    BY UpdatesAre
<1>2. updates[u].parts[d] = Gradients(d, updates[u].at) /\ updates[u].at \in Nat \ {0}
    BY <1>1 DEF IsGradients
<1>3. j \in DOMAIN Gradients(d, updates[u].at)
    BY <1>2
<1>4. TokensIn(Gradients(d, updates[u].at)[j].rows) < Limit + Width
    BY <1>1, <1>2, <1>3, MicroUnderLimit
<1> QED BY <1>2, <1>4

\* For rows of whatever lengths and any number of ranks: the partitions balance_batch
\* asks for pass the assertions of the partitioner, no two ranks' token counts then
\* differ by more than the width of a row until the batch is done with, and no
\* micro-batch of an update exceeds max_token_len by the width of a row.
THEOREM WorkBalanced == Spec => []WorkIsBalanced
<1>1. PpoInv /\ UpdatesAreGradients /\ BalancedInv => WorkIsBalanced
    <2> SUFFICES ASSUME PpoInv, UpdatesAreGradients, BalancedInv PROVE WorkIsBalanced
        OBVIOUS
    <2>1. pc = "balance" => Partitioned
        BY BalanceIsPartitioned
    <2>2. (setting.balance /\ United /\ pc # "balance") => RanksAlike
        <3> SUFFICES ASSUME setting.balance, United, pc # "balance" PROVE RanksAlike
            OBVIOUS
        <3>1. setting \in Settings
            BY DEF PpoInv, PpoTypes
        <3>2. \E S : rows \in Seq(S)
            BY DEF PpoInv, RowTypes
        <3>3. Len(rows) # 0
            BY <3>2 DEF United
        <3>4. BalancedRanks(rows)
            BY <3>3 DEF United, BalancedInv
        <3> QED BY <3>1, <3>4, RanksAreAlike
    <2>3. setting.dynamic => MicrosFit
        BY MicrosUnderLimit
    <2> QED BY <2>1, <2>2, <2>3, Zenon DEF WorkIsBalanced, RanksAlike, MicrosFit, TokensIn, Limit
<1> QED BY <1>1, UpdatesInvariant, BalancedInvariant, PTL

-------------------------------------------------------------------------------
(* What an epoch trains *)

\* What the parts have, and no more, is what they have together.
LEMMA FlattenElems ==
    ASSUME NEW S, NEW parts, parts \in Seq(Seq(S))
    PROVE  \A x : x \in Elems(FlattenSeq(parts)) <=> \E i \in 1..Len(parts) : x \in Elems(parts[i])
<1> DEFINE k == Len(parts)
<1>1. k \in Nat /\ \A i \in 1..k : parts[i] \in Seq(S)
    OBVIOUS
<1>2. PICK f \in [0..k -> Seq(S)] : Joins(f, parts) /\ FlattenSeq(parts) = f[k]
    BY FlattenUnfolds, Zenon
<1> DEFINE T == {m \in Nat : m <= k =>
                    \A x : x \in Elems(f[m]) <=> \E i \in 1..m : x \in Elems(parts[i])}
<1>3. 0 \in T
    <2>1. f[0] = <<>>
        BY <1>2 DEF Joins
    <2>2. Elems(f[0]) = {}
        BY <2>1 DEF Elems
    <2> QED BY <2>2
<1>4. ASSUME NEW m \in Nat, m \in T PROVE m + 1 \in T
    <2> SUFFICES ASSUME m + 1 <= k, NEW x
                 PROVE  x \in Elems(f[m + 1]) <=> \E i \in 1..(m + 1) : x \in Elems(parts[i])
        OBVIOUS
    <2>1. m + 1 \in 1..k /\ m \in 0..k /\ m + 1 \in 0..k /\ (m + 1) - 1 = m
        OBVIOUS
    <2>2. f[m + 1] = f[m] \o parts[m + 1] /\ f[m] \in Seq(S) /\ parts[m + 1] \in Seq(S)
        BY <1>1, <1>2, <2>1 DEF Joins
    <2>3. x \in Elems(f[m + 1]) <=> x \in Elems(f[m]) \/ x \in Elems(parts[m + 1])
        BY <2>2, ConcatElems
    <2>4. x \in Elems(f[m]) <=> \E i \in 1..m : x \in Elems(parts[i])
        BY <1>4, <2>1
    <2>5. \A i : i \in 1..(m + 1) <=> i \in 1..m \/ i = m + 1
        OBVIOUS
    <2> QED BY <2>3, <2>4, <2>5, Zenon
<1>5. k \in T
    <2>1. \A m \in Nat : m \in T
        <3> HIDE DEF T
        <3> QED BY <1>3, <1>4, InductionOnNat
    <2> QED BY <1>1, <2>1
<1>6. k <= k
    BY <1>1
<1> QED BY <1>2, <1>5, <1>6

\* Two lists of parts of the same lengths.
SameLengths(parts, pieces) ==
    Len(parts) = Len(pieces) /\ \A j \in 1..Len(parts) : Len(parts[j]) = Len(pieces[j])

LEMMA FlattenAlike ==
    ASSUME NEW S, NEW parts, parts \in Seq(Seq(S)), NEW U, NEW pieces, pieces \in Seq(Seq(U)),
           SameLengths(parts, pieces)
    PROVE  Len(FlattenSeq(parts)) = Len(FlattenSeq(pieces))
<1> DEFINE k == Len(parts)
           w == [j \in 1..k |-> Len(parts[j])]
<1>1. PICK u \in [0..k -> Int] : Sums(u, k, w) /\ Len(FlattenSeq(parts)) = u[k]
    BY FlattenSums
<1>2. PICK v \in [0..Len(pieces) -> Int] :
          /\ Sums(v, Len(pieces), [j \in 1..Len(pieces) |-> Len(pieces[j])])
          /\ Len(FlattenSeq(pieces)) = v[Len(pieces)]
    BY FlattenSums
<1>3. k \in Nat /\ \A j \in 1..k : parts[j] \in Seq(S)
    OBVIOUS
<1>4. w \in [1..k -> Int]
    BY <1>3
<1>5. Len(pieces) = k /\ w = [j \in 1..Len(pieces) |-> Len(pieces[j])]
    BY DEF SameLengths
<1>6. v \in [0..k -> Int] /\ Sums(v, k, w) /\ Len(FlattenSeq(pieces)) = v[k]
    BY <1>2, <1>5
<1> HIDE DEF k, w
<1>7. u[k] = v[k]
    BY <1>1, <1>3, <1>4, <1>6, SumsUnique
<1> QED BY <1>1, <1>6, <1>7

\* What a rank trains in the step numbered at, and what all do.
RankRows(d, at) == FlattenSeq([j \in DOMAIN Gradients(d, at) |-> Gradients(d, at)[j].rows])
StepRows(at) == ConcatParts(Dp(setting), [d \in Ranks |-> RankRows(d, at)])

MiniHas(x, d, at) == \E y \in 1..MiniSize(at) : x = MiniBatch(d, at)[y].resp

LEMMA RankRowsAre ==
    ASSUME setting \in Settings, ConfigAccepted, WholeBatch, Mini # 0, NEW at \in Nat \ {0},
           NEW d \in Ranks
    PROVE  /\ RankRows(d, at) \in Seq(Resp) /\ Len(RankRows(d, at)) = MiniSize(at)
           /\ \A x : x \in Elems(RankRows(d, at)) <=> MiniHas(x, d, at)
<1> DEFINE mine == MiniBatch(d, at)
           micros == MicroBatchesAt(d, at)
           m == MiniSize(at)
           k == CountAt(at)
           G == Gradients(d, at)
           parts == [j \in DOMAIN G |-> G[j].rows]
<1>1. /\ micros \in Seq(Seq(1..m)) /\ Len(micros) = k /\ k \in Nat \ {0}
      /\ Permutes(FlattenSeq(micros), m)
    BY MicroBatchesAtAre DEF CountAt
<1>2. m \in Nat \ {0}
    BY MiniSizeIs
<1>3. DOMAIN G = 1..k /\ \A j \in 1..k : G[j].rows = RowsAt(d, at, j)
    BY GradientIs
<1>4. G \in Seq(MicroUpdate) /\ Len(G) = k
    BY GradientsAre, GradientIs
<1>5. \A j \in 1..k : RowsAt(d, at, j) = [i \in DOMAIN micros[j] |-> mine[micros[j][i]].resp]
    BY DEF RowsAt
<1> HIDE DEF mine, micros, m, k, G
<1>6. parts \in Seq(Seq(Resp)) /\ Len(parts) = k
    <2>1. \A j \in 1..k : G[j] \in MicroUpdate
        BY <1>4
    <2>2. \A j \in 1..k : G[j].rows \in Seq(Resp)
        BY <2>1 DEF MicroUpdate
    <2>3. parts \in [1..k -> Seq(Resp)]
        BY <1>3, <2>2
    <2> HIDE DEF parts
    <2> QED BY <1>1, <2>3, FunctionIsSeq
<1>7. \A j \in 1..k : /\ micros[j] \in Seq(1..m) /\ parts[j] \in Seq(Resp)
                      /\ Len(parts[j]) = Len(micros[j])
                      /\ \A i \in 1..Len(micros[j]) : parts[j][i] = mine[micros[j][i]].resp
    <2> SUFFICES ASSUME NEW j \in 1..k
                 PROVE  /\ micros[j] \in Seq(1..m) /\ parts[j] \in Seq(Resp)
                        /\ Len(parts[j]) = Len(micros[j])
                        /\ \A i \in 1..Len(micros[j]) : parts[j][i] = mine[micros[j][i]].resp
        OBVIOUS
    <2> DEFINE q == micros[j]
               p == parts[j]
    <2>1. q \in Seq(1..m)
        BY <1>1
    <2>2. p \in Seq(Resp)
        <3> HIDE DEF parts
        <3> QED BY <1>6
    <2>3. p = [i \in DOMAIN q |-> mine[q[i]].resp]
        BY <1>3, <1>5
    <2> HIDE DEF q, p
    <2>4. DOMAIN q = 1..Len(q) /\ Len(q) \in Nat
        BY <2>1, LenProperties
    <2>5. DOMAIN p = 1..Len(p) /\ Len(p) \in Nat
        BY <2>2, LenProperties
    <2>6. 1..Len(p) = 1..Len(q)
        BY <2>3, <2>4, <2>5, Zenon
    <2>7. Len(p) = Len(q)
        <3> DEFINE a == Len(p)
                   b == Len(q)
        <3>1. a \in Nat /\ b \in Nat /\ \A i : i \in 1..a <=> i \in 1..b
            BY <2>4, <2>5, <2>6
        <3> HIDE DEF a, b
        <3>2. a \in 1..b \/ a = 0
            BY <3>1
        <3>3. b \in 1..a \/ b = 0
            BY <3>1
        <3>4. a = b
            BY <3>1, <3>2, <3>3
        <3> QED BY <3>4 DEF a, b
    <2>8. \A i \in 1..Len(q) : p[i] = mine[q[i]].resp
        BY <2>3, <2>4
    <2> QED BY <2>1, <2>2, <2>7, <2>8 DEF q, p
<1>8. RankRows(d, at) = FlattenSeq(parts)
    BY Zenon DEF RankRows, G
<1> HIDE DEF parts
<1>9. Len(FlattenSeq(parts)) = m
    <2>1. SameLengths(parts, micros)
        BY <1>1, <1>6, <1>7 DEF SameLengths
    <2>2. Len(FlattenSeq(micros)) = m
        BY <1>1 DEF Permutes
    <2> QED BY <1>1, <1>6, <2>1, <2>2, FlattenAlike
<1>10. \A y : y \in Elems(FlattenSeq(micros)) <=> y \in 1..m
    <2>1. /\ FlattenSeq(micros) \in [1..m -> 1..m] /\ Len(FlattenSeq(micros)) = m
          /\ \A r \in 1..m : \E i \in 1..m : FlattenSeq(micros)[i] = r
        BY <1>1 DEF Permutes
    <2> QED BY <2>1 DEF Elems
<1>11. \A y : y \in Elems(FlattenSeq(micros)) <=> \E j \in 1..k : y \in Elems(micros[j])
    BY <1>1, FlattenElems
<1>12. \A x : x \in Elems(FlattenSeq(parts)) <=> \E j \in 1..k : x \in Elems(parts[j])
    BY <1>6, FlattenElems
<1>13. ASSUME NEW x
       PROVE  x \in Elems(FlattenSeq(parts)) <=> \E y \in 1..m : x = mine[y].resp
    <2>1. ASSUME NEW j \in 1..k, x \in Elems(parts[j])
          PROVE  \E y \in 1..m : x = mine[y].resp
        <3>1. PICK i \in 1..Len(micros[j]) : x = parts[j][i]
            BY <1>7, <2>1 DEF Elems
        <3>2. micros[j][i] \in 1..m
            <4>1. micros[j] \in Seq(1..m)
                BY <1>7
            <4> DEFINE q == micros[j]
            <4> HIDE DEF q
            <4>2. q \in Seq(1..m) /\ i \in 1..Len(q)
                BY <4>1 DEF q
            <4>3. q[i] \in 1..m
                BY <4>2, ElementOfSeq, Zenon
            <4> QED BY <4>3 DEF q
        <3>3. x = mine[micros[j][i]].resp
            BY <1>7, <3>1
        <3> QED BY <3>2, <3>3
    <2>2. ASSUME NEW y \in 1..m, x = mine[y].resp
          PROVE  \E j \in 1..k : x \in Elems(parts[j])
        <3>1. PICK j \in 1..k : y \in Elems(micros[j])
            BY <1>10, <1>11
        <3>2. PICK i \in 1..Len(micros[j]) : y = micros[j][i]
            BY <3>1 DEF Elems
        <3>3. x = parts[j][i] /\ i \in 1..Len(parts[j])
            BY <1>7, <2>2, <3>2
        <3> QED BY <3>3 DEF Elems
    <2> QED BY <1>12, <2>1, <2>2
<1>14. FlattenSeq(parts) \in Seq(Resp)
    BY <1>6, FlattenType
<1> QED BY <1>8, <1>9, <1>13, <1>14 DEF MiniHas, mine, m

\* The k parts have c elements each.
EachHas(parts, k, c, S) ==
    /\ k \in Nat /\ c \in Nat /\ parts \in [0..(k - 1) -> Seq(S)]
    /\ \A i \in 0..(k - 1) : Len(parts[i]) = c

LEMMA ConcatLength ==
    ASSUME NEW S, NEW k, NEW c, NEW parts, EachHas(parts, k, c, S)
    PROVE  ConcatParts(k, parts) \in Seq(S) /\ Len(ConcatParts(k, parts)) = k * c
<1>1. /\ k \in Nat /\ c \in Nat /\ parts \in [0..(k - 1) -> Seq(S)]
      /\ \A i \in 0..(k - 1) : Len(parts[i]) = c
    BY DEF EachHas
<1>2. /\ ConcatParts(k, parts) \in Seq(S) /\ Len(ConcatParts(k, parts)) = k * c
      /\ \A i \in 0..(k - 1) : IsBlock(parts[i], ConcatParts(k, parts), i, c)
    BY <1>1, EvenConcat, Zenon
<1> QED BY <1>2

LEMMA StepRowsAre ==
    ASSUME setting \in Settings, ConfigAccepted, WholeBatch, Mini # 0, NEW at \in Nat \ {0}
    PROVE  /\ StepRows(at) \in Seq(Resp) /\ Len(StepRows(at)) = Dp(setting) * MiniSize(at)
           /\ \A x : x \in Elems(StepRows(at)) <=> \E d \in Ranks : MiniHas(x, d, at)
<1> DEFINE k == Dp(setting)
           c == MiniSize(at)
           f == [d \in Ranks |-> RankRows(d, at)]
           parts == [i \in 1..k |-> f[i - 1]]
<1>1. k \in Nat \ {0} /\ c \in Nat \ {0} /\ Ranks = 0..(k - 1)
    BY SizesAre, MiniSizeIs DEF Ranks
<1>2. StepRows(at) = ConcatParts(k, f) /\ StepRows(at) = FlattenSeq(parts)
    BY Zenon DEF StepRows, ConcatParts
<1>3. ASSUME NEW d \in Ranks
      PROVE  /\ f[d] \in Seq(Resp) /\ Len(f[d]) = c
             /\ \A x : x \in Elems(f[d]) <=> MiniHas(x, d, at)
    BY RankRowsAre
<1> HIDE DEF k, c, f
<1>4. f \in [0..(k - 1) -> Seq(Resp)]
    BY <1>1, <1>3 DEF f
<1>5. ConcatParts(k, f) \in Seq(Resp) /\ Len(ConcatParts(k, f)) = k * c
    <2>1. EachHas(f, k, c, Resp)
        BY <1>1, <1>3, <1>4 DEF EachHas
    <2> QED BY <2>1, ConcatLength
<1>6. \A i \in 1..k : i - 1 \in Ranks
    BY <1>1
<1>7. parts \in [1..k -> Seq(Resp)]
    BY <1>3, <1>6
<1>8. /\ parts \in Seq(Seq(Resp)) /\ Len(parts) = k
      /\ \A i \in 1..k : parts[i] = f[i - 1]
    <2>1. \A i \in 1..k : parts[i] = f[i - 1]
        OBVIOUS
    <2> HIDE DEF parts
    <2> QED BY <1>1, <1>7, <2>1, FunctionIsSeq
<1> HIDE DEF parts
<1>9. \A x : x \in Elems(FlattenSeq(parts)) <=> \E i \in 1..k : x \in Elems(parts[i])
    BY <1>8, FlattenElems
<1>10. ASSUME NEW x
       PROVE  (\E i \in 1..k : x \in Elems(parts[i])) <=> \E d \in Ranks : MiniHas(x, d, at)
    <2>1. ASSUME NEW i \in 1..k, x \in Elems(parts[i]) PROVE \E d \in Ranks : MiniHas(x, d, at)
        BY <1>3, <1>6, <1>8, <2>1
    <2>2. ASSUME NEW d \in Ranks, MiniHas(x, d, at) PROVE \E i \in 1..k : x \in Elems(parts[i])
        <3>1. d + 1 \in 1..k /\ (d + 1) - 1 = d
            BY <1>1
        <3>2. x \in Elems(f[d])
            BY <1>3, <2>2
        <3> QED BY <1>8, <3>1, <3>2
    <2> QED BY <2>1, <2>2
<1> QED BY <1>2, <1>5, <1>9, <1>10 DEF k, c

\* Every number up to n is behind one end and not behind the next.
MeetsAll(g, n, k) == \A z \in 1..n : \E x \in 1..k : g[x - 1] < z /\ z <= g[x]

\* Where the pieces of n elements, size at a time, end: every element is in one.
LEMMA EndsAre ==
    ASSUME NEW n \in Nat \ {0}, NEW size \in Nat \ {0}, NEW k, k = CeilDiv(n, size),
           NEW g, EndsAt(g, size, n, k)
    PROVE  /\ k \in Nat \ {0} /\ g \in [0..k -> Nat] /\ g[0] = 0 /\ g[k] = n
           /\ \A x \in 1..k : g[x - 1] <= g[x] /\ g[x] <= n
           /\ MeetsAll(g, n, k)
<1>1. /\ k \in Nat /\ n <= k * size
      /\ \A i \in 1..k : (i - 1) * size \in Nat /\ (i - 1) * size < n
    BY CeilDivIs
<1>2. k # 0
    <2> SUFFICES ASSUME k = 0 PROVE FALSE
        OBVIOUS
    <2>1. k * size = 0
        OBVIOUS
    <2> QED BY <1>1, <2>1
<1>3. \A x \in Nat : x * size \in Nat
    OBVIOUS
<1>4. DOMAIN g = 0..k /\ \A x \in 0..k : g[x] = IF x * size < n THEN x * size ELSE n
    BY DEF EndsAt
<1>5. g \in [0..k -> Nat]
    <2>1. g = [x \in 0..k |-> IF x * size < n THEN x * size ELSE n]
        BY DEF EndsAt
    <2> QED BY <1>3, <2>1
<1>6. g[0] = 0
    <2> DEFINE o == 0
    <2>1. o * size = 0 /\ o \in 0..k
        BY <1>1
    <2> HIDE DEF o
    <2>2. g[o] = 0
        BY <1>4, <2>1
    <2> QED BY <2>2 DEF o
<1>7. g[k] = n
    <2>1. k \in 0..k /\ k * size \in Nat
        BY <1>1, <1>3
    <2> QED BY <1>1, <1>4, <2>1
<1>8. ASSUME NEW x \in 1..k PROVE g[x - 1] <= g[x] /\ g[x] <= n
    <2>1. x - 1 \in 0..k /\ x \in 0..k /\ (x - 1) * size \in Nat /\ (x - 1) * size < n
        BY <1>1
    <2>2. x * size = (x - 1) * size + size /\ x * size \in Nat
        BY <1>1, <1>3
    <2>3. g[x - 1] = (x - 1) * size
        BY <1>4, <2>1
    <2>4. g[x] = IF x * size < n THEN x * size ELSE n
        BY <1>4, <2>1
    <2> DEFINE a == (x - 1) * size
               b == x * size
    <2> HIDE DEF a, b
    <2>5. a \in Nat /\ a < n /\ b = a + size /\ g[x - 1] = a /\ g[x] = (IF b < n THEN b ELSE n)
        BY <2>1, <2>2, <2>3, <2>4 DEF a, b
    <2> QED BY <2>5
<1>9. ASSUME NEW z \in 1..n PROVE \E x \in 1..k : g[x - 1] < z /\ z <= g[x]
    <2> DEFINE q == (z - 1) \div size
               r == (z - 1) % size
    <2>1. z - 1 \in Nat /\ z - 1 < k * size
        BY <1>1, <1>3
    <2>2. q \in Nat /\ r \in 0..(size - 1) /\ z - 1 = q * size + r /\ q < k
        BY <1>1, <2>1, DivisionOf
    <2> HIDE DEF q, r
    <2>3. q + 1 \in 1..k /\ q \in 0..k /\ q + 1 \in 0..k /\ (q + 1) - 1 = q
        BY <1>1, <2>2
    <2>4. (q + 1) * size = q * size + size /\ q * size \in Nat
        BY <2>2
    <2> DEFINE a == q * size
               b == (q + 1) * size
    <2>5. /\ a \in Nat /\ b = a + size /\ z - 1 = a + r
          /\ g[q] = (IF a < n THEN a ELSE n) /\ g[q + 1] = (IF b < n THEN b ELSE n)
        BY <1>4, <2>2, <2>3, <2>4
    <2> HIDE DEF a, b
    <2>6. g[q] < z /\ z <= g[q + 1]
        BY <2>2, <2>5
    <2> QED BY <2>3, <2>6
<1> QED BY <1>1, <1>2, <1>5, <1>6, <1>7, <1>8, <1>9 DEF MeetsAll

\* The steps a[1] to a[k] go through the mini-batches in turn.
InTurn(a, k) == a \in [1..k -> Nat \ {0}] /\ \A x \in 1..k : MiniAt(a[x]) = x

LEMMA OffsetIs ==
    ASSUME NEW lo \in Nat, NEW hi \in Nat, NEW s \in Nat, hi <= s, NEW y \in 1..(hi - lo)
    PROVE  lo + y \in 1..s
OBVIOUS

\* What the mini-batches of all ranks have are the responses of the batch.
LEMMA MinisHaveAll ==
    ASSUME setting \in Settings, ConfigAccepted, WholeBatch, Mini # 0,
           NEW k, k = CeilDiv(Share, Mini), NEW a, InTurn(a, k), NEW r
    PROVE  (\E x \in 1..k : \E d \in Ranks : MiniHas(r, d, a[x]))
               <=> \E i \in 1..Len(rows) : r = rows[i].resp
<1> DEFINE s == Share
           D == Dp(setting)
           g == MiniEnds
<1>1. /\ s \in Nat \ {0} /\ Mini \in Nat \ {0} /\ D \in Nat \ {0} /\ Ranks = 0..(D - 1)
      /\ Len(rows) = D * s
    BY SizesAre DEF Shares, WholeBatch, IsPart, Ranks
<1>2. EndsAt(g, Mini, s, k)
    BY DEF EndsAt, MiniEnds
<1>3. /\ k \in Nat \ {0} /\ g \in [0..k -> Nat]
      /\ \A x \in 1..k : g[x - 1] <= g[x] /\ g[x] <= s
      /\ \A z \in 1..s : \E x \in 1..k : g[x - 1] < z /\ z <= g[x]
    <2> HIDE DEF s, g
    <2>1. k = CeilDiv(s, Mini)
        BY DEF s
    <2>2. /\ k \in Nat \ {0} /\ g \in [0..k -> Nat] /\ MeetsAll(g, s, k)
          /\ \A x \in 1..k : g[x - 1] <= g[x] /\ g[x] <= s
        BY <1>1, <1>2, <2>1, EndsAre
    <2> QED BY <2>2 DEF MeetsAll
<1>4. ASSUME NEW x \in 1..k
      PROVE  /\ a[x] \in Nat \ {0} /\ MiniSize(a[x]) = g[x] - g[x - 1]
             /\ \A d \in Ranks : \A y \in 1..(g[x] - g[x - 1]) :
                    MiniBatch(d, a[x])[y] = rows[d * s + (g[x - 1] + y)]
    <2>1. a[x] \in Nat \ {0} /\ MiniAt(a[x]) = x
        BY DEF InTurn
    <2>2. MiniSize(a[x]) = g[x] - g[x - 1]
        BY <2>1 DEF MiniSize
    <2>3. ASSUME NEW d \in Ranks, NEW y \in 1..(g[x] - g[x - 1])
          PROVE  MiniBatch(d, a[x])[y] = rows[d * s + (g[x - 1] + y)]
        <3>1. IsPiece(MiniBatch(d, a[x]), LocalRows(setting, rows, d), MiniSize(a[x]),
                      MiniEnds[MiniAt(a[x]) - 1])
            BY <2>1, MiniBatchIs
        <3>2. MiniBatch(d, a[x])[y] = LocalRows(setting, rows, d)[g[x - 1] + y]
            BY <2>1, <2>2, <3>1 DEF IsPiece
        <3>3. IsBlock(LocalRows(setting, rows, d), rows, d, s)
            BY LocalsAre
        <3> HIDE DEF g, s
        <3>4. x - 1 \in 0..k /\ x \in 0..k
            BY <1>3
        <3>5. g[x - 1] \in Nat /\ g[x] \in Nat /\ g[x] <= s
            BY <1>3, <3>4
        <3>6. g[x - 1] + y \in 1..s
            BY <1>1, <3>5, OffsetIs
        <3>7. LocalRows(setting, rows, d)[g[x - 1] + y] = rows[d * s + (g[x - 1] + y)]
            BY <3>3, <3>6 DEF IsBlock
        <3> QED BY <3>2, <3>7
    <2> QED BY <2>1, <2>2, <2>3
<1> HIDE DEF s, D, g
<1>5. ASSUME NEW x \in 1..k, NEW d \in Ranks, MiniHas(r, d, a[x])
      PROVE  \E i \in 1..Len(rows) : r = rows[i].resp
    <2>1. PICK y \in 1..(g[x] - g[x - 1]) : r = MiniBatch(d, a[x])[y].resp
        BY <1>4, <1>5 DEF MiniHas
    <2>2. x - 1 \in 0..k /\ x \in 0..k
        BY <1>3
    <2>3. g[x - 1] \in Nat /\ g[x] \in Nat /\ g[x] <= s
        BY <1>3, <2>2
    <2>4. g[x - 1] + y \in 1..s
        BY <1>1, <2>3, OffsetIs
    <2>5. d * s + (g[x - 1] + y) \in 1..(D * s)
        BY <1>1, <2>4, InBlock
    <2>6. r = rows[d * s + (g[x - 1] + y)].resp
        BY <1>4, <2>1
    <2> QED BY <1>1, <2>5, <2>6
<1>6. ASSUME NEW i \in 1..Len(rows), r = rows[i].resp
      PROVE  \E x \in 1..k : \E d \in Ranks : MiniHas(r, d, a[x])
    <2>1. i \in 1..(D * s)
        BY <1>1
    <2>2. InSomeBlock(i, D, s)
        BY <1>1, <2>1, Blocks
    <2>3. PICK d \in Ranks, z \in 1..s : i = d * s + z
        BY <1>1, <2>2 DEF InSomeBlock
    <2>4. PICK x \in 1..k : g[x - 1] < z /\ z <= g[x]
        BY <1>3
    <2>5. x - 1 \in 0..k /\ x \in 0..k
        BY <1>3
    <2> DEFINE y == z - g[x - 1]
    <2>6. y \in 1..(g[x] - g[x - 1]) /\ g[x - 1] + y = z
        <3> DEFINE b == g[x - 1]
                   c == g[x]
        <3>1. b \in Nat /\ c \in Nat
            BY <1>3, <2>5
        <3>2. b < z /\ z <= c /\ y = z - b /\ z \in Int
            BY <1>1, <2>4
        <3> HIDE DEF b, c, y
        <3>3. y \in 1..(c - b) /\ b + y = z
            BY <3>1, <3>2
        <3> QED BY <3>3 DEF b, c
    <2> HIDE DEF y
    <2>7. MiniBatch(d, a[x])[y] = rows[d * s + (g[x - 1] + y)]
        BY <1>4, <2>6
    <2>8. r = MiniBatch(d, a[x])[y].resp
        BY <1>6, <2>3, <2>6, <2>7
    <2>9. MiniHas(r, d, a[x])
        BY <1>4, <2>6, <2>8 DEF MiniHas
    <2> QED BY <2>9
<1> QED BY <1>5, <1>6

LEMMA EpochTrainsAll ==
    ASSUME setting \in Settings, ConfigAccepted, WholeBatch, Mini # 0,
           NEW k, k = CeilDiv(Share, Mini), NEW a, InTurn(a, k),
           NEW parts, parts = [x \in 1..k |-> StepRows(a[x])]
    PROVE  /\ FlattenSeq(parts) \in Seq(Resp) /\ Len(FlattenSeq(parts)) = Len(rows)
           /\ \A r : r \in Elems(FlattenSeq(parts)) <=> \E i \in 1..Len(rows) : r = rows[i].resp
<1> DEFINE s == Share
           D == Dp(setting)
           g == MiniEnds
           w == [x \in 1..k |-> Len(parts[x])]
           v == [x \in 0..k |-> D * g[x]]
<1>1. /\ s \in Nat \ {0} /\ Mini \in Nat \ {0} /\ D \in Nat \ {0} /\ Len(rows) = D * s
    BY SizesAre DEF Shares, WholeBatch, IsPart
<1>2. EndsAt(g, Mini, s, k)
    BY DEF EndsAt, MiniEnds
<1>3. k \in Nat \ {0} /\ g \in [0..k -> Nat] /\ g[0] = 0 /\ g[k] = s
    <2> HIDE DEF s, g
    <2>1. k = CeilDiv(s, Mini)
        BY DEF s
    <2> QED BY <1>1, <1>2, <2>1, EndsAre
<1>4. ASSUME NEW x \in 1..k
      PROVE  /\ a[x] \in Nat \ {0} /\ MiniSize(a[x]) = g[x] - g[x - 1]
             /\ parts[x] \in Seq(Resp) /\ Len(parts[x]) = D * (g[x] - g[x - 1])
             /\ \A r : r \in Elems(parts[x]) <=> \E d \in Ranks : MiniHas(r, d, a[x])
    <2>1. a[x] \in Nat \ {0} /\ MiniAt(a[x]) = x
        BY DEF InTurn
    <2>2. MiniSize(a[x]) = g[x] - g[x - 1]
        BY <2>1 DEF MiniSize
    <2>3. parts[x] = StepRows(a[x])
        OBVIOUS
    <2>4. /\ StepRows(a[x]) \in Seq(Resp) /\ Len(StepRows(a[x])) = D * MiniSize(a[x])
          /\ \A r : r \in Elems(StepRows(a[x])) <=> \E d \in Ranks : MiniHas(r, d, a[x])
        BY <2>1, StepRowsAre
    <2> HIDE DEF g, D
    <2> QED BY <2>1, <2>2, <2>3, <2>4
<1>5. parts \in Seq(Seq(Resp)) /\ Len(parts) = k
    <2>1. parts \in [1..k -> Seq(Resp)]
        BY <1>4
    <2> QED BY <1>3, <2>1, FunctionIsSeq
<1> HIDE DEF s, D, g
<1>6. PICK u \in [0..k -> Int] : Sums(u, k, w) /\ Len(FlattenSeq(parts)) = u[k]
    <2>1. \E u \in [0..Len(parts) -> Int] :
              /\ Sums(u, Len(parts), [j \in 1..Len(parts) |-> Len(parts[j])])
              /\ Len(FlattenSeq(parts)) = u[Len(parts)]
        BY <1>5, FlattenSums, Zenon
    <2> QED BY <1>5, <2>1
<1>7. v \in [0..k -> Int]
    <2>1. \A x \in 0..k : D * g[x] \in Int
        BY <1>1, <1>3
    <2> QED BY <2>1
<1>8. Sums(v, k, w)
    <2>1. v[0] = 0
        <3>1. 0 \in 0..k /\ D * g[0] = 0
            BY <1>1, <1>3
        <3> QED BY <3>1
    <2>2. ASSUME NEW x \in 1..k PROVE v[x] = v[x - 1] + w[x]
        <3>1. x - 1 \in 0..k /\ x \in 0..k
            BY <1>3
        <3> DEFINE b == g[x - 1]
                   c == g[x]
        <3>2. b \in Nat /\ c \in Nat
            BY <1>3, <3>1
        <3>3. w[x] = D * (c - b) /\ v[x] = D * c /\ v[x - 1] = D * b
            BY <1>4, <3>1
        <3> HIDE DEF b, c, v, w
        <3>4. D * c = D * b + D * (c - b)
            BY <1>1, <3>2
        <3> QED BY <3>3, <3>4
    <2> HIDE DEF v, w
    <2> QED BY <2>1, <2>2 DEF Sums
<1>9. w \in [1..k -> Int]
    <2>1. \A x \in 1..k : Len(parts[x]) \in Int
        BY <1>4
    <2> QED BY <2>1
<1>10. v[k] = Len(rows)
    <2>1. k \in 0..k
        BY <1>3
    <2> QED BY <1>1, <1>3, <2>1
<1> HIDE DEF v, w
<1>11. u[k] = v[k]
    BY <1>3, <1>6, <1>7, <1>8, <1>9, SumsUnique
<1>12. \A r : r \in Elems(FlattenSeq(parts)) <=> \E x \in 1..k : r \in Elems(parts[x])
    BY <1>5, FlattenElems
<1>13. ASSUME NEW r
       PROVE  r \in Elems(FlattenSeq(parts)) <=> \E i \in 1..Len(rows) : r = rows[i].resp
    <2>1. (\E x \in 1..k : \E d \in Ranks : MiniHas(r, d, a[x]))
              <=> \E i \in 1..Len(rows) : r = rows[i].resp
        BY MinisHaveAll
    <2>2. (\E x \in 1..k : r \in Elems(parts[x]))
              <=> \E x \in 1..k : \E d \in Ranks : MiniHas(r, d, a[x])
        BY <1>4
    <2> QED BY <1>12, <2>1, <2>2
<1>14. FlattenSeq(parts) \in Seq(Resp)
    BY <1>5, FlattenType
<1> QED BY <1>6, <1>10, <1>11, <1>13, <1>14

\* Picking the places of the middle one of three sequences.
LEMMA PickOfThree ==
    ASSUME NEW S, NEW p \in Seq(S), NEW m \in Seq(S), NEW t \in Seq(S), NEW K,
           \A i \in 1..(Len(p) + Len(m) + Len(t)) :
               i \in K <=> Len(p) < i /\ i <= Len(p) + Len(m)
    PROVE  Pick(p \o (m \o t), K) = m
<1> DEFINE a == Len(p)
           b == Len(m)
           c == Len(t)
           L == {i \in 1..(b + c) : a + i \in K}
           N == {i \in 1..c : b + i \in L}
<1>1. a \in Nat /\ b \in Nat /\ c \in Nat
    OBVIOUS
<1>2. \A i \in 1..(a + b + c) : i \in K <=> a < i /\ i <= a + b
    OBVIOUS
<1>3. m \o t \in Seq(S) /\ Len(m \o t) = b + c
    OBVIOUS
<1> DEFINE q == m \o t
<1> HIDE DEF a, b, c
<1>4. \A i \in 1..(b + c) : i \in L <=> i <= b
    <2> SUFFICES ASSUME NEW i \in 1..(b + c) PROVE a + i \in K <=> i <= b
        OBVIOUS
    <2>1. a + i \in 1..(a + b + c)
        BY <1>1
    <2> QED BY <1>1, <1>2, <2>1
<1> HIDE DEF q, L
<1>5. Pick(p \o q, K) = Pick(p, K) \o Pick(q, L)
    <2>1. \A i \in 1..Len(q) : i \in L <=> Len(p) + i \in K
        BY <1>3 DEF q, L, a
    <2>2. q \in Seq(S)
        BY <1>3 DEF q
    <2> QED BY <2>1, <2>2, PickConcat
<1>6. Pick(q, L) = Pick(m, L) \o Pick(t, N)
    <2>1. \A i \in 1..Len(t) : i \in N <=> Len(m) + i \in L
        BY DEF b, c
    <2> HIDE DEF N
    <2> QED BY <2>1, PickConcat DEF q
<1>7. Pick(p, K) = <<>>
    <2>1. \A i \in 1..Len(p) : i \notin K
        <3> SUFFICES ASSUME NEW i \in 1..a PROVE i \notin K
            BY DEF a
        <3>1. i \in 1..(a + b + c)
            BY <1>1
        <3> QED BY <1>1, <1>2, <3>1
    <2> QED BY <2>1, PickNone
<1>8. Pick(m, L) = m
    <2>1. \A i \in 1..Len(m) : i \in L
        <3> SUFFICES ASSUME NEW i \in 1..b PROVE i \in L
            BY DEF b
        <3>1. i \in 1..(b + c) /\ i <= b
            BY <1>1
        <3> QED BY <1>4, <3>1
    <2> QED BY <2>1, PickAll
<1>9. Pick(t, N) = <<>>
    <2>1. \A i \in 1..Len(t) : i \notin N
        <3> SUFFICES ASSUME NEW i \in 1..c PROVE b + i \notin L
            BY DEF c
        <3>1. b + i \in 1..(b + c) /\ ~(b + i <= b)
            BY <1>1
        <3> QED BY <1>4, <3>1
    <2> QED BY <2>1, PickNone
<1> QED BY <1>5, <1>6, <1>7, <1>8, <1>9, ConcatEmptySeq DEF q

\* Of n places, K has the c behind the first a.
IsInterval(K, n, a, c) ==
    /\ a \in Nat /\ c \in Nat /\ a + c <= n
    /\ \A i \in 1..n : i \in K <=> a < i /\ i <= a + c

LEMMA PickInterval ==
    ASSUME NEW S, NEW s \in Seq(S), NEW a, NEW c, NEW K, IsInterval(K, Len(s), a, c)
    PROVE  Len(Pick(s, K)) = c /\ \A x \in 1..c : Pick(s, K)[x] = s[a + x]
<1>0. /\ a \in Nat /\ c \in Nat /\ a + c <= Len(s)
      /\ \A i \in 1..Len(s) : i \in K <=> a < i /\ i <= a + c
    BY DEF IsInterval
<1> DEFINE n == Len(s)
           p == SubSeq(s, 1, a)
           m == SubSeq(s, a + 1, a + c)
           t == SubSeq(s, a + c + 1, n)
<1>1. n \in Nat /\ a + c \in Nat /\ a + c <= n /\ a <= a + c /\ a <= n
    BY <1>0
<1>2. /\ m \in Seq(S) /\ Len(m) = (a + c) - a
      /\ \A x \in 1..((a + c) - a) : m[x] = s[a + x]
    BY <1>0, <1>1, SliceIs
<1>3. t \in Seq(S) /\ Len(t) = n - (a + c)
    <2> DEFINE b == a + c
    <2>1. b \in Nat /\ b <= n /\ n \in Nat
        BY <1>0, <1>1
    <2> HIDE DEF b, n
    <2>2. SubSeq(s, b + 1, n) \in Seq(S) /\ Len(SubSeq(s, b + 1, n)) = n - b
        BY <2>1, SliceIs DEF n
    <2> QED BY <2>2 DEF b
<1>4. p \in Seq(S) /\ Len(p) = a
    <2> DEFINE o == 0
    <2>1. o \in Nat /\ o <= a /\ o + 1 = 1 /\ a - o = a
        BY <1>0
    <2> HIDE DEF o
    <2>2. SubSeq(s, o + 1, a) \in Seq(S) /\ Len(SubSeq(s, o + 1, a)) = a - o
        BY <1>0, <1>1, <2>1, SliceIs
    <2> QED BY <2>1, <2>2
<1>5. p \o (m \o t) = s
    <2>1. 1 \in 1..(n + 1) /\ a \in (1 - 1)..n /\ n \in a..n
        BY <1>0, <1>1
    <2>2. SubSeq(s, 1, a) \o SubSeq(s, a + 1, n) = SubSeq(s, 1, n)
        BY <2>1, ConcatAdjacentSubSeq
    <2>3. SubSeq(s, a + 1, a + c) \o SubSeq(s, a + c + 1, n) = SubSeq(s, a + 1, n)
        <3> DEFINE e == a + 1
                   b == a + c
        <3>1. e \in 1..(n + 1) /\ b \in (e - 1)..n /\ n \in b..n
            BY <1>0, <1>1
        <3> HIDE DEF e, b, n
        <3>2. SubSeq(s, e, b) \o SubSeq(s, b + 1, n) = SubSeq(s, e, n)
            BY <3>1, ConcatAdjacentSubSeq DEF n
        <3> QED BY <3>2 DEF e, b
    <2>4. SubSeq(s, 1, n) = s
        BY SubSeqFull
    <2> QED BY <2>2, <2>3, <2>4
<1> HIDE DEF p, m, t
<1>6. \A i \in 1..(Len(p) + Len(m) + Len(t)) : i \in K <=> Len(p) < i /\ i <= Len(p) + Len(m)
    <2>1. Len(p) = a /\ Len(m) = c /\ Len(t) = n - (a + c)
        BY <1>0, <1>2, <1>3, <1>4
    <2>2. Len(p) + Len(m) + Len(t) = n
        BY <1>0, <1>1, <2>1
    <2> QED BY <1>0, <2>1, <2>2
<1>7. Pick(p \o (m \o t), K) = m
    BY <1>2, <1>3, <1>4, <1>6, PickOfThree
<1>8. Pick(s, K) = m
    BY <1>5, <1>7
<1> QED BY <1>0, <1>2, <1>8

\* The steps of the group who in epoch e, and the rows trained by them.
InEpoch(who, e) ==
    Where(Steps(who), LAMBDA u : ((u.at - 1) \div Len(MiniBatchesOf(0))) + 1 = e)

Trained(inEpoch) ==
    FlattenSeq([u \in DOMAIN inEpoch |->
        ConcatParts(Dp(setting), [d \in Ranks |->
            FlattenSeq([j \in DOMAIN inEpoch[u].parts[d] |-> inEpoch[u].parts[d][j].rows])])])

\* A group has made all its steps, and each was a step on the mini-batch of its number.
AllSteps(who, k) ==
    /\ Steps(who) \in Seq(Update) /\ Len(Steps(who)) = setting.epochs * k
    /\ \A j \in 1..Len(Steps(who)) : Steps(who)[j].at = j /\ IsGradients(Steps(who)[j])

LEMMA EpochIsInTurn ==
    ASSUME setting \in Settings, NEW k \in Nat \ {0}, k = CeilDiv(Share, Mini),
           Len(MiniBatchesOf(0)) = k, NEW who, AllSteps(who, k), NEW e \in 1..setting.epochs
    PROVE  \E a : /\ InTurn(a, k)
                  /\ Len(InEpoch(who, e)) = k
                  /\ \A x \in 1..k : /\ IsGradients(InEpoch(who, e)[x])
                                     /\ InEpoch(who, e)[x].at = a[x]
<1> DEFINE S == Steps(who)
           b == (e - 1) * k
           E == setting.epochs
           K == {i \in DOMAIN S : ((S[i].at - 1) \div Len(MiniBatchesOf(0))) + 1 = e}
           a == [x \in 1..k |-> b + x]
<1>1. E \in Nat /\ e - 1 \in Nat /\ e <= E
    BY SettingIs
<1>2. /\ S \in Seq(Update) /\ Len(S) = E * k /\ Len(S) \in Nat /\ DOMAIN S = 1..Len(S)
      /\ \A j \in 1..Len(S) : S[j].at = j /\ IsGradients(S[j])
    BY DEF AllSteps
<1>3. InEpoch(who, e) = Pick(S, K)
    BY DEF InEpoch, Where
<1>4. b \in Nat /\ b + k <= Len(S)
    <2> HIDE DEF E, S
    <2>1. b \in Nat /\ b + k = e * k
        BY <1>1
    <2>2. e * k <= E * k
        BY <1>1, Multiples
    <2> QED BY <1>2, <2>1, <2>2
<1>5. ASSUME NEW i \in 1..Len(S) PROVE i \in K <=> b < i /\ i <= b + k
    <2>1. i \in K <=> ((i - 1) \div k) + 1 = e
        BY <1>2
    <2> HIDE DEF K, S
    <2> DEFINE q == (i - 1) \div k
               r == (i - 1) % k
    <2>2. i - 1 \in Nat
        BY <1>2
    <2>3. q \in Nat /\ r \in 0..(k - 1) /\ i - 1 = q * k + r
        BY <2>2, DivisionOf
    <2>4. ASSUME q + 1 = e PROVE b < i /\ i <= b + k
        <3> HIDE DEF q, r
        <3>1. q = e - 1
            BY <2>3, <2>4
        <3>2. q * k = b
            BY <3>1
        <3> HIDE DEF b
        <3> QED BY <1>4, <2>3, <3>2
    <2>5. ASSUME b < i, i <= b + k PROVE q + 1 = e
        <3> DEFINE c == i - 1 - b
                   f == e - 1
        <3>1. c \in 0..(k - 1)
            BY <1>4, <2>5
        <3>2. f \in Nat /\ i - 1 = f * k + c
            BY <1>1, <1>4
        <3> HIDE DEF c, f
        <3>3. (f * k + c) \div k = f
            BY <3>1, <3>2, DivisionIs
        <3>4. q = f
            BY <3>2, <3>3
        <3> HIDE DEF q
        <3> QED BY <3>4 DEF f
    <2> QED BY <2>1, <2>4, <2>5
<1> HIDE DEF S, K, b
<1>6. Len(Pick(S, K)) = k /\ \A x \in 1..k : Pick(S, K)[x] = S[b + x]
    <2>1. IsInterval(K, Len(S), b, k)
        BY <1>4, <1>5 DEF IsInterval
    <2> QED BY <1>2, <2>1, PickInterval
<1>7. InTurn(a, k)
    <2>1. a \in [1..k -> Nat \ {0}]
        BY <1>4
    <2>2. ASSUME NEW x \in 1..k PROVE MiniAt(a[x]) = x
        <3> DEFINE c == x - 1
                   f == e - 1
        <3>1. c \in 0..(k - 1) /\ f \in Nat
            BY <1>1
        <3>2. a[x] - 1 = f * k + c
            BY <1>4 DEF b
        <3> HIDE DEF c, f, a
        <3>3. (f * k + c) % k = c
            BY <3>1, DivisionIs
        <3>4. MiniAt(a[x]) = c + 1
            BY <3>2, <3>3 DEF MiniAt
        <3> QED BY <3>4 DEF c
    <2> QED BY <2>1, <2>2 DEF InTurn
<1>8. ASSUME NEW x \in 1..k PROVE IsGradients(Pick(S, K)[x]) /\ Pick(S, K)[x].at = a[x]
    <2>1. b + x \in 1..Len(S) /\ a[x] = b + x
        BY <1>2, <1>4
    <2> QED BY <1>2, <1>6, <2>1
<1> HIDE DEF a
<1> QED BY <1>3, <1>6, <1>7, <1>8

LEMMA EpochIsWhole ==
    ASSUME setting \in Settings, ConfigAccepted, WholeBatch, Mini # 0,
           NEW who, AllSteps(who, CeilDiv(Share, Mini)), NEW e \in 1..setting.epochs
    PROVE  /\ Len(Trained(InEpoch(who, e))) = Len(rows)
           /\ ToSet(Trained(InEpoch(who, e))) = {rows[i].resp : i \in DOMAIN rows}
<1> DEFINE k == CeilDiv(Share, Mini)
           q == InEpoch(who, e)
<1>1. k \in Nat \ {0}
    <2>1. 1 \in Nat \ {0}
        OBVIOUS
    <2> QED BY <2>1, MiniSizeIs
<1>2. Len(MiniBatchesOf(0)) = k
    <2>1. 0 \in Ranks /\ 1 \in Nat \ {0}
        BY FirstRankIs
    <2> QED BY <2>1, MiniBatchIs
<1>3. \E a : /\ InTurn(a, k) /\ Len(q) = k
             /\ \A x \in 1..k : IsGradients(q[x]) /\ q[x].at = a[x]
    <2> HIDE DEF k
    <2>1. k = CeilDiv(Share, Mini) /\ AllSteps(who, k)
        BY DEF k
    <2> QED BY <1>1, <1>2, <2>1, EpochIsInTurn
<1>4. PICK a : /\ InTurn(a, k) /\ Len(q) = k
               /\ \A x \in 1..k : IsGradients(q[x]) /\ q[x].at = a[x]
    BY <1>3
<1>5. DOMAIN q = 1..k
    <2>1. Steps(who) \in Seq(Update)
        BY DEF AllSteps
    <2>2. q \in Seq(Update)
        BY <2>1, PickType DEF InEpoch, Where
    <2> HIDE DEF q, k
    <2> QED BY <1>4, <2>2, LenProperties
<1> HIDE DEF q
<1> DEFINE parts == [x \in 1..k |-> StepRows(a[x])]
<1>6. Trained(q) = FlattenSeq(parts)
    <2>1. ASSUME NEW x \in 1..k
          PROVE  ConcatParts(Dp(setting), [d \in Ranks |->
                     FlattenSeq([j \in DOMAIN q[x].parts[d] |-> q[x].parts[d][j].rows])])
                     = StepRows(a[x])
        <3>1. q[x].parts = [d \in Ranks |-> Gradients(d, a[x])]
            BY <1>4 DEF IsGradients
        <3>2. \A d \in Ranks : q[x].parts[d] = Gradients(d, a[x])
            BY <3>1
        <3>3. [d \in Ranks |->
                  FlattenSeq([j \in DOMAIN q[x].parts[d] |-> q[x].parts[d][j].rows])]
                  = [d \in Ranks |-> RankRows(d, a[x])]
            BY <3>2 DEF RankRows
        <3> QED BY <3>3 DEF StepRows
    <2> HIDE DEF k
    <2> QED BY <1>5, <2>1 DEF Trained
<1>7. /\ FlattenSeq(parts) \in Seq(Resp) /\ Len(FlattenSeq(parts)) = Len(rows)
      /\ \A r : r \in Elems(FlattenSeq(parts)) <=> \E i \in 1..Len(rows) : r = rows[i].resp
    <2> HIDE DEF k
    <2>1. k = CeilDiv(Share, Mini) /\ InTurn(a, k)
        BY <1>4 DEF k
    <2> QED BY <2>1, EpochTrainsAll
<1> HIDE DEF parts
<1>8. ToSet(FlattenSeq(parts)) = {rows[i].resp : i \in DOMAIN rows}
    <2> DEFINE t == FlattenSeq(parts)
    <2>1. rows \in Seq(Row(Resp))
        BY DEF WholeBatch, IsPart
    <2>2. DOMAIN rows = 1..Len(rows)
        BY <2>1, LenProperties
    <2>3. t \in Seq(Resp)
        BY <1>7
    <2> HIDE DEF t
    <2>4. DOMAIN t = 1..Len(t)
        BY <2>3, LenProperties
    <2>5. ToSet(t) = Elems(t)
        BY <2>4 DEF ToSet, Elems
    <2>6. \A r : r \in Elems(t) <=> \E i \in DOMAIN rows : r = rows[i].resp
        BY <1>7, <2>2 DEF t
    <2>7. Elems(t) = {rows[i].resp : i \in DOMAIN rows}
        BY <2>6, Zenon
    <2> QED BY <2>5, <2>7 DEF t
<1> QED BY <1>6, <1>7, <1>8 DEF q

\* The steps of the group who among q.
StepsIn(q, who) == Pick(q, {i \in DOMAIN q : q[i].who = who})

LEMMA StepsAreIn ==
    ASSUME NEW who
    PROVE  Steps(who) = StepsIn(updates, who) /\ Steps(who)' = StepsIn(updates', who)
BY DEF Steps, StepsIn, Where

LEMMA StepsInAre ==
    ASSUME NEW S, NEW q \in Seq(S), NEW who
    PROVE  /\ StepsIn(q, who) \in Seq(S) /\ Len(StepsIn(q, who)) \in Nat
           /\ \A j \in 1..Len(StepsIn(q, who)) :
                  \E i \in 1..Len(q) : StepsIn(q, who)[j] = q[i] /\ q[i].who = who
           /\ \A i \in 1..Len(q) : q[i].who = who => Len(StepsIn(q, who)) # 0
<1> DEFINE K == {i \in DOMAIN q : q[i].who = who}
           t == Pick(q, K)
<1>1. t \in Seq(S)
    BY PickType
<1>2. PICK pos \in [1..Len(t) -> 1..Len(q)] : PickedFrom(pos, q, K)
    BY PickPlaces
<1>3. \A j \in 1..Len(t) : pos[j] \in K /\ t[j] = q[pos[j]]
    BY <1>2 DEF PickedFrom
<1>4. \A i \in 1..Len(q) : i \in K => \E j \in 1..Len(t) : pos[j] = i
    BY <1>2 DEF PickedFrom
<1>5. DOMAIN q = 1..Len(q)
    OBVIOUS
<1>6. t = StepsIn(q, who)
    BY DEF StepsIn
<1> HIDE DEF t
<1>7. Len(t) \in Nat
    BY <1>1
<1>8. ASSUME NEW j \in 1..Len(t) PROVE \E i \in 1..Len(q) : t[j] = q[i] /\ q[i].who = who
    BY <1>3
<1>9. ASSUME NEW i \in 1..Len(q), q[i].who = who PROVE Len(t) # 0
    <2>1. i \in K
        BY <1>5, <1>9
    <2>2. PICK j \in 1..Len(t) : pos[j] = i
        BY <1>4, <2>1
    <2> QED BY <1>7, <2>2
<1> QED BY <1>1, <1>6, <1>7, <1>8, <1>9

LEMMA NoneIn ==
    ASSUME NEW S, NEW q \in Seq(S), Len(q) = 0, NEW who
    PROVE  Len(StepsIn(q, who)) = 0
<1> DEFINE K == {i \in DOMAIN q : q[i].who = who}
           t == Pick(q, K)
<1>1. t \in Seq(S)
    BY PickType
<1>2. PICK pos \in [1..Len(t) -> 1..Len(q)] : PickedFrom(pos, q, K)
    BY PickPlaces
<1>3. StepsIn(q, who) = t
    BY DEF StepsIn
<1> HIDE DEF t
<1>4. Len(t) \in Nat
    BY <1>1
<1>5. ~(1 \in 1..Len(t))
    BY <1>2
<1> QED BY <1>3, <1>4, <1>5

LEMMA StepsInAppend ==
    ASSUME NEW S, NEW q \in Seq(S), NEW u \in S, NEW who
    PROVE  StepsIn(Append(q, u), who)
               = IF u.who = who THEN Append(StepsIn(q, who), u) ELSE StepsIn(q, who)
<1> DEFINE K == {i \in DOMAIN q : q[i].who = who}
           t == Append(q, u)
           L == {i \in DOMAIN t : t[i].who = who}
           n == Len(q)
<1>1. /\ n \in Nat /\ DOMAIN q = 1..n /\ DOMAIN t = 1..(n + 1)
      /\ t[n + 1] = u /\ \A i \in 1..n : t[i] = q[i]
    OBVIOUS
<1>2. \A i \in 1..n : i \in L <=> i \in K
    BY <1>1
<1>3. n + 1 \in L <=> u.who = who
    BY <1>1
<1> HIDE DEF K, L
<1>4. Pick(q, L) = Pick(q, K)
    BY <1>2, PickAgree
<1>5. /\ n + 1 \in L => Pick(t, L) = Append(Pick(q, L), u)
      /\ n + 1 \notin L => Pick(t, L) = Pick(q, L)
    BY PickAppend
<1> QED BY <1>3, <1>4, <1>5 DEF StepsIn, K, L

Groups == {"critic", "actor"}

\* A group counts its steps from one.
StepsInOrder == \A who \in Groups : \A j \in 1..Len(Steps(who)) : Steps(who)[j].at = j

\* A group has steps to make, or has made none or all.
Open(who) == Len(Steps(who)) = 0 \/ Len(Steps(who)) < LastUpdate
Shut(who) == Len(Steps(who)) \in {0, LastUpdate}

\* How many of its steps a group has made: the critic all before the policy begins.
EpochInv ==
    /\ StepsInOrder
    /\ pc = "update_critic" => Open("critic") /\ Len(Steps("actor")) = 0
    /\ pc = "update_actor" => Shut("critic") /\ Open("actor")
    /\ pc = "test" => Shut("critic") /\ Shut("actor")

\* A step that leaves the updates alone, or throws them away.
LEMMA EpochKept ==
    ASSUME EpochInv, UNCHANGED <<setting, rows, updates>>,
           pc' = pc \/ pc' \notin {"update_critic", "update_actor", "test"}
    PROVE  EpochInv'
<1>1. \A d : MiniBatchesOf(d)' = MiniBatchesOf(d)
    BY GradientsKept
<1>2. LastUpdate' = LastUpdate
    BY <1>1 DEF LastUpdate
<1>3. \A who : Steps(who)' = Steps(who)
    BY DEF Steps, Where
<1>4. Groups' = Groups
    BY DEF Groups
<1>5. StepsInOrder'
    BY <1>3, <1>4 DEF StepsInOrder, EpochInv
<1>6. \A who : Open(who)' = Open(who) /\ Shut(who)' = Shut(who)
    BY <1>2, <1>3 DEF Open, Shut
<1> QED BY <1>3, <1>5, <1>6 DEF EpochInv

LEMMA EpochStarts == ASSUME NEW S, updates' \in Seq(S), Len(updates') = 0 PROVE EpochInv'
<1>1. ASSUME NEW who PROVE Len(Steps(who)') = 0
    <2> DEFINE q == updates'
               t == StepsIn(q, who)
    <2>1. q \in Seq(S) /\ Len(q) = 0
        OBVIOUS
    <2> HIDE DEF q
    <2>2. Len(t) = 0
        BY <2>1, NoneIn
    <2> QED BY <2>2, StepsAreIn DEF q
<1>2. \A who : (Len(Steps(who)))' = 0
    BY <1>1
<1>3. \A who \in Groups : \A j \in 1..(Len(Steps(who)))' : Steps(who)'[j].at = j
    BY <1>2
<1>4. StepsInOrder'
    BY <1>3 DEF StepsInOrder, Groups
<1>5. Open("critic")' /\ Open("actor")' /\ Shut("critic")' /\ Shut("actor")'
    BY <1>2 DEF Open, Shut
<1> QED BY <1>2, <1>4, <1>5 DEF EpochInv

LEMMA LastUpdateIs ==
    ASSUME setting \in Settings, ConfigAccepted, WholeBatch, Mini # 0
    PROVE  /\ LastUpdate = setting.epochs * CeilDiv(Share, Mini)
           /\ LastUpdate \in Nat \ {0}
<1> DEFINE k == CeilDiv(Share, Mini)
           E == setting.epochs
<1>1. 0 \in Ranks /\ 1 \in Nat \ {0}
    BY FirstRankIs
<1>2. Len(MiniBatchesOf(0)) = k
    BY <1>1, MiniBatchIs
<1>3. k \in Nat \ {0} /\ E \in Nat \ {0}
    BY <1>1, MiniSizeIs, SettingIs
<1>4. LastUpdate = E * k
    BY <1>2 DEF LastUpdate
<1> HIDE DEF k, E
<1>5. E * k \in Nat \ {0}
    BY <1>3
<1> QED BY <1>4, <1>5 DEF k, E

\* One step more of the group who, in its turn.
LEMMA StepIsNext ==
    ASSUME PpoInv, EpochInv, NEW who \in Groups, NEW other \in Groups, other # who, NEW made,
           NextUpdate(who, made) \in Update, updates' = Append(updates, NextUpdate(who, made))
    PROVE  /\ StepsInOrder' /\ Steps(other)' = Steps(other)
           /\ (Len(Steps(who)))' = Len(Steps(who)) + 1 /\ Len(Steps(who)) \in Nat
<1> DEFINE u == NextUpdate(who, made)
           S == Steps(who)
<1>1. updates \in Seq(Update)
    BY DEF PpoInv, PpoTypes
<1>2. S \in Seq(Update) /\ Len(S) \in Nat
    BY <1>1, StepsAre
<1>3. u.who = who /\ u.at = Len(S) + 1 /\ u \in Update
    BY DEF NextUpdate, NextAt
<1>4. \A x : StepsIn(Append(updates, u), x)
                 = IF u.who = x THEN Append(StepsIn(updates, x), u) ELSE StepsIn(updates, x)
    <2> HIDE DEF u
    <2> QED BY <1>1, <1>3, StepsInAppend
<1>5. Steps(who)' = Append(S, u) /\ Steps(other)' = Steps(other)
    BY <1>3, <1>4, StepsAreIn
<1>6. \A j \in 1..Len(S) : S[j].at = j
    BY DEF EpochInv, StepsInOrder
<1>7. \A j \in 1..Len(Steps(other)) : Steps(other)[j].at = j
    BY DEF EpochInv, StepsInOrder
<1> HIDE DEF u
<1>8. /\ Len(Append(S, u)) = Len(S) + 1 /\ Append(S, u)[Len(S) + 1] = u
      /\ \A j \in 1..Len(S) : Append(S, u)[j] = S[j]
    <2> HIDE DEF S
    <2> QED BY <1>2, <1>3
<1>9. \A j \in 1..Len(Append(S, u)) : Append(S, u)[j].at = j
    <2> DEFINE t == Append(S, u)
               n == Len(S)
    <2>1. /\ n \in Nat /\ Len(t) = n + 1 /\ t[n + 1].at = n + 1
          /\ \A j \in 1..n : t[j].at = j
        BY <1>2, <1>3, <1>6, <1>8
    <2> HIDE DEF t, n
    <2>2. ASSUME NEW j \in 1..Len(t) PROVE t[j].at = j
        <3>1. j = n + 1 \/ j \in 1..n
            BY <2>1
        <3> QED BY <2>1, <3>1
    <2> QED BY <2>2 DEF t
<1>10. StepsInOrder'
    <2>1. \A j \in 1..Len(Steps(who)') : Steps(who)'[j].at = j
        BY <1>5, <1>9, Zenon
    <2>2. \A j \in 1..Len(Steps(other)') : Steps(other)'[j].at = j
        BY <1>5, <1>7, Zenon
    <2>3. Groups = {who, other} /\ Groups' = Groups
        BY DEF Groups
    <2>4. \A x \in Groups : \A j \in 1..Len(Steps(x)') : Steps(x)'[j].at = j
        BY <2>1, <2>2, <2>3, Zenon
    <2> QED BY <2>3, <2>4 DEF StepsInOrder
<1> QED BY <1>2, <1>5, <1>8, <1>10

LEMMA UpdateCounts ==
    ASSUME PpoInv, EpochInv, UpdateCritic \/ UpdateActor
    PROVE  EpochInv'
<1>1. /\ setting \in Settings /\ ConfigAccepted /\ WholeBatch /\ pc \in Working
      /\ updates \in Seq(Update)
    BY AtWork DEF UpdateCritic, UpdateActor, Working, PpoInv, PpoTypes
<1>2. PICK who \in Groups : IF who = "critic" THEN UpdateCritic ELSE UpdateActor
    BY DEF Groups
<1>3. CASE (UpdateRaises \/ StepRaises) /\ Raise /\ setting' = setting
    BY <1>3, EpochKept DEF Raise
<1>4. CASE /\ ~((UpdateRaises \/ StepRaises) /\ Raise)
           /\ \E made \in Made : updates' = Append(updates, NextUpdate(who, made))
           /\ Mini \in Nat \ {0} /\ UNCHANGED <<setting, rows>>
    <2>0. PICK made \in Made : updates' = Append(updates, NextUpdate(who, made))
        BY <1>4
    <2>1. PICK other \in Groups : other # who
        BY DEF Groups
    <2>2. NextUpdate(who, made) \in Update
        BY <1>1, <1>4, NextUpdateIs DEF Groups
    <2>3. /\ StepsInOrder' /\ Steps(other)' = Steps(other)
          /\ (Len(Steps(who)))' = Len(Steps(who)) + 1 /\ Len(Steps(who)) \in Nat
        BY <2>0, <2>1, <2>2, StepIsNext
    <2>4. LastUpdate \in Nat \ {0}
        BY <1>1, <1>4, LastUpdateIs
    <2>5. LastUpdate' = LastUpdate
        <3>1. \A d : MiniBatchesOf(d)' = MiniBatchesOf(d)
            BY <1>4, GradientsKept
        <3> QED BY <1>4, <3>1 DEF LastUpdate
    <2> DEFINE n == Len(Steps(who))
               l == LastUpdate
               o == Len(Steps(other))
    <2>6. CASE who = "critic"
        <3>1. /\ pc = "update_critic" /\ other = "actor"
              /\ pc' = IF n + 1 < l THEN "update_critic"
                       ELSE IF setting.warmup <= step THEN "update_actor" ELSE "test"
            BY <1>2, <1>4, <2>1, <2>6 DEF UpdateCritic, Go, Groups
        <3>2. (n = 0 \/ n < l) /\ o = 0
            BY <2>6, <3>1 DEF EpochInv, Open
        <3> HIDE DEF n, l, o
        <3>3. n + 1 < l \/ n + 1 = l
            BY <2>3, <2>4, <3>2 DEF n, l
        <3>4. (Len(Steps("critic")))' = n + 1 /\ (Len(Steps("actor")))' = 0 /\ LastUpdate' = l
            BY <2>3, <2>5, <2>6, <3>1, <3>2 DEF n, l, o
        <3>5. n + 1 < l => Open("critic")'
            BY <3>4 DEF Open
        <3>6. n + 1 = l => Shut("critic")'
            BY <3>4 DEF Shut
        <3>7. Open("actor")' /\ Shut("actor")'
            BY <3>4 DEF Open, Shut
        <3>8. n + 1 < l => pc' = "update_critic"
            BY <3>1
        <3>9. ~(n + 1 < l) => pc' \in {"update_actor", "test"}
            BY <3>1
        <3> QED BY <2>3, <3>3, <3>4, <3>5, <3>6, <3>7, <3>8, <3>9 DEF EpochInv
    <2>7. CASE who # "critic"
        <3>1. /\ pc = "update_actor" /\ who = "actor" /\ other = "critic"
              /\ pc' = IF n + 1 < l THEN "update_actor" ELSE "test"
            BY <1>2, <1>4, <2>1, <2>7 DEF UpdateActor, Groups
        <3>2. (n = 0 \/ n < l) /\ o \in {0, l}
            BY <3>1 DEF EpochInv, Open, Shut
        <3> HIDE DEF n, l, o
        <3>3. n + 1 < l \/ n + 1 = l
            BY <2>3, <2>4, <3>2 DEF n, l
        <3>4. (Len(Steps("actor")))' = n + 1 /\ (Len(Steps("critic")))' = o /\ LastUpdate' = l
            BY <2>3, <2>5, <3>1, <3>2 DEF n, l, o
        <3>5. n + 1 < l => Open("actor")'
            BY <3>4 DEF Open
        <3>6. n + 1 = l => Shut("actor")'
            BY <3>4 DEF Shut
        <3>7. Shut("critic")'
            BY <3>2, <3>4 DEF Shut
        <3>8. n + 1 < l => pc' = "update_actor"
            BY <3>1
        <3>9. ~(n + 1 < l) => pc' = "test"
            BY <3>1
        <3> QED BY <2>3, <3>3, <3>4, <3>5, <3>6, <3>7, <3>8, <3>9 DEF EpochInv
    <2> QED BY <2>6, <2>7
<1> QED BY <1>2, <1>3, <1>4, UpdateRows DEF Groups

LEMMA EpochNext == PpoInv /\ UpdatesAreGradients /\ EpochInv /\ [Next]_vars => EpochInv'
<1> SUFFICES ASSUME PpoInv, UpdatesAreGradients, EpochInv, [Next]_vars PROVE EpochInv'
    OBVIOUS
<1>0. updates \in Seq(Update)
    BY DEF PpoInv, PpoTypes
<1>1. CASE /\ ValidateConfig \/ InitWorkers \/ Generate \/ GenerateBaseline \/ UniteResponses
              \/ BalanceBatch \/ OldLogProb \/ RefLogProb \/ ComputeValues \/ ComputeScores
              \/ ApplyKlPenalty \/ ComputeAdvantage
    <2>1. pc \notin AfterAdvantage
        BY <1>1 DEF ValidateConfig, InitWorkers, Generate, GenerateBaseline, UniteResponses,
            BalanceBatch, OldLogProb, RefLogProb, ComputeValues, ComputeScores,
            ApplyKlPenalty, ComputeAdvantage, AfterAdvantage
    <2>2. updates' = updates
        BY <1>1 DEF ValidateConfig, InitWorkers, Generate, GenerateBaseline, UniteResponses,
            BalanceBatch, OldLogProb, RefLogProb, ComputeValues, ComputeScores,
            ApplyKlPenalty, ComputeAdvantage, Raise
    <2>3. Len(updates) = 0
        BY <2>1 DEF UpdatesAreGradients
    <2>4. updates' \in Seq(Update) /\ Len(updates') = 0
        BY <1>0, <2>2, <2>3
    <2> DEFINE S == Update
    <2>5. updates' \in Seq(S)
        BY <2>4
    <2> HIDE DEF S
    <2> QED BY <2>4, <2>5, EpochStarts
<1>2. CASE NextBatch
    <2>1. updates' = <<>>
        BY <1>2 DEF NextBatch
    <2>2. updates' \in Seq({}) /\ Len(updates') = 0
        BY <2>1
    <2> QED BY <2>2, EpochStarts
<1>3. CASE UpdateCritic \/ UpdateActor
    BY <1>3, UpdateCounts
<1>4. CASE Test \/ Validate
    <2>1. UNCHANGED <<setting, rows, updates>> /\ pc' \in {"validate", "next", "raised"}
        BY <1>4 DEF Test, Validate, Go, Raise
    <2> QED BY <2>1, EpochKept
<1>5. CASE UNCHANGED vars
    BY <1>5, EpochKept DEF vars
<1> QED BY <1>1, <1>2, <1>3, <1>4, <1>5 DEF Next, Done

LEMMA EpochInvariant == Spec => [](PpoInv /\ UpdatesAreGradients /\ EpochInv)
<1>1. Init => EpochInv
    <2> SUFFICES ASSUME Init PROVE EpochInv
        OBVIOUS
    <2> DEFINE q == updates
    <2>1. updates = <<>> /\ pc = "config"
        BY DEF Init
    <2>2. q \in Seq({}) /\ Len(q) = 0
        BY <2>1
    <2> HIDE DEF q
    <2>3. ASSUME NEW who PROVE Len(Steps(who)) = 0
        <3>1. Len(StepsIn(q, who)) = 0
            BY <2>2, NoneIn
        <3> QED BY <3>1, StepsAreIn DEF q
    <2>4. StepsInOrder
        BY <2>3 DEF StepsInOrder
    <2> QED BY <2>1, <2>4 DEF EpochInv
<1> QED BY <1>1, UpdatesInvariant, EpochNext, PTL DEF Spec

\* With mini-batches and micro-batches of whatever sizes, the last mini-batch shorter
\* or not, and responses of whatever lengths: in every ppo epoch, over its optimizer
\* steps, their ranks and micro-batches, each row of the batch is taken exactly once.
THEOREM EveryRowTrained == Spec => []TrainedOncePerEpoch
<1>1. PpoInv /\ UpdatesAreGradients /\ EpochInv => TrainedOncePerEpoch
    <2> SUFFICES ASSUME PpoInv, UpdatesAreGradients, EpochInv, pc = "test",
                        NEW who \in {updates[u].who : u \in DOMAIN updates},
                        NEW e \in 1..setting.epochs
                 PROVE  /\ Len(Trained(InEpoch(who, e))) = Len(rows)
                        /\ ToSet(Trained(InEpoch(who, e))) = {rows[i].resp : i \in DOMAIN rows}
        BY Zenon DEF TrainedOncePerEpoch, Trained, InEpoch
    <2>1. updates \in Seq(Update) /\ DOMAIN updates = 1..Len(updates)
        BY DEF PpoInv, PpoTypes
    <2>2. PICK u \in 1..Len(updates) : updates[u].who = who
        BY <2>1
    <2>3. /\ setting \in Settings /\ ConfigAccepted /\ WholeBatch /\ Mini \in Nat \ {0}
          /\ \A i \in 1..Len(updates) : IsGradients(updates[i])
        BY <2>1, <2>2, UpdatesAre
    <2>4. who \in Groups
        <3>1. updates[u] \in Update
            BY <2>1
        <3> QED BY <2>2, <3>1 DEF Update, Groups
    <2> DEFINE S == Steps(who)
    <2>5. /\ S \in Seq(Update) /\ Len(S) # 0
          /\ \A j \in 1..Len(S) : \E i \in 1..Len(updates) : S[j] = updates[i]
        <3>1. S = StepsIn(updates, who)
            BY StepsAreIn
        <3> HIDE DEF S
        <3> QED BY <2>1, <2>2, <3>1, StepsInAre
    <2>6. Len(S) = LastUpdate
        BY <2>4, <2>5 DEF EpochInv, Shut, Groups
    <2>7. Len(S) = setting.epochs * CeilDiv(Share, Mini)
        BY <2>3, <2>6, LastUpdateIs
    <2>8. \A j \in 1..Len(S) : S[j].at = j
        BY <2>4 DEF EpochInv, StepsInOrder
    <2>9. \A j \in 1..Len(S) : IsGradients(S[j])
        BY <2>3, <2>5
    <2>10. AllSteps(who, CeilDiv(Share, Mini))
        BY <2>5, <2>7, <2>8, <2>9 DEF AllSteps
    <2> QED BY <2>3, <2>10, EpochIsWhole
<1> QED BY <1>1, EpochInvariant, PTL
===============================================================================
