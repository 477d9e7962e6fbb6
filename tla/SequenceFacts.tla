---------------------------- MODULE SequenceFacts ----------------------------
EXTENDS ListOps, SequencesExt, WellFoundedInduction, SequenceTheorems, TLAPS

Less == {p \in Nat \X Nat : p[1] < p[2]}
LEMMA LessIsWellFounded == IsWellFoundedOn(Less, Nat)
BY NatLessThanWellFounded, Zenon DEF OpToRel, Less

LEMMA LeastNumber ==
    ASSUME NEW T \in SUBSET Nat, T # {}
    PROVE  \E m \in T : \A k \in T : m <= k
<1>1. PICK m \in T : \A k \in T : ~(<<k, m>> \in Less)
    BY WFMin, LessIsWellFounded, Zenon
<1>2. m \in Nat /\ \A k \in T : k \in Nat
    OBVIOUS
<1>3. \A k \in T : ~(k < m)
    BY <1>1, <1>2 DEF Less
<1> QED BY <1>2, <1>3

LEMMA InductionOnNat ==
    ASSUME NEW T, 0 \in T, \A n \in Nat : n \in T => n + 1 \in T
    PROVE  \A n \in Nat : n \in T
<1> SUFFICES ASSUME NEW n \in Nat, n \notin T PROVE FALSE
    OBVIOUS
<1>1. Nat \ T # {} /\ Nat \ T \in SUBSET Nat
    OBVIOUS
<1>2. PICK m \in Nat \ T : \A k \in Nat \ T : m <= k
    BY <1>1, LeastNumber, Zenon
<1>3. m # 0 /\ m \in Nat
    BY <1>2
<1>4. m - 1 \in Nat /\ (m - 1) + 1 = m /\ ~(m <= m - 1)
    BY <1>3
<1>5. m - 1 \in T
    BY <1>2, <1>4
<1> QED BY <1>2, <1>4, <1>5

LEMMA InductionOnSeq ==
    ASSUME NEW S, NEW T, <<>> \in T, \A s \in Seq(S), e \in S : s \in T => Append(s, e) \in T
    PROVE  \A s \in Seq(S) : s \in T
<1> DEFINE N == {n \in Nat : \A s \in Seq(S) : Len(s) = n => s \in T}
<1>1. 0 \in N
    <2>1. \A s \in Seq(S) : Len(s) = 0 => s = <<>>
        OBVIOUS
    <2> QED BY <2>1
<1>2. ASSUME NEW n \in Nat, n \in N PROVE n + 1 \in N
    <2> SUFFICES ASSUME NEW s \in Seq(S), Len(s) = n + 1 PROVE s \in T
        OBVIOUS
    <2>1. s # <<>>
        OBVIOUS
    <2>2. PICK t \in Seq(S), e \in S : s = Append(t, e)
        BY <2>1, SequenceEmptyOrAppend, Zenon
    <2>3. Len(t) = n
        BY <2>2
    <2> QED BY <1>2, <2>2, <2>3
<1> HIDE DEF N
<1>3. \A n \in Nat : n \in N
    BY <1>1, <1>2, InductionOnNat
<1>4. \A s \in Seq(S) : Len(s) \in Nat
    OBVIOUS
<1> QED BY <1>3, <1>4 DEF N

\* f unfolds the recursion from b by g up to m.
Unfolds(f, m, b, g) == f[0] = b /\ \A i \in 1..m : f[i] = g[<<i, f[i - 1]>>]

LEMMA UnfoldingExists == 
    ASSUME NEW n \in Nat, NEW V, NEW b \in V, NEW g \in [(1..n) \X V -> V]
    PROVE  \E f \in [0..n -> V] : Unfolds(f, n, b, g)
<1> DEFINE T == {m \in Nat : m <= n => \E f \in [0..m -> V] : Unfolds(f, m, b, g)}
<1>1. 0 \in T
    <2>1. [i \in 0..0 |-> b] \in [0..0 -> V] /\ Unfolds([i \in 0..0 |-> b], 0, b, g)
        BY DEF Unfolds
    <2> QED BY <2>1
<1>2. ASSUME NEW m \in Nat, m \in T PROVE m + 1 \in T
    <2> SUFFICES ASSUME m + 1 <= n PROVE \E h \in [0..(m + 1) -> V] : Unfolds(h, m + 1, b, g)
        OBVIOUS
    <2>1. PICK f \in [0..m -> V] : Unfolds(f, m, b, g)
        BY <1>2
    <2> DEFINE h == [i \in 0..(m + 1) |-> IF i = m + 1 THEN g[<<m + 1, f[m]>>] ELSE f[i]]
    <2>2. m + 1 \in 1..n /\ f[m] \in V
        OBVIOUS
    <2>3. h \in [0..(m + 1) -> V]
        BY <2>2
    <2>4. h[0] = b
        BY <2>1 DEF Unfolds
    <2>5. ASSUME NEW i \in 1..(m + 1) PROVE h[i] = g[<<i, h[i - 1]>>]
        <3>1. h[i - 1] = f[i - 1]
            OBVIOUS
        <3>2. CASE i = m + 1
            <4>1. h[i] = g[<<m + 1, f[m]>>] /\ i - 1 = m
                BY <3>2
            <4> HIDE DEF h
            <4> QED BY <3>1, <3>2, <4>1
        <3>3. CASE i # m + 1
            <4>1. i \in 1..m
                BY <3>3
            <4>2. h[i] = f[i]
                BY <4>1
            <4> HIDE DEF h
            <4> QED BY <2>1, <3>1, <4>1, <4>2 DEF Unfolds
        <3> QED BY <3>2, <3>3
    <2> HIDE DEF h
    <2> QED BY <2>3, <2>4, <2>5 DEF Unfolds
<1>3. n \in T
    <2> HIDE DEF T
    <2> QED BY <1>1, <1>2, InductionOnNat
<1> QED BY <1>3

\* f collects, up to i, what is picked of s.
Picks(f, s, K) ==
    /\ f[0] = <<>>
    /\ \A i \in 1..Len(s) : f[i] = IF i \in K THEN Append(f[i - 1], s[i]) ELSE f[i - 1]

LEMMA PickUnfolds ==
    ASSUME NEW S, NEW s \in Seq(S), NEW K
    PROVE  \E f \in [0..Len(s) -> Seq(S)] : Picks(f, s, K) /\ Pick(s, K) = f[Len(s)]
<1> DEFINE Body(f, i) == IF i = 0 THEN <<>>
                         ELSE IF i \in K THEN Append(f[i - 1], s[i]) ELSE f[i - 1]
           P(f) == f = [i \in 0..Len(s) |-> Body(f, i)]
           g == [p \in (1..Len(s)) \X Seq(S) |-> IF p[1] \in K THEN Append(p[2], s[p[1]]) ELSE p[2]]
           F == CHOOSE f : P(f)
<1>1. g \in [(1..Len(s)) \X Seq(S) -> Seq(S)]
    OBVIOUS
<1>2. PICK f \in [0..Len(s) -> Seq(S)] : Unfolds(f, Len(s), <<>>, g)
    <2>1. Len(s) \in Nat /\ <<>> \in Seq(S)
        OBVIOUS
    <2> HIDE DEF g
    <2> QED BY <1>1, <2>1, UnfoldingExists
<1>3. P(f)
    <2>1. ASSUME NEW i \in 0..Len(s) PROVE f[i] = Body(f, i)
        <3>1. CASE i = 0
            BY <3>1, <1>2 DEF Unfolds
        <3>2. CASE i # 0
            <4>1. i \in 1..Len(s) /\ f[i - 1] \in Seq(S)
                BY <3>2
            <4>2. f[i] = g[<<i, f[i - 1]>>]
                BY <1>2, <4>1 DEF Unfolds
            <4> QED BY <3>2, <4>1, <4>2
        <3> QED BY <3>1, <3>2
    <2>2. f = [i \in 0..Len(s) |-> f[i]]
        OBVIOUS
    <2> HIDE DEF Body
    <2> QED BY <2>1, <2>2
<1>4. P(F)
    <2> HIDE DEF P
    <2> QED BY <1>3
<1>5. Pick(s, K) = F[Len(s)]
    BY DEF Pick
<1>6. F[0] = <<>> /\ \A i \in 1..Len(s) : F[i] = IF i \in K THEN Append(F[i - 1], s[i]) ELSE F[i - 1]
    <2> HIDE DEF F
    <2>1. \A i \in 0..Len(s) : F[i] = Body(F, i)
        <3> HIDE DEF Body
        <3> QED BY <1>4
    <2>2. 0 \in 0..Len(s) /\ \A i \in 1..Len(s) : i \in 0..Len(s) /\ i # 0
        OBVIOUS
    <2> QED BY <2>1, <2>2, Zenon
<1>7. F \in [0..Len(s) -> Seq(S)]
    <2> DEFINE T == {m \in Nat : m <= Len(s) => F[m] \in Seq(S)}
    <2> HIDE DEF F
    <2>1. 0 \in T
        BY <1>6, EmptySeq
    <2>2. ASSUME NEW m \in Nat, m \in T PROVE m + 1 \in T
        <3> SUFFICES ASSUME m + 1 <= Len(s) PROVE F[m + 1] \in Seq(S)
            OBVIOUS
        <3>1. F[m] \in Seq(S) /\ m + 1 \in 1..Len(s) /\ s[m + 1] \in S /\ (m + 1) - 1 = m
            BY <2>2
        <3>2. F[m + 1] = IF m + 1 \in K THEN Append(F[m], s[m + 1]) ELSE F[m]
            BY <1>6, <3>1
        <3> QED BY <3>1, <3>2, AppendProperties
    <2>3. \A m \in Nat : m \in T
        <3> HIDE DEF T
        <3> QED BY <2>1, <2>2, InductionOnNat
    <2> HIDE DEF F, Body
    <2> QED BY <1>4, <2>3
<1> HIDE DEF F
<1> QED BY <1>5, <1>6, <1>7 DEF Picks

-------------------------------------------------------------------------------
(* Pick                                                                        *)

LEMMA PickType ==
    ASSUME NEW S, NEW s \in Seq(S), NEW K
    PROVE  Pick(s, K) \in Seq(S)
<1>1. PICK f \in [0..Len(s) -> Seq(S)] : Pick(s, K) = f[Len(s)]
    BY PickUnfolds, Zenon
<1>2. Len(s) \in 0..Len(s)
    OBVIOUS
<1> QED BY <1>1, <1>2

LEMMA PickEmpty == ASSUME NEW K PROVE Pick(<<>>, K) = <<>>
<1>1. <<>> \in Seq({}) /\ Len(<<>>) = 0
    OBVIOUS
<1>2. PICK f \in [0..Len(<<>>) -> Seq({})] : Picks(f, <<>>, K) /\ Pick(<<>>, K) = f[Len(<<>>)]
    BY <1>1, PickUnfolds, Zenon
<1> QED BY <1>1, <1>2 DEF Picks

\* The last element is picked last, or not at all.
LEMMA PickAppend ==
    ASSUME NEW S, NEW s \in Seq(S), NEW e \in S, NEW K
    PROVE  /\ Len(s) + 1 \in K => Pick(Append(s, e), K) = Append(Pick(s, K), e)
           /\ Len(s) + 1 \notin K => Pick(Append(s, e), K) = Pick(s, K)
<1> DEFINE n == Len(s)
           t == Append(s, e)
<1>1. /\ t \in Seq(S) /\ Len(t) = n + 1 /\ n \in Nat
      /\ \A i \in 1..n : t[i] = s[i]
      /\ t[n + 1] = e
    OBVIOUS
<1> HIDE DEF t
<1>2. PICK f \in [0..n -> Seq(S)] : Picks(f, s, K) /\ Pick(s, K) = f[n]
    BY PickUnfolds, Zenon
<1>3. PICK h \in [0..(n + 1) -> Seq(S)] : Picks(h, t, K) /\ Pick(t, K) = h[n + 1]
    <2>1. PICK h \in [0..Len(t) -> Seq(S)] : Picks(h, t, K) /\ Pick(t, K) = h[Len(t)]
        BY <1>1, PickUnfolds, Zenon
    <2> QED BY <1>1, <2>1
<1>4. \A i \in Nat : i <= n => h[i] = f[i]
    <2> DEFINE T == {i \in Nat : i <= n => h[i] = f[i]}
    <2>1. 0 \in T
        BY <1>2, <1>3 DEF Picks
    <2>2. ASSUME NEW i \in Nat, i \in T PROVE i + 1 \in T
        <3> SUFFICES ASSUME i + 1 <= n PROVE h[i + 1] = f[i + 1]
            OBVIOUS
        <3>1. i + 1 \in 1..n /\ i + 1 \in 1..(n + 1) /\ (i + 1) - 1 = i /\ h[i] = f[i]
            BY <2>2
        <3>2. t[i + 1] = s[i + 1]
            BY <1>1, <3>1
        <3>3. f[i + 1] = IF i + 1 \in K THEN Append(f[i], s[i + 1]) ELSE f[i]
            BY <1>2, <3>1 DEF Picks
        <3>4. h[i + 1] = IF i + 1 \in K THEN Append(h[i], t[i + 1]) ELSE h[i]
            BY <1>1, <1>3, <3>1 DEF Picks
        <3> QED BY <3>1, <3>2, <3>3, <3>4
    <2> HIDE DEF T
    <2>3. \A i \in Nat : i \in T
        BY <2>1, <2>2, InductionOnNat
    <2> QED BY <2>3 DEF T
<1>5. n + 1 \in 1..(n + 1) /\ (n + 1) - 1 = n /\ h[n] = f[n]
    BY <1>1, <1>4
<1>6. h[n + 1] = IF n + 1 \in K THEN Append(h[n], t[n + 1]) ELSE h[n]
    BY <1>1, <1>3, <1>5 DEF Picks
<1> QED BY <1>1, <1>2, <1>3, <1>5, <1>6 DEF t

\* Elements of s outside its domain do not matter.
LEMMA PickAgree ==
    ASSUME NEW S, NEW s \in Seq(S), NEW K, NEW L, \A i \in 1..Len(s) : i \in K <=> i \in L
    PROVE  Pick(s, K) = Pick(s, L)
<1> DEFINE T == {t \in Seq(S) :
                     (\A i \in 1..Len(t) : i \in K <=> i \in L) => Pick(t, K) = Pick(t, L)}
<1>1. <<>> \in T
    BY PickEmpty
<1>2. ASSUME NEW t \in Seq(S), NEW e \in S, t \in T PROVE Append(t, e) \in T
    <2> SUFFICES ASSUME \A i \in 1..Len(Append(t, e)) : i \in K <=> i \in L
                 PROVE  Pick(Append(t, e), K) = Pick(Append(t, e), L)
        OBVIOUS
    <2>1. /\ \A i \in 1..Len(t) : i \in K <=> i \in L
          /\ Len(t) + 1 \in K <=> Len(t) + 1 \in L
        <3>1. Len(Append(t, e)) = Len(t) + 1 /\ Len(t) \in Nat
            OBVIOUS
        <3> QED BY <3>1
    <2>2. Pick(t, K) = Pick(t, L)
        BY <1>2, <2>1
    <2>3. /\ Len(t) + 1 \in K => Pick(Append(t, e), K) = Append(Pick(t, K), e)
          /\ Len(t) + 1 \notin K => Pick(Append(t, e), K) = Pick(t, K)
          /\ Len(t) + 1 \in L => Pick(Append(t, e), L) = Append(Pick(t, L), e)
          /\ Len(t) + 1 \notin L => Pick(Append(t, e), L) = Pick(t, L)
        BY PickAppend, Zenon
    <2> QED BY <2>1, <2>2, <2>3
<1> HIDE DEF T
<1>3. s \in T
    BY <1>1, <1>2, InductionOnSeq
<1> QED BY <1>3 DEF T

\* pos[j] is the place in s of the j-th element picked.
PickedFrom(pos, s, K) ==
    /\ \A j \in 1..Len(Pick(s, K)) : pos[j] \in K /\ Pick(s, K)[j] = s[pos[j]]
    /\ \A i, j \in 1..Len(Pick(s, K)) : i < j => pos[i] < pos[j]
    /\ \A i \in 1..Len(s) : i \in K => \E j \in 1..Len(Pick(s, K)) : pos[j] = i

\* The elements at the places of K, all of them, each once and in their order.
LEMMA PickPlaces ==
    ASSUME NEW S, NEW s \in Seq(S), NEW K
    PROVE  \E pos \in [1..Len(Pick(s, K)) -> 1..Len(s)] : PickedFrom(pos, s, K)
<1> DEFINE T == {t \in Seq(S) : \E pos \in [1..Len(Pick(t, K)) -> 1..Len(t)] : PickedFrom(pos, t, K)}
<1>1. <<>> \in T
    <2>1. [j \in 1..0 |-> 0] \in [1..0 -> 1..0] /\ PickedFrom([j \in 1..0 |-> 0], <<>>, K)
        BY PickEmpty DEF PickedFrom
    <2>2. <<>> \in Seq(S) /\ Len(<<>>) = 0 /\ Len(Pick(<<>>, K)) = 0
        BY PickEmpty
    <2> QED BY <2>1, <2>2
<1>2. ASSUME NEW t \in Seq(S), NEW e \in S, t \in T PROVE Append(t, e) \in T
    <2> DEFINE u == Append(t, e)
               n == Len(t)
               p == Pick(t, K)
               q == Pick(u, K)
               m == Len(p)
    <2>1. /\ u \in Seq(S) /\ Len(u) = n + 1 /\ n \in Nat /\ u[n + 1] = e
          /\ \A i \in 1..n : u[i] = t[i]
        OBVIOUS
    <2>2. p \in Seq(S) /\ m \in Nat
        <3>1. p \in Seq(S)
            BY PickType
        <3> HIDE DEF p
        <3> QED BY <3>1
    <2>3. /\ n + 1 \in K => q = Append(p, e)
          /\ n + 1 \notin K => q = p
        BY PickAppend, Zenon
    <2>4. PICK pos \in [1..m -> 1..n] : PickedFrom(pos, t, K)
        BY <1>2
    <2>5. /\ \A j \in 1..m : pos[j] \in K /\ p[j] = t[pos[j]]
          /\ \A i, j \in 1..m : i < j => pos[i] < pos[j]
          /\ \A i \in 1..n : i \in K => \E j \in 1..m : pos[j] = i
        BY <2>4 DEF PickedFrom
    <2> HIDE DEF u, p, q
    <2>6. CASE n + 1 \in K
        <3> DEFINE pos2 == [j \in 1..(m + 1) |-> IF j = m + 1 THEN n + 1 ELSE pos[j]]
        <3>1. /\ q = Append(p, e) /\ Len(q) = m + 1 /\ q[m + 1] = e
              /\ \A j \in 1..m : q[j] = p[j]
            BY <2>2, <2>3, <2>6
        <3>2. pos2 \in [1..(m + 1) -> 1..(n + 1)]
            BY <2>1, <2>2
        <3>3. /\ pos2[m + 1] = n + 1
              /\ \A j \in 1..m : pos2[j] = pos[j] /\ pos[j] \in 1..n /\ j \in 1..(m + 1)
              /\ \A j \in 1..(m + 1) : j = m + 1 \/ j \in 1..m
              /\ m + 1 \in 1..(m + 1)
            <4>1. m \in Nat
                BY <2>2
            <4> HIDE DEF m
            <4> QED BY <4>1
        <3> HIDE DEF pos2
        <3>4. \A j \in 1..(m + 1) : pos2[j] \in K /\ q[j] = u[pos2[j]]
            BY <2>1, <2>5, <2>6, <3>1, <3>3
        <3>5. ASSUME NEW i \in 1..(m + 1), NEW j \in 1..(m + 1), i < j PROVE pos2[i] < pos2[j]
            <4>1. i \in 1..m
                BY <3>5, <2>2
            <4>2. CASE j \in 1..m
                BY <2>5, <3>3, <3>5, <4>1, <4>2
            <4>3. CASE j = m + 1
                BY <2>1, <3>3, <4>1, <4>3
            <4> QED BY <3>3, <4>2, <4>3
        <3>6. ASSUME NEW i \in 1..(n + 1), i \in K PROVE \E j \in 1..(m + 1) : pos2[j] = i
            <4>1. CASE i = n + 1
                BY <3>3, <4>1
            <4>2. CASE i # n + 1
                <5>1. i \in 1..n
                    BY <2>1, <4>2
                <5>2. PICK j \in 1..m : pos[j] = i
                    BY <2>5, <3>6, <5>1
                <5> QED BY <3>3, <5>2
            <4> QED BY <4>1, <4>2
        <3>7. PickedFrom(pos2, u, K)
            BY <2>1, <3>1, <3>4, <3>5, <3>6 DEF PickedFrom, q
        <3> QED BY <2>1, <3>1, <3>2, <3>7 DEF u, q
    <2>7. CASE n + 1 \notin K
        <3>1. q = p /\ Len(q) = m
            BY <2>3, <2>7
        <3>2. pos \in [1..m -> 1..(n + 1)]
            BY <2>1
        <3>3. \A j \in 1..m : pos[j] \in K /\ q[j] = u[pos[j]]
            BY <2>1, <2>5, <3>1
        <3>4. \A i \in 1..(n + 1) : i \in K => \E j \in 1..m : pos[j] = i
            <4>1. \A i \in 1..(n + 1) : i \in 1..n \/ i = n + 1
                BY <2>1
            <4> QED BY <2>5, <2>7, <4>1
        <3>5. PickedFrom(pos, u, K)
            BY <2>1, <2>5, <3>1, <3>3, <3>4 DEF PickedFrom, q
        <3> QED BY <2>1, <3>1, <3>2, <3>5 DEF u, q
    <2> QED BY <2>6, <2>7 DEF u
<1> HIDE DEF T
<1>3. s \in T
    BY <1>1, <1>2, InductionOnSeq
<1> QED BY <1>3 DEF T

-------------------------------------------------------------------------------
(* FlattenSeq                                                                  *)

\* f joins the first i sequences of ss.
Joins(f, ss) == f[0] = <<>> /\ \A i \in 1..Len(ss) : f[i] = f[i - 1] \o ss[i]

LEMMA FlattenUnfolds ==
    ASSUME NEW S, NEW ss \in Seq(Seq(S))
    PROVE  \E f \in [0..Len(ss) -> Seq(S)] : Joins(f, ss) /\ FlattenSeq(ss) = f[Len(ss)]
<1>1. CASE Len(ss) = 0
    <2>1. ss = <<>> /\ FlattenSeq(ss) = <<>>
        BY <1>1 DEF FlattenSeq
    <2> DEFINE f == [i \in 0..0 |-> <<>>]
    <2>2. f \in [0..0 -> Seq(S)] /\ f[0] = <<>>
        OBVIOUS
    <2> HIDE DEF f
    <2>3. Joins(f, ss)
        BY <1>1, <2>2 DEF Joins
    <2> QED BY <1>1, <2>1, <2>2, <2>3
<1>2. CASE Len(ss) # 0
    <2> DEFINE n == Len(ss)
               Body(f, i) == IF i = 1 THEN ss[i] ELSE f[i - 1] \o ss[i]
               P(f) == f = [i \in 1..n |-> Body(f, i)]
               g == [p \in (1..n) \X Seq(S) |-> p[2] \o ss[p[1]]]
               F == CHOOSE f : P(f)
    <2>1. n \in Nat /\ n # 0 /\ \A i \in 1..n : ss[i] \in Seq(S)
        BY <1>2
    <2>2. FlattenSeq(ss) = F[n]
        BY <1>2 DEF FlattenSeq
    <2> HIDE DEF n, F
    <2>3. g \in [(1..n) \X Seq(S) -> Seq(S)]
        BY <2>1
    <2>4. PICK f \in [0..n -> Seq(S)] : Unfolds(f, n, <<>>, g)
        <3>1. <<>> \in Seq(S)
            OBVIOUS
        <3> HIDE DEF g
        <3> QED BY <2>1, <2>3, <3>1, UnfoldingExists
    <2>5. f[0] = <<>> /\ \A i \in 1..n : f[i] = (f[i - 1] \o ss[i]) /\ f[i - 1] \in Seq(S)
        <3>1. \A i \in 1..n : f[i - 1] \in Seq(S) /\ i \in 1..n
            BY <2>1
        <3>2. f[0] = <<>> /\ \A i \in 1..n : f[i] = g[<<i, f[i - 1]>>]
            BY <2>4 DEF Unfolds
        <3> QED BY <3>1, <3>2
    <2> DEFINE h == [i \in 1..n |-> f[i]]
    <2>6. P(h)
        <3>1. ASSUME NEW i \in 1..n PROVE h[i] = Body(h, i)
            <4>1. CASE i = 1
                <5>1. ss[1] \in Seq(S) /\ <<>> \o ss[1] = ss[1] /\ 1 \in 1..n /\ 1 - 1 = 0
                    BY <2>1, ConcatEmptySeq
                <5>2. f[1] = ss[1]
                    BY <2>5, <5>1
                <5> QED BY <4>1, <5>2
            <4>2. CASE i # 1
                <5>1. i - 1 \in 1..n
                    BY <2>1, <4>2
                <5> QED BY <2>5, <4>2, <5>1
            <4> QED BY <4>1, <4>2
        <3> HIDE DEF Body
        <3> QED BY <3>1
    <2>7. P(F)
        <3> HIDE DEF P
        <3> QED BY <2>6 DEF F
    <2>8. \A i \in Nat : i \in 1..n => F[i] = f[i]
        <3> DEFINE T == {i \in Nat : i \in 1..n => F[i] = f[i]}
        <3>1. 0 \in T
            OBVIOUS
        <3>2. ASSUME NEW i \in Nat, i \in T PROVE i + 1 \in T
            <4> SUFFICES ASSUME i + 1 \in 1..n PROVE F[i + 1] = f[i + 1]
                OBVIOUS
            <4>1. F[i + 1] = Body(F, i + 1)
                <5> HIDE DEF Body
                <5> QED BY <2>7
            <4>2. (i + 1) - 1 = i /\ f[i + 1] = (f[i] \o ss[i + 1])
                <5>1. (i + 1) - 1 = i
                    OBVIOUS
                <5> QED BY <2>5, <5>1
            <4>3. CASE i = 0
                <5>1. ss[1] \in Seq(S) /\ <<>> \o ss[1] = ss[1] /\ i + 1 = 1
                    BY <2>1, <4>3, ConcatEmptySeq
                <5>2. F[i + 1] = ss[i + 1]
                    BY <4>1, <5>1
                <5> QED BY <2>5, <4>2, <4>3, <5>1, <5>2
            <4>4. CASE i # 0
                <5>1. i \in 1..n /\ i + 1 # 1
                    BY <2>1, <4>4
                <5> QED BY <3>2, <4>1, <4>2, <5>1
            <4> QED BY <4>3, <4>4
        <3> HIDE DEF T
        <3>3. \A i \in Nat : i \in T
            BY <3>1, <3>2, InductionOnNat
        <3> QED BY <3>3 DEF T
    <2>9. F[n] = f[n]
        BY <2>1, <2>8
    <2> QED BY <2>2, <2>5, <2>9 DEF n, Joins
<1> QED BY <1>1, <1>2

LEMMA FlattenType ==
    ASSUME NEW S, NEW ss \in Seq(Seq(S))
    PROVE  FlattenSeq(ss) \in Seq(S)
<1>1. PICK f \in [0..Len(ss) -> Seq(S)] : FlattenSeq(ss) = f[Len(ss)]
    BY FlattenUnfolds, Zenon
<1>2. Len(ss) \in 0..Len(ss)
    OBVIOUS
<1> QED BY <1>1, <1>2

LEMMA FlattenEmpty == FlattenSeq(<<>>) = <<>>
BY DEF FlattenSeq

LEMMA FlattenAppend ==
    ASSUME NEW S, NEW ss \in Seq(Seq(S)), NEW s \in Seq(S)
    PROVE  FlattenSeq(Append(ss, s)) = FlattenSeq(ss) \o s
<1> DEFINE n == Len(ss)
           tt == Append(ss, s)
<1>1. /\ tt \in Seq(Seq(S)) /\ Len(tt) = n + 1 /\ n \in Nat
      /\ \A i \in 1..n : tt[i] = ss[i]
      /\ tt[n + 1] = s
    OBVIOUS
<1> HIDE DEF tt
<1>2. PICK f \in [0..n -> Seq(S)] : Joins(f, ss) /\ FlattenSeq(ss) = f[n]
    BY FlattenUnfolds, Zenon
<1>3. PICK h \in [0..(n + 1) -> Seq(S)] : Joins(h, tt) /\ FlattenSeq(tt) = h[n + 1]
    <2>1. PICK h \in [0..Len(tt) -> Seq(S)] : Joins(h, tt) /\ FlattenSeq(tt) = h[Len(tt)]
        BY <1>1, FlattenUnfolds, Zenon
    <2> QED BY <1>1, <2>1
<1>4. \A i \in Nat : i <= n => h[i] = f[i]
    <2> DEFINE T == {i \in Nat : i <= n => h[i] = f[i]}
    <2>1. 0 \in T
        BY <1>2, <1>3 DEF Joins
    <2>2. ASSUME NEW i \in Nat, i \in T PROVE i + 1 \in T
        <3> SUFFICES ASSUME i + 1 <= n PROVE h[i + 1] = f[i + 1]
            OBVIOUS
        <3>1. i + 1 \in 1..n /\ i + 1 \in 1..(n + 1) /\ (i + 1) - 1 = i /\ h[i] = f[i]
            BY <2>2
        <3>2. f[i + 1] = f[i] \o ss[i + 1]
            BY <1>2, <3>1 DEF Joins
        <3>3. h[i + 1] = h[i] \o tt[i + 1]
            BY <1>1, <1>3, <3>1 DEF Joins
        <3> QED BY <1>1, <3>1, <3>2, <3>3
    <2> HIDE DEF T
    <2>3. \A i \in Nat : i \in T
        BY <2>1, <2>2, InductionOnNat
    <2> QED BY <2>3 DEF T
<1>5. n + 1 \in 1..(n + 1) /\ (n + 1) - 1 = n /\ h[n] = f[n]
    BY <1>1, <1>4
<1>6. h[n + 1] = h[n] \o tt[n + 1]
    BY <1>1, <1>3, <1>5 DEF Joins
<1> QED BY <1>1, <1>2, <1>3, <1>5, <1>6 DEF tt

-------------------------------------------------------------------------------
(* Folds over the places of a sequence                                         *)

LEMMA MaxIsLargest ==
    ASSUME NEW n \in Nat, NEW s \in SUBSET (1..n), s # {}
    PROVE  Max(s) \in s /\ \A x \in s : x <= Max(s)
<1> DEFINE Has(m) == \A t \in SUBSET (1..m) : t # {} => \E x \in t : \A y \in t : x >= y
           T == {m \in Nat : Has(m)}
<1>1. Has(0)
    <2>1. 1..0 = {}
        OBVIOUS
    <2> QED BY <2>1
<1>2. ASSUME NEW m \in Nat, Has(m) PROVE Has(m + 1)
    <2> SUFFICES ASSUME NEW t \in SUBSET (1..(m + 1)), t # {}
                 PROVE  \E x \in t : \A y \in t : x >= y
        OBVIOUS
    <2>1. CASE m + 1 \in t
        BY <2>1
    <2>2. CASE m + 1 \notin t
        <3>1. t \in SUBSET (1..m)
            BY <2>2
        <3> QED BY <1>2, <3>1
    <2> QED BY <2>1, <2>2
<1> HIDE DEF Has
<1>3. 0 \in T /\ \A m \in Nat : m \in T => m + 1 \in T
    BY <1>1, <1>2
<1> HIDE DEF T
<1>4. \E x \in s : \A y \in s : x >= y
    <2>1. n \in T
        BY <1>3, InductionOnNat
    <2> QED BY <2>1 DEF T, Has
<1>5. Max(s) \in s /\ \A y \in s : Max(s) >= y
    BY <1>4 DEF Max
<1>6. \A y \in s : y \in Nat
    OBVIOUS
<1> QED BY <1>5, <1>6

\* it folds g over every set of places, the largest place last.
FoldsSets(it, n, b, g) ==
    /\ it[{}] = b
    /\ \A s \in SUBSET (1..n) : s # {} => it[s] = g[<<Max(s), it[s \ {Max(s)}]>>]

LEMMA SetFoldExists ==
    ASSUME NEW n \in Nat, NEW V, NEW b \in V, NEW g \in [(1..n) \X V -> V]
    PROVE  \E it \in [SUBSET (1..n) -> V] : FoldsSets(it, n, b, g)
<1> DEFINE Has(m) == m <= n => \E it \in [SUBSET (1..m) -> V] : FoldsSets(it, m, b, g)
           T == {m \in Nat : Has(m)}
<1>1. Has(0)
    <2>1. 1..0 = {}
        OBVIOUS
    <2>2. [s \in SUBSET (1..0) |-> b] \in [SUBSET (1..0) -> V]
        OBVIOUS
    <2>3. FoldsSets([s \in SUBSET (1..0) |-> b], 0, b, g)
        BY <2>1 DEF FoldsSets
    <2> QED BY <2>2, <2>3
<1>2. ASSUME NEW m \in Nat, Has(m) PROVE Has(m + 1)
    <2> SUFFICES ASSUME m + 1 <= n
                 PROVE  \E it \in [SUBSET (1..(m + 1)) -> V] : FoldsSets(it, m + 1, b, g)
        OBVIOUS
    <2>1. PICK it \in [SUBSET (1..m) -> V] : FoldsSets(it, m, b, g)
        <3>1. m <= n
            OBVIOUS
        <3> QED BY <1>2, <3>1
    <2> DEFINE jt == [s \in SUBSET (1..(m + 1)) |->
                         IF m + 1 \in s THEN g[<<m + 1, it[s \ {m + 1}]>>] ELSE it[s]]
    <2>2. /\ \A s \in SUBSET (1..(m + 1)) : s \ {m + 1} \in SUBSET (1..m)
          /\ \A s \in SUBSET (1..(m + 1)) : m + 1 \notin s => s \in SUBSET (1..m)
          /\ m + 1 \in 1..n
        OBVIOUS
    <2>3. jt \in [SUBSET (1..(m + 1)) -> V]
        <3>1. ASSUME NEW s \in SUBSET (1..(m + 1)) PROVE jt[s] \in V
            BY <2>2
        <3> QED BY <3>1
    <2>4. /\ \A s \in SUBSET (1..(m + 1)) : m + 1 \in s => jt[s] = g[<<m + 1, it[s \ {m + 1}]>>]
          /\ \A s \in SUBSET (1..(m + 1)) : m + 1 \notin s => jt[s] = it[s]
        OBVIOUS
    <2> HIDE DEF jt
    <2>5. jt[{}] = b
        BY <2>1, <2>4 DEF FoldsSets
    <2>6. ASSUME NEW s \in SUBSET (1..(m + 1)), s # {}
          PROVE  jt[s] = g[<<Max(s), jt[s \ {Max(s)}]>>]
        <3>1. Max(s) \in s /\ \A x \in s : x <= Max(s)
            <4>1. m + 1 \in Nat
                OBVIOUS
            <4> QED BY <2>6, <4>1, MaxIsLargest
        <3>2. CASE m + 1 \in s
            <4>1. Max(s) = m + 1
                <5>1. m + 1 <= Max(s) /\ Max(s) \in 1..(m + 1)
                    BY <3>1, <3>2
                <5> QED BY <5>1
            <4>2. jt[s \ {m + 1}] = it[s \ {m + 1}]
                BY <2>4
            <4> QED BY <2>4, <3>2, <4>1, <4>2
        <3>3. CASE m + 1 \notin s
            <4>1. s \in SUBSET (1..m) /\ m + 1 \notin s \ {Max(s)}
                BY <2>2, <3>3
            <4>2. jt[s] = it[s] /\ jt[s \ {Max(s)}] = it[s \ {Max(s)}]
                BY <2>4, <3>3, <4>1
            <4> QED BY <2>1, <2>6, <4>1, <4>2 DEF FoldsSets
        <3> QED BY <3>2, <3>3
    <2>7. FoldsSets(jt, m + 1, b, g)
        BY <2>5, <2>6 DEF FoldsSets
    <2> QED BY <2>3, <2>7
<1> HIDE DEF Has
<1>3. 0 \in T /\ \A m \in Nat : m \in T => m + 1 \in T
    BY <1>1, <1>2
<1> HIDE DEF T
<1>4. n \in T
    BY <1>3, InductionOnNat
<1>5. Has(n)
    BY <1>4 DEF T
<1>6. n <= n
    OBVIOUS
<1> QED BY <1>5, <1>6 DEF Has

-------------------------------------------------------------------------------
(* What is picked of two sequences, of one no place of which is picked         *)

LEMMA PickConcat ==
    ASSUME NEW S, NEW a \in Seq(S), NEW b \in Seq(S), NEW K,
           NEW L, \A i \in 1..Len(b) : i \in L <=> Len(a) + i \in K
    PROVE  Pick(a \o b, K) = Pick(a, K) \o Pick(b, L)
<1> DEFINE Own(t) == {i \in 1..Len(t) : Len(a) + i \in K}
           T == {t \in Seq(S) : Pick(a \o t, K) = Pick(a, K) \o Pick(t, Own(t))}
<1>1. Pick(a, K) \in Seq(S) /\ Len(a) \in Nat
    BY PickType
<1>2. <<>> \in T
    <2>1. a \o <<>> = a /\ Pick(<<>>, Own(<<>>)) = <<>> /\ <<>> \in Seq(S)
        BY PickEmpty
    <2>2. Pick(a, K) \o <<>> = Pick(a, K)
        BY <1>1
    <2> QED BY <2>1, <2>2
<1>3. ASSUME NEW t \in Seq(S), NEW e \in S, t \in T
      PROVE  Append(t, e) \in T
    <2> DEFINE u == Append(t, e)
               p == Pick(a, K)
               n == Len(a) + Len(t) + 1
    <2>1. /\ u \in Seq(S) /\ Len(u) = Len(t) + 1 /\ Len(t) \in Nat
          /\ a \o t \in Seq(S) /\ Len(a \o t) + 1 = n /\ a \o u = Append(a \o t, e)
        BY <1>1
    <2>2. Pick(t, Own(u)) = Pick(t, Own(t))
        <3>1. \A i \in 1..Len(t) : i \in Own(u) <=> i \in Own(t)
            BY <2>1
        <3> HIDE DEF Own
        <3> QED BY <3>1, PickAgree
    <2>3. Len(t) + 1 \in Own(u) <=> n \in K
        BY <1>1, <2>1
    <2>4. Pick(t, Own(t)) \in Seq(S)
        BY PickType
    <2>5. Pick(a \o t, K) = p \o Pick(t, Own(t))
        BY <1>3
    <2>6. /\ n \in K => Pick(Append(a \o t, e), K) = Append(Pick(a \o t, K), e)
          /\ n \notin K => Pick(Append(a \o t, e), K) = Pick(a \o t, K)
        BY <2>1, PickAppend
    <2>7. /\ Len(t) + 1 \in Own(u) => Pick(u, Own(u)) = Append(Pick(t, Own(u)), e)
          /\ Len(t) + 1 \notin Own(u) => Pick(u, Own(u)) = Pick(t, Own(u))
        <3> HIDE DEF Own
        <3> QED BY PickAppend
    <2> HIDE DEF Own, u, n, p
    <2>8. CASE n \in K
        <3>1. p \o Append(Pick(t, Own(t)), e) = Append(p \o Pick(t, Own(t)), e)
            BY <1>1, <2>4 DEF p
        <3>2. Pick(a \o u, K) = p \o Pick(u, Own(u))
            BY <2>1, <2>2, <2>3, <2>5, <2>6, <2>7, <2>8, <3>1
        <3> QED BY <2>1, <3>2 DEF u, p
    <2>9. CASE n \notin K
        <3>1. Pick(a \o u, K) = p \o Pick(u, Own(u))
            BY <2>1, <2>2, <2>3, <2>5, <2>6, <2>7, <2>9
        <3> QED BY <2>1, <3>1 DEF u, p
    <2> QED BY <2>8, <2>9
<1>4. b \in T
    <2> HIDE DEF T
    <2> QED BY <1>2, <1>3, InductionOnSeq
<1>5. Pick(b, Own(b)) = Pick(b, L)
    <2>1. \A i \in 1..Len(b) : i \in Own(b) <=> i \in L
        OBVIOUS
    <2> HIDE DEF Own
    <2> QED BY <2>1, PickAgree
<1> QED BY <1>4, <1>5

LEMMA PickNone ==
    ASSUME NEW S, NEW s \in Seq(S), NEW K, \A i \in 1..Len(s) : i \notin K
    PROVE  Pick(s, K) = <<>>
<1> DEFINE T == {t \in Seq(S) : (\A i \in 1..Len(t) : i \notin K) => Pick(t, K) = <<>>}
<1>1. <<>> \in T
    BY PickEmpty
<1>2. ASSUME NEW t \in Seq(S), NEW e \in S, t \in T
      PROVE  Append(t, e) \in T
    <2>1. Append(t, e) \in Seq(S) /\ Len(Append(t, e)) = Len(t) + 1 /\ Len(t) \in Nat
        OBVIOUS
    <2>2. ASSUME \A i \in 1..(Len(t) + 1) : i \notin K PROVE Pick(Append(t, e), K) = <<>>
        <3>1. Len(t) + 1 \notin K /\ \A i \in 1..Len(t) : i \notin K
            BY <2>1, <2>2
        <3>2. Pick(t, K) = <<>>
            BY <1>2, <3>1
        <3> QED BY <3>1, <3>2, PickAppend
    <2> QED BY <2>1, <2>2
<1>3. s \in T
    <2> HIDE DEF T
    <2> QED BY <1>1, <1>2, InductionOnSeq
<1> QED BY <1>3

LEMMA PickAll ==
    ASSUME NEW S, NEW s \in Seq(S), NEW K, \A i \in 1..Len(s) : i \in K
    PROVE  Pick(s, K) = s
<1> DEFINE T == {t \in Seq(S) : (\A i \in 1..Len(t) : i \in K) => Pick(t, K) = t}
<1>1. <<>> \in T
    BY PickEmpty
<1>2. ASSUME NEW t \in Seq(S), NEW e \in S, t \in T
      PROVE  Append(t, e) \in T
    <2>1. Append(t, e) \in Seq(S) /\ Len(Append(t, e)) = Len(t) + 1 /\ Len(t) \in Nat
        OBVIOUS
    <2>2. ASSUME \A i \in 1..(Len(t) + 1) : i \in K PROVE Pick(Append(t, e), K) = Append(t, e)
        <3>1. Len(t) + 1 \in K /\ \A i \in 1..Len(t) : i \in K
            BY <2>1, <2>2
        <3>2. Pick(t, K) = t
            BY <1>2, <3>1
        <3> QED BY <3>1, <3>2, PickAppend
    <2> QED BY <2>1, <2>2
<1>3. s \in T
    <2> HIDE DEF T
    <2> QED BY <1>1, <1>2, InductionOnSeq
<1> QED BY <1>3

-------------------------------------------------------------------------------
(* Sums                                                                        *)

\* u[k] is the sum of the first k of f.
Sums(u, n, f) == u[0] = 0 /\ \A k \in 1..n : u[k] = u[k - 1] + f[k]

LEMMA SumsExist ==
    ASSUME NEW n \in Nat, NEW f \in [1..n -> Int]
    PROVE  \E u \in [0..n -> Int] : Sums(u, n, f)
<1> DEFINE g == [p \in (1..n) \X Int |-> p[2] + f[p[1]]]
<1>1. g \in [(1..n) \X Int -> Int] /\ 0 \in Int
    OBVIOUS
<1>2. \A k \in 1..n, v \in Int : g[<<k, v>>] = v + f[k]
    OBVIOUS
<1> HIDE DEF g
<1>3. PICK u \in [0..n -> Int] : Unfolds(u, n, 0, g)
    BY <1>1, UnfoldingExists
<1>4. \A k \in 1..n : k - 1 \in 0..n /\ u[k - 1] \in Int
    OBVIOUS
<1>5. Sums(u, n, f)
    BY <1>2, <1>3, <1>4 DEF Sums, Unfolds
<1> QED BY <1>5

\* h is f but for x, where it is nothing.
Lacks(h, f, n, x) == h[x] = 0 /\ \A k \in 1..n : k # x => h[k] = f[k]

\* Taking x out of what is summed takes f[x] out of the sum.
LEMMA SumsWithout ==
    ASSUME NEW n \in Nat, NEW f \in [1..n -> Int], NEW h \in [1..n -> Int], NEW x \in 1..n,
           Lacks(h, f, n, x),
           NEW u \in [0..n -> Int], Sums(u, n, f), NEW v \in [0..n -> Int], Sums(v, n, h)
    PROVE  u[n] = v[n] + f[x]
<1> DEFINE T == {k \in Nat : k <= n => (k < x => u[k] = v[k]) /\ (k >= x => u[k] = v[k] + f[x])}
<1>1. 0 \in T
    BY DEF Sums
<1>2. ASSUME NEW k \in Nat, k \in T PROVE k + 1 \in T
    <2> SUFFICES ASSUME k + 1 <= n
                 PROVE  /\ k + 1 < x => u[k + 1] = v[k + 1]
                        /\ k + 1 >= x => u[k + 1] = v[k + 1] + f[x]
        OBVIOUS
    <2>1. k + 1 \in 1..n /\ (k + 1) - 1 = k /\ u[k] \in Int /\ v[k] \in Int
        OBVIOUS
    <2>2. u[k + 1] = u[k] + f[k + 1] /\ v[k + 1] = v[k] + h[k + 1]
        BY <2>1 DEF Sums
    <2>3. (k < x => u[k] = v[k]) /\ (k >= x => u[k] = v[k] + f[x])
        BY <1>2
    <2>4. f[k + 1] \in Int /\ h[k + 1] \in Int /\ f[x] \in Int
        BY <2>1
    <2>5. CASE k + 1 = x
        <3>1. h[k + 1] = 0 /\ f[k + 1] = f[x]
            BY <2>5 DEF Lacks
        <3> QED BY <3>1, <2>1, <2>2, <2>3, <2>4, <2>5
    <2>6. CASE k + 1 # x
        <3>1. h[k + 1] = f[k + 1]
            BY <2>1, <2>6 DEF Lacks
        <3>2. k + 1 < x => k < x
            OBVIOUS
        <3>3. k + 1 >= x => k >= x
            BY <2>6
        <3>4. k < x => u[k + 1] = v[k + 1]
            BY <2>2, <2>3, <3>1
        <3>5. k >= x => u[k + 1] = v[k + 1] + f[x]
            <4> SUFFICES ASSUME k >= x PROVE u[k + 1] = v[k + 1] + f[x]
                OBVIOUS
            <4>1. u[k + 1] = v[k] + f[x] + f[k + 1] /\ v[k + 1] = v[k] + f[k + 1]
                BY <2>2, <2>3, <3>1
            <4>2. \A a, b, c \in Int : a + b + c = a + c + b
                OBVIOUS
            <4>3. v[k] + f[x] + f[k + 1] = v[k] + f[k + 1] + f[x]
                BY <2>1, <2>4, <4>2
            <4> QED BY <4>1, <4>3
        <3> QED BY <3>2, <3>3, <3>4, <3>5
    <2> QED BY <2>5, <2>6
<1> HIDE DEF T
<1>3. n \in T
    BY <1>1, <1>2, InductionOnNat
<1> QED BY <1>3 DEF T

LEMMA SumsUnique ==
    ASSUME NEW n \in Nat, NEW f \in [1..n -> Int],
           NEW u \in [0..n -> Int], Sums(u, n, f), NEW v \in [0..n -> Int], Sums(v, n, f)
    PROVE  u[n] = v[n]
<1> DEFINE T == {k \in Nat : k <= n => u[k] = v[k]}
<1>1. 0 \in T
    BY DEF Sums
<1>2. ASSUME NEW k \in Nat, k \in T PROVE k + 1 \in T
    <2> SUFFICES ASSUME k + 1 <= n PROVE u[k + 1] = v[k + 1]
        OBVIOUS
    <2>1. k + 1 \in 1..n /\ (k + 1) - 1 = k /\ u[k] = v[k]
        BY <1>2
    <2>2. u[k + 1] = u[k] + f[k + 1] /\ v[k + 1] = v[k] + f[k + 1]
        BY <2>1 DEF Sums
    <2> QED BY <2>1, <2>2
<1> HIDE DEF T
<1>3. n \in T
    BY <1>1, <1>2, InductionOnNat
<1> QED BY <1>3 DEF T

\* f on s, and nothing elsewhere.
Only(f, s) == [k \in DOMAIN f |-> IF k \in s THEN f[k] ELSE 0]

SumOver(n, f, s) == CHOOSE x : \E v \in [0..n -> Int] : Sums(v, n, Only(f, s)) /\ x = v[n]

LEMMA SumOverIs ==
    ASSUME NEW n \in Nat, NEW f \in [1..n -> Int], NEW s,
           NEW v \in [0..n -> Int], Sums(v, n, Only(f, s))
    PROVE  SumOver(n, f, s) = v[n]
<1> DEFINE P(x) == \E w \in [0..n -> Int] : Sums(w, n, Only(f, s)) /\ x = w[n]
<1>1. Only(f, s) \in [1..n -> Int]
    BY DEF Only
<1>2. P(v[n])
    OBVIOUS
<1>3. ASSUME NEW x, P(x) PROVE x = v[n]
    <2>1. PICK w \in [0..n -> Int] : Sums(w, n, Only(f, s)) /\ x = w[n]
        BY <1>3
    <2>2. w[n] = v[n]
        BY <1>1, <2>1, SumsUnique
    <2> QED BY <2>1, <2>2
<1>4. SumOver(n, f, s) = CHOOSE x : P(x)
    BY DEF SumOver
<1> HIDE DEF P
<1>5. P(CHOOSE x : P(x))
    BY <1>2
<1> QED BY <1>3, <1>4, <1>5

LEMMA SumOverSteps ==
    ASSUME NEW n \in Nat, NEW f \in [1..n -> Int]
    PROVE  /\ SumOver(n, f, {}) = 0
           /\ \A s \in SUBSET (1..n) : \A x \in s :
                  SumOver(n, f, s) = f[x] + SumOver(n, f, s \ {x})
           /\ \A s : SumOver(n, f, s) \in Int
           /\ \A u \in [0..n -> Int] : Sums(u, n, f) => SumOver(n, f, 1..n) = u[n]
<1>1. \A s : Only(f, s) \in [1..n -> Int]
    BY DEF Only
<1>2. \A s : \E v \in [0..n -> Int] : Sums(v, n, Only(f, s)) /\ SumOver(n, f, s) = v[n]
    BY <1>1, SumsExist, SumOverIs
<1>3. SumOver(n, f, {}) = 0
    <2> DEFINE z == [k \in 0..n |-> 0]
    <2>1. z \in [0..n -> Int] /\ z[n] = 0 /\ z[0] = 0
        OBVIOUS
    <2>2. ASSUME NEW k \in 1..n PROVE z[k] = z[k - 1] + Only(f, {})[k]
        <3>1. Only(f, {})[k] = 0 /\ z[k] = 0 /\ z[k - 1] = 0
            BY DEF Only
        <3> QED BY <3>1
    <2> HIDE DEF z
    <2>3. Sums(z, n, Only(f, {}))
        BY <2>1, <2>2 DEF Sums
    <2> QED BY <2>1, <2>3, SumOverIs
<1>4. ASSUME NEW s \in SUBSET (1..n), NEW x \in s
      PROVE  SumOver(n, f, s) = f[x] + SumOver(n, f, s \ {x})
    <2>1. PICK u \in [0..n -> Int] : Sums(u, n, Only(f, s)) /\ SumOver(n, f, s) = u[n]
        BY <1>2
    <2>2. PICK v \in [0..n -> Int] : /\ Sums(v, n, Only(f, s \ {x}))
                                     /\ SumOver(n, f, s \ {x}) = v[n]
        BY <1>2
    <2> DEFINE all == Only(f, s)
               others == Only(f, s \ {x})
    <2>3. /\ others[x] = 0 /\ all[x] = f[x] /\ x \in 1..n
          /\ \A k \in 1..n : k # x => others[k] = all[k]
        BY DEF Only
    <2>4. all \in [1..n -> Int] /\ others \in [1..n -> Int]
        BY <1>1
    <2>5. Sums(u, n, all) /\ Sums(v, n, others)
        BY <2>1, <2>2
    <2> HIDE DEF all, others
    <2>6. u[n] = v[n] + all[x]
        <3>1. x \in 1..n /\ Lacks(others, all, n, x)
            BY <2>3 DEF Lacks
        <3> QED BY <2>4, <2>5, <3>1, SumsWithout, ZenonT(60)
    <2>7. u[n] \in Int /\ v[n] \in Int /\ f[x] \in Int
        BY <2>3
    <2> QED BY <2>1, <2>2, <2>3, <2>6, <2>7
<1>5. ASSUME NEW u \in [0..n -> Int], Sums(u, n, f)
      PROVE  SumOver(n, f, 1..n) = u[n]
    <2>1. Only(f, 1..n) = f
        BY DEF Only
    <2> QED BY <1>5, <2>1, SumOverIs
<1>6. \A s : SumOver(n, f, s) \in Int
    BY <1>2
<1> QED BY <1>3, <1>4, <1>5, <1>6

-------------------------------------------------------------------------------
(* Where the parts of a concatenation stand                                    *)

\* g counts the elements before every part.
Offsets(g, parts) == g[0] = 0 /\ \A i \in 1..Len(parts) : g[i] = g[i - 1] + Len(parts[i])

\* Each part stands behind those before it.
LaidOut(f, g, parts) ==
    \A i \in 1..Len(parts) : \A j \in 1..Len(parts[i]) : f[g[i - 1] + j] = parts[i][j]

LEMMA FlattenAt ==
    ASSUME NEW S, NEW parts, parts \in Seq(Seq(S)), NEW g,
           g \in [0..Len(parts) -> Nat], Offsets(g, parts)
    PROVE  /\ FlattenSeq(parts) \in Seq(S)
           /\ Len(FlattenSeq(parts)) = g[Len(parts)]
           /\ LaidOut(FlattenSeq(parts), g, parts)
<1> DEFINE k == Len(parts)
<1>1. k \in Nat /\ \A i \in 1..k : parts[i] \in Seq(S)
    OBVIOUS
<1>2. PICK f \in [0..k -> Seq(S)] : Joins(f, parts) /\ FlattenSeq(parts) = f[k]
    BY FlattenUnfolds, Zenon
<1> DEFINE Laid(m) ==
               /\ Len(f[m]) = g[m]
               /\ \A i \in 1..m : \A j \in 1..Len(parts[i]) :
                      /\ g[i - 1] + j \in 1..g[m] /\ f[m][g[i - 1] + j] = parts[i][j]
           T == {m \in Nat : m <= k => Laid(m)}
<1>3. 0 \in T
    <2>1. f[0] = <<>> /\ g[0] = 0
        BY <1>2 DEF Joins, Offsets
    <2>2. Len(f[0]) = 0
        BY <2>1
    <2> QED BY <2>1, <2>2
<1>4. ASSUME NEW m \in Nat, m \in T PROVE m + 1 \in T
    <2> SUFFICES ASSUME m + 1 <= k PROVE Laid(m + 1)
        <3> HIDE DEF Laid
        <3> QED OBVIOUS
    <2>1. m + 1 \in 1..k /\ m \in 0..k /\ m + 1 \in 0..k /\ (m + 1) - 1 = m /\ m <= k
        <3> HIDE DEF k
        <3> QED BY <1>1
    <2>2. /\ f[m + 1] = f[m] \o parts[m + 1] /\ f[m] \in Seq(S) /\ parts[m + 1] \in Seq(S)
          /\ g[m] \in Nat /\ g[m + 1] \in Nat /\ g[m + 1] = g[m] + Len(parts[m + 1])
        BY <1>1, <1>2, <2>1 DEF Joins, Offsets
    <2>3. Laid(m)
        BY <1>4, <2>1
    <2> DEFINE a == f[m]
               b == parts[m + 1]
               c == f[m + 1]
    <2>4. /\ Len(c) = Len(a) + Len(b)
          /\ \A j \in 1..Len(a) : c[j] = a[j]
          /\ \A j \in 1..Len(b) : c[Len(a) + j] = b[j]
        <3>1. c = a \o b /\ a \in Seq(S) /\ b \in Seq(S)
            BY <2>2
        <3> HIDE DEF a, b, c
        <3> QED BY <3>1
    <2>5. Len(a) = g[m] /\ Len(b) \in Nat
        BY <2>2, <2>3
    <2>6. \A i \in 1..m : \A j \in 1..Len(parts[i]) :
              g[i - 1] + j \in 1..g[m + 1] /\ c[g[i - 1] + j] = parts[i][j]
        <3> SUFFICES ASSUME NEW i \in 1..m, NEW j \in 1..Len(parts[i])
                     PROVE  g[i - 1] + j \in 1..g[m + 1] /\ c[g[i - 1] + j] = parts[i][j]
            OBVIOUS
        <3>1. g[i - 1] + j \in 1..g[m] /\ a[g[i - 1] + j] = parts[i][j]
            BY <2>3
        <3> DEFINE x == g[i - 1] + j
                   l == g[m]
                   h == g[m + 1]
                   r == parts[i][j]
        <3>2. x \in 1..l /\ a[x] = r /\ l = Len(a)
            BY <2>5, <3>1
        <3>3. l \in Nat /\ h \in Nat /\ l <= h
            <4>1. h = l + Len(b) /\ l \in Nat /\ h \in Nat /\ Len(b) \in Nat
                BY <2>2, <2>5
            <4> HIDE DEF h, l, b
            <4> QED BY <4>1
        <3>4. \A y \in 1..Len(a) : c[y] = a[y]
            BY <2>4
        <3> SUFFICES x \in 1..h /\ c[x] = r
            OBVIOUS
        <3> HIDE DEF x, l, h, r, a, b, c
        <3> QED BY <3>2, <3>3, <3>4
    <2>7. \A j \in 1..Len(b) : g[m] + j \in 1..g[m + 1] /\ c[g[m] + j] = b[j]
        <3> DEFINE l == g[m]
                   h == g[m + 1]
        <3>1. l \in Nat /\ h = l + Len(b) /\ Len(b) \in Nat /\ l = Len(a)
            BY <2>2, <2>5
        <3>2. \A j \in 1..Len(b) : c[Len(a) + j] = b[j]
            BY <2>4
        <3> SUFFICES \A j \in 1..Len(b) : l + j \in 1..h /\ c[l + j] = b[j]
            OBVIOUS
        <3>3. \A j \in 1..Len(b) : l + j \in 1..h
            <4> HIDE DEF b, l, h
            <4> QED BY <3>1
        <3>4. \A j \in 1..Len(b) : c[l + j] = b[j]
            <4> HIDE DEF a, b, c, l
            <4> QED BY <3>1, <3>2
        <3> QED BY <3>3, <3>4
    <2>8. \A i \in 1..(m + 1) : i \in 1..m \/ i = m + 1
        OBVIOUS
    <2>9. Len(c) = g[m + 1]
        BY <2>2, <2>4, <2>5
    <2> HIDE DEF a
    <2> QED BY <2>1, <2>6, <2>7, <2>8, <2>9
<1>5. \A m \in Nat : m \in T
    <2> HIDE DEF T
    <2> QED BY <1>3, <1>4, InductionOnNat
<1>6. k \in T /\ k <= k /\ k \in 0..k
    <2> HIDE DEF T, k
    <2> QED BY <1>1, <1>5
<1> QED BY <1>2, <1>6 DEF LaidOut

LEMMA SliceIs ==
    ASSUME NEW S, NEW q \in Seq(S), NEW a \in Nat, NEW b \in Nat, a <= b, b <= Len(q)
    PROVE  /\ SubSeq(q, a + 1, b) \in Seq(S) /\ Len(SubSeq(q, a + 1, b)) = b - a
           /\ \A j \in 1..(b - a) : SubSeq(q, a + 1, b)[j] = q[a + j]
OBVIOUS
==============================================================================
