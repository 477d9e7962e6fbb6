------------------------ MODULE SeqlenBalancingProofs ------------------------
(***************************************************************************)
(* Theorems about SeqlenBalancing.tla, for rows of every lengths and every *)
(* number of parts: a sort permutes; a merge of two states joins their     *)
(* rows and widens the spread to the larger of the two at most; so the     *)
(* heap always holds the rows once each (HeapOf), and its last state       *)
(* deals them out evenly (Even).                                           *)
(***************************************************************************)
EXTENDS SeqlenBalancing, SequenceFacts, FiniteSetTheorems

-------------------------------------------------------------------------------
(* Strict orders                                                               *)

\* R orders the set S strictly and totally.
Orders(R, S) ==
    /\ \A x \in S : <<x, x>> \notin R
    /\ \A x, y \in S : x # y => <<x, y>> \in R \/ <<y, x>> \in R
    /\ \A x, y, z \in S : <<x, y>> \in R /\ <<y, z>> \in R => <<x, z>> \in R
Below(R, S, x) == {y \in S : <<y, x>> \in R}

LEMMA BelowGrows ==
    ASSUME NEW S, IsFiniteSet(S), NEW R, Orders(R, S), NEW x \in S, NEW y \in S, <<x, y>> \in R
    PROVE  /\ Cardinality(Below(R, S, x)) \in Nat /\ Cardinality(Below(R, S, y)) \in Nat
           /\ Cardinality(Below(R, S, x)) < Cardinality(Below(R, S, y))
<1> DEFINE a == Below(R, S, x)
           b == Below(R, S, y)
<1>1. a \in SUBSET b /\ x \in b /\ x \notin a /\ a \in SUBSET S /\ b \in SUBSET S
    BY DEF Orders, Below
<1> HIDE DEF a, b
<1>2. IsFiniteSet(a) /\ IsFiniteSet(b)
    BY <1>1, FS_Subset
<1>3. Cardinality(a) \in Nat /\ Cardinality(b) \in Nat
    BY <1>2, FS_CardinalityType
<1>4. Cardinality(a) <= Cardinality(b) /\ Cardinality(a) # Cardinality(b)
    BY <1>1, <1>2, FS_Subset
<1> QED BY <1>3, <1>4 DEF a, b

LEMMA LeastOfFinite ==
    ASSUME NEW S, IsFiniteSet(S), S # {}, NEW R, Orders(R, S)
    PROVE  \E x \in S : \A y \in S \ {x} : <<x, y>> \in R
<1> DEFINE N == {Cardinality(Below(R, S, x)) : x \in S}
<1>1. \A x \in S : Cardinality(Below(R, S, x)) \in Nat
    <2> TAKE x \in S
    <2>1. Below(R, S, x) \in SUBSET S
        BY DEF Below
    <2> QED BY <2>1, FS_Subset, FS_CardinalityType
<1>2. PICK m \in N : \A k \in N : m <= k
    <2>1. N \in SUBSET Nat /\ N # {}
        BY <1>1
    <2> HIDE DEF N
    <2> QED BY <2>1, LeastNumber, Zenon
<1>3. PICK x \in S : m = Cardinality(Below(R, S, x))
    OBVIOUS
<1>4. ASSUME NEW y \in S \ {x}, <<x, y>> \notin R PROVE FALSE
    <2>1. <<y, x>> \in R
        BY <1>4 DEF Orders
    <2>2. Cardinality(Below(R, S, y)) < m /\ Cardinality(Below(R, S, y)) \in Nat /\ m \in Nat
        BY <1>3, <2>1, BelowGrows
    <2> QED BY <1>2, <2>2
<1> QED BY <1>4

Placing(place, R, n) == place = [i \in 1..n |-> Cardinality(Below(R, 1..n, i)) + 1]

\* Whoever goes behind those below him has a place of his own.
LEMMA PlacesAreDistinct ==
    ASSUME NEW n \in Nat, NEW R, Orders(R, 1..n),
           NEW place, Placing(place, R, n)
    PROVE  /\ place \in [1..n -> 1..n]
           /\ \A i, j \in 1..n : <<i, j>> \in R => place[i] < place[j]
           /\ \A p \in 1..n : \E i \in 1..n : place[i] = p
<1>1. IsFiniteSet(1..n) /\ Cardinality(1..n) = n
    BY FS_Interval
<1>2. ASSUME NEW i \in 1..n
      PROVE  Cardinality(Below(R, 1..n, i)) \in 0..(n - 1)
    <2>1. Below(R, 1..n, i) \in SUBSET ((1..n) \ {i})
        BY DEF Below, Orders
    <2>2. IsFiniteSet((1..n) \ {i}) /\ Cardinality((1..n) \ {i}) = n - 1
        BY <1>1, FS_RemoveElement
    <2>3. /\ IsFiniteSet(Below(R, 1..n, i))
          /\ Cardinality(Below(R, 1..n, i)) <= n - 1
        BY <2>1, <2>2, FS_Subset
    <2>4. Cardinality(Below(R, 1..n, i)) \in Nat
        BY <2>3, FS_CardinalityType
    <2> QED BY <2>3, <2>4
<1>3. place \in [1..n -> 1..n] /\ \A i \in 1..n : place[i] = Cardinality(Below(R, 1..n, i)) + 1
    <2> DEFINE c(i) == Cardinality(Below(R, 1..n, i))
    <2>1. place = [i \in 1..n |-> c(i) + 1]
        BY DEF Placing
    <2>2. \A i \in 1..n : c(i) \in 0..(n - 1)
        BY <1>2
    <2> HIDE DEF c
    <2>3. \A i \in 1..n : c(i) + 1 \in 1..n
        BY <2>2
    <2>4. place \in [1..n -> 1..n] /\ \A i \in 1..n : place[i] = c(i) + 1
        BY <2>1, <2>3
    <2> QED BY <2>4 DEF c
<1>4. ASSUME NEW i \in 1..n, NEW j \in 1..n, <<i, j>> \in R PROVE place[i] < place[j]
    <2>1. /\ Cardinality(Below(R, 1..n, i)) \in Nat /\ Cardinality(Below(R, 1..n, j)) \in Nat
          /\ Cardinality(Below(R, 1..n, i)) < Cardinality(Below(R, 1..n, j))
        BY <1>1, <1>4, BelowGrows, Zenon
    <2> QED BY <1>3, <2>1
<1>5. \A i, j \in 1..n : place[i] = place[j] => i = j
    <2> SUFFICES ASSUME NEW i \in 1..n, NEW j \in 1..n, i # j PROVE place[i] # place[j]
        OBVIOUS
    <2>1. <<i, j>> \in R \/ <<j, i>> \in R
        BY DEF Orders
    <2>2. place[i] \in Int /\ place[j] \in Int /\ (place[i] < place[j] \/ place[j] < place[i])
        BY <1>3, <1>4, <2>1
    <2> QED BY <2>2
<1>6. place \in Injection(1..n, 1..n)
    BY <1>3, <1>5 DEF Injection, IsInjective
<1>7. place \in Surjection(1..n, 1..n)
    BY <1>1, <1>6, FS_Injection
<1>8. \A p \in 1..n : \E i \in 1..n : place[i] = p
    BY <1>7 DEF Surjection
<1> QED BY <1>3, <1>4, <1>8

\* t has the elements of s, each once, in the order R of their places.
Arranges(f, s, t, R) ==
    /\ Len(t) = Len(s) /\ DOMAIN t = 1..Len(s)
    /\ f \in [1..Len(s) -> 1..Len(s)]
    /\ \A p \in 1..Len(s) : t[p] = s[f[p]]
    /\ \A p, q \in 1..Len(s) : p < q => <<f[p], f[q]>> \in R
    /\ \A p, q \in 1..Len(s) : f[p] = f[q] => p = q
    /\ \A i \in 1..Len(s) : \E p \in 1..Len(s) : f[p] = i

LEMMA FunctionIsSeq ==
    ASSUME NEW S, NEW n \in Nat, NEW f \in [1..n -> S]
    PROVE  f \in Seq(S) /\ Len(f) = n /\ DOMAIN f = 1..n
BY SeqDef

InPlaces(s, place, D) == [p \in D |-> s[CHOOSE i \in D : place[i] = p]]

LEMMA PlacedIsArranged ==
    ASSUME NEW S, NEW n \in Nat, NEW s \in [1..n -> S], NEW R, Orders(R, 1..n),
           NEW place, Placing(place, R, n)
    PROVE  /\ InPlaces(s, place, 1..n) \in Seq(S)
           /\ \E f : Arranges(f, s, InPlaces(s, place, 1..n), R)
<1> DEFINE t == InPlaces(s, place, 1..n)
<1>n. s \in Seq(S) /\ Len(s) = n /\ \A i \in 1..n : s[i] \in S
    BY FunctionIsSeq
<1>1. /\ place \in [1..n -> 1..n]
      /\ \A i, j \in 1..n : <<i, j>> \in R => place[i] < place[j]
      /\ \A p \in 1..n : \E i \in 1..n : place[i] = p
    BY PlacesAreDistinct, Zenon
<1> DEFINE At(p) == CHOOSE i \in 1..n : place[i] = p
           f == [p \in 1..n |-> At(p)]
<1>2. \A p \in 1..n : At(p) \in 1..n /\ place[At(p)] = p
    BY <1>1
<1>t. t = [p \in 1..n |-> s[At(p)]]
    BY DEF InPlaces
<1> HIDE DEF At, t
<1>3. /\ f \in [1..n -> 1..n]
      /\ \A p \in 1..n : f[p] \in 1..n /\ place[f[p]] = p /\ t[p] = s[f[p]]
    <2>1. \A p \in 1..n : f[p] = At(p)
        OBVIOUS
    <2>2. \A p \in 1..n : t[p] = s[At(p)]
        BY <1>t
    <2>3. f \in [1..n -> 1..n]
        BY <1>2
    <2> HIDE DEF f
    <2> QED BY <1>2, <2>1, <2>2, <2>3
<1>4. t \in Seq(S) /\ Len(t) = n /\ DOMAIN t = 1..n
    <2>1. \A p \in 1..n : s[At(p)] \in S
        BY <1>n, <1>2
    <2>2. t \in [1..n -> S]
        BY <2>1, <1>t
    <2> QED BY <2>2, FunctionIsSeq
<1> HIDE DEF f
<1>5. \A p, q \in 1..n : f[p] = f[q] => p = q
    BY <1>3
<1>6. ASSUME NEW i \in 1..n PROVE \E p \in 1..n : f[p] = i
    <2>1. place[i] \in 1..n /\ place[f[place[i]]] = place[i] /\ f[place[i]] \in 1..n
        BY <1>1, <1>3
    <2>2. CASE f[place[i]] # i
        <3>1. <<f[place[i]], i>> \in R \/ <<i, f[place[i]]>> \in R
            BY <2>1, <2>2 DEF Orders
        <3>2. place[f[place[i]]] < place[i] \/ place[i] < place[f[place[i]]]
            BY <1>1, <2>1, <3>1, Zenon
        <3>3. place[i] \in Int
            BY <2>1
        <3> QED BY <2>1, <3>2, <3>3
    <2> QED BY <2>1, <2>2
<1>7. ASSUME NEW p \in 1..n, NEW q \in 1..n, p < q PROVE <<f[p], f[q]>> \in R
    <2>1. f[p] \in 1..n /\ f[q] \in 1..n /\ place[f[p]] = p /\ place[f[q]] = q
        BY <1>3
    <2>2. f[p] # f[q]
        BY <1>7, <2>1
    <2>3. <<f[p], f[q]>> \in R \/ <<f[q], f[p]>> \in R
        BY <2>1, <2>2 DEF Orders
    <2>4. ~(q < p)
        BY <1>7
    <2>5. <<f[q], f[p]>> \in R => place[f[q]] < place[f[p]]
        BY <1>1, <2>1, Zenon
    <2> QED BY <2>1, <2>3, <2>4, <2>5
<1>8. Arranges(f, s, t, R)
    BY <1>n, <1>3, <1>4, <1>5, <1>6, <1>7 DEF Arranges
<1> QED BY <1>4, <1>8 DEF t

LEMMA AsListIsList == ASSUME NEW S, NEW s \in Seq(S) PROVE AsList(s) = s
BY DEF AsList

LEMMA ArrangedIsArranged ==
    ASSUME NEW S, NEW n \in Nat, NEW s \in [1..n -> S], NEW R, Orders(R, 1..n)
    PROVE  Arranged(s, R) \in Seq(S) /\ \E f : Arranges(f, s, Arranged(s, R), R)
<1> DEFINE place == [i \in 1..n |-> Cardinality(Below(R, 1..n, i)) + 1]
           t == InPlaces(s, place, 1..n)
<1>1. Placing(place, R, n)
    BY DEF Placing
<1>2. place \in [1..n -> 1..n]
    <2> HIDE DEF place
    <2> QED BY <1>1, PlacesAreDistinct, Zenon
<1>3. AsList([i \in DOMAIN s |-> Cardinality({j \in DOMAIN s : <<j, i>> \in R}) + 1]) = place
    <2>1. [i \in DOMAIN s |-> Cardinality({j \in DOMAIN s : <<j, i>> \in R}) + 1] = place
        BY Zenon DEF Below
    <2>2. place \in Seq(1..n)
        <3> HIDE DEF place
        <3> QED BY <1>2, FunctionIsSeq
    <2> QED BY <2>1, <2>2, AsListIsList, Zenon
<1> HIDE DEF place
<1>4. t \in Seq(S) /\ \E f : Arranges(f, s, t, R)
    BY <1>1, PlacedIsArranged, Zenon
<1>5. Arranged(s, R) = AsList(t)
    <2> DEFINE d == AsList([i \in DOMAIN s |-> Cardinality({j \in DOMAIN s : <<j, i>> \in R}) + 1])
    <2>1. Arranged(s, R) = AsList(InPlaces(s, d, DOMAIN s))
        BY DEF Arranged, InPlaces
    <2>2. d = place
        BY <1>3
    <2>3. DOMAIN s = 1..n
        OBVIOUS
    <2> HIDE DEF d
    <2> QED BY <2>1, <2>2, <2>3
<1>6. AsList(t) = t
    <2> HIDE DEF t
    <2> QED BY <1>4, AsListIsList, Zenon
<1> HIDE DEF t
<1> QED BY <1>4, <1>5, <1>6

-------------------------------------------------------------------------------
(* Sets of rows and their order                                                *)

\* A Set of the code: rows of lens, none twice, and the sum of their tokens.
RowSet(n) == [sum : Nat, items : Seq(1..n)]
Emptied(x) == Len(x.items) = 0 => x.sum = 0

First(x) == IF Len(x.items) = 0 THEN 0 ELSE x.items[1]

\* SmallerSet compares three numbers one after the other.
LEMMA SmallerIsLexicographic ==
    ASSUME NEW n \in Nat, NEW x \in RowSet(n), NEW y \in RowSet(n), Emptied(x), Emptied(y)
    PROVE  /\ SmallerSet(x, y) <=>
                 \/ x.sum < y.sum
                 \/ x.sum = y.sum /\ Len(x.items) < Len(y.items)
                 \/ x.sum = y.sum /\ Len(x.items) = Len(y.items) /\ First(x) < First(y)
           /\ {x.sum, Len(x.items), First(x)} \subseteq Nat
<1>1. /\ x.sum \in Nat /\ y.sum \in Nat /\ Len(x.items) \in Nat /\ Len(y.items) \in Nat
      /\ First(x) \in Nat /\ First(y) \in Nat
    BY DEF RowSet, First
<1>2. CASE Len(x.items) = 0 /\ Len(y.items) = 0
    <2>1. x.sum = 0 /\ x.items = <<>>
        BY <1>2 DEF Emptied, RowSet
    <2>2. x = NoRows
        BY <2>1 DEF RowSet, NoRows
    <2> QED BY <1>1, <1>2, <2>2 DEF SmallerSet, First
<1>3. CASE Len(x.items) # Len(y.items)
    BY <1>1, <1>3 DEF SmallerSet
<1>4. CASE Len(x.items) = Len(y.items) /\ Len(x.items) # 0
    <2>1. x # NoRows
        BY <1>4 DEF NoRows
    <2> QED BY <1>1, <1>4, <2>1 DEF SmallerSet, First
<1> QED BY <1>1, <1>2, <1>3, <1>4

\* The order Decreasing sorts by, as pairs of places.
Heavier(sets, k) ==
    {p \in (1..k) \X (1..k) :
        \/ SmallerSet(sets[p[2]], sets[p[1]])
        \/ ~SmallerSet(sets[p[1]], sets[p[2]]) /\ p[1] < p[2]}

LEMMA HeavierOrders ==
    ASSUME NEW n \in Nat, NEW k \in Nat, NEW sets \in [1..k -> RowSet(n)],
           \A i \in 1..k : Emptied(sets[i])
    PROVE  Orders(Heavier(sets, k), 1..k)
<1> DEFINE a(i) == sets[i].sum
           b(i) == Len(sets[i].items)
           c(i) == First(sets[i])
           Lex(i, j) == \/ a(i) < a(j)
                        \/ a(i) = a(j) /\ b(i) < b(j)
                        \/ a(i) = a(j) /\ b(i) = b(j) /\ c(i) < c(j)
<1>1. \A i \in 1..k : a(i) \in Nat /\ b(i) \in Nat /\ c(i) \in Nat
    BY SmallerIsLexicographic
<1>2. \A i, j \in 1..k : SmallerSet(sets[i], sets[j]) <=> Lex(i, j)
    BY SmallerIsLexicographic
<1>3. \A i, j \in 1..k : <<i, j>> \in Heavier(sets, k) <=> Lex(j, i) \/ (~Lex(i, j) /\ i < j)
    <2> HIDE DEF Lex
    <2> QED BY <1>2 DEF Heavier
<1>i. \A i \in 1..k : a(i) \in Int /\ b(i) \in Int /\ c(i) \in Int
    BY <1>1
<1>l. \A i, j, l \in 1..k :
          /\ ~Lex(i, i)
          /\ Lex(i, j) => ~Lex(j, i)
          /\ (Lex(i, j) \/ ~Lex(j, i)) /\ Lex(j, l) => Lex(i, l)
          /\ Lex(i, j) /\ (Lex(j, l) \/ ~Lex(l, j)) => Lex(i, l)
          /\ ~Lex(j, i) /\ ~Lex(l, j) => ~Lex(l, i)
    <2> TAKE i, j, l \in 1..k
    <2>1. /\ {a(i), a(j), a(l)} \subseteq Int /\ {b(i), b(j), b(l)} \subseteq Int
          /\ {c(i), c(j), c(l)} \subseteq Int
        BY <1>i
    <2> HIDE DEF a, b, c
    <2> QED BY <2>1
<1> HIDE DEF Lex
<1>4. \A i \in 1..k : <<i, i>> \notin Heavier(sets, k)
    BY <1>3, <1>l
<1>5. \A i, j \in 1..k :
          i # j => <<i, j>> \in Heavier(sets, k) \/ <<j, i>> \in Heavier(sets, k)
    BY <1>3, <1>l
<1>6. \A i, j, l \in 1..k :
          <<i, j>> \in Heavier(sets, k) /\ <<j, l>> \in Heavier(sets, k)
              => <<i, l>> \in Heavier(sets, k)
    <2> SUFFICES ASSUME NEW i \in 1..k, NEW j \in 1..k, NEW l \in 1..k,
                        <<i, j>> \in Heavier(sets, k), <<j, l>> \in Heavier(sets, k)
                 PROVE  <<i, l>> \in Heavier(sets, k)
        OBVIOUS
    <2>1. Lex(j, i) \/ (~Lex(i, j) /\ i < j)
        BY <1>3
    <2>2. Lex(l, j) \/ (~Lex(j, l) /\ j < l)
        BY <1>3
    <2>3. Lex(l, i) \/ (~Lex(i, l) /\ i < l)
        <3>1. CASE Lex(j, i) /\ Lex(l, j)
            BY <3>1, <1>l
        <3>2. CASE Lex(j, i) /\ ~Lex(j, l)
            BY <3>2, <1>l
        <3>3. CASE ~Lex(i, j) /\ Lex(l, j)
            BY <3>3, <1>l
        <3>4. CASE ~Lex(i, j) /\ i < j /\ ~Lex(j, l) /\ j < l
            BY <3>4, <1>l
        <3> QED BY <2>1, <2>2, <3>1, <3>2, <3>3, <3>4
    <2> QED BY <1>3, <2>3
<1> QED BY <1>4, <1>5, <1>6 DEF Orders

\* t has the sets of s in another order, the heaviest first.
Sorts(f, s, t, k) ==
    /\ Len(t) = k /\ f \in [1..k -> 1..k]
    /\ \A p \in 1..k : t[p] = s[f[p]]
    /\ \A p, q \in 1..k : f[p] = f[q] => p = q
    /\ \A i \in 1..k : \E p \in 1..k : f[p] = i
    /\ \A p, q \in 1..k : p <= q => t[q].sum <= t[p].sum

LEMMA DecreasingSorts ==
    ASSUME NEW n \in Nat, NEW k \in Nat, NEW sets \in [1..k -> RowSet(n)],
           \A i \in 1..k : Emptied(sets[i])
    PROVE  /\ Decreasing(sets) \in Seq(RowSet(n))
           /\ \E f : Sorts(f, sets, Decreasing(sets), k)
<1> DEFINE R == Heavier(sets, k)
           t == Decreasing(sets)
<1>1. t = Arranged(sets, R)
    <2>1. DOMAIN sets = 1..k
        OBVIOUS
    <2> QED BY <2>1 DEF Decreasing, SortedBy, Heavier
<1>2. Orders(R, 1..k)
    BY HeavierOrders
<1>3. Len(sets) = k
    BY FunctionIsSeq
<1> HIDE DEF R, t
<1>4. t \in Seq(RowSet(n)) /\ \E f : Arranges(f, sets, t, R)
    BY <1>1, <1>2, ArrangedIsArranged
<1>5. PICK f : Arranges(f, sets, t, R)
    BY <1>4
<1>6. /\ Len(t) = k /\ f \in [1..k -> 1..k]
      /\ \A p \in 1..k : t[p] = sets[f[p]]
      /\ \A p, q \in 1..k : p < q => <<f[p], f[q]>> \in R
      /\ \A p, q \in 1..k : f[p] = f[q] => p = q
      /\ \A i \in 1..k : \E p \in 1..k : f[p] = i
    BY <1>3, <1>5 DEF Arranges
<1>7. ASSUME NEW i \in 1..k, NEW j \in 1..k, <<i, j>> \in R
      PROVE  sets[j].sum <= sets[i].sum
    <2>1. \/ SmallerSet(sets[j], sets[i])
          \/ ~SmallerSet(sets[i], sets[j])
        BY <1>7 DEF R, Heavier
    <2> QED BY <2>1, SmallerIsLexicographic
<1>8. \A p, q \in 1..k : p <= q => t[q].sum <= t[p].sum
    <2> SUFFICES ASSUME NEW p \in 1..k, NEW q \in 1..k, p <= q PROVE t[q].sum <= t[p].sum
        OBVIOUS
    <2>1. f[p] \in 1..k /\ f[q] \in 1..k /\ t[p] = sets[f[p]] /\ t[q] = sets[f[q]]
        BY <1>6
    <2>2. sets[f[p]].sum \in Nat
        BY <2>1 DEF RowSet
    <2>3. CASE p = q
        BY <2>1, <2>2, <2>3
    <2>4. CASE p < q
        <3>1. <<f[p], f[q]>> \in R
            BY <1>6, <2>4
        <3>2. sets[f[q]].sum <= sets[f[p]].sum
            BY <1>7, <2>1, <3>1, Zenon
        <3> QED BY <2>1, <3>2
    <2> QED BY <2>3, <2>4
<1>9. Sorts(f, sets, t, k)
    BY <1>6, <1>8 DEF Sorts
<1> QED BY <1>4, <1>9 DEF t

-------------------------------------------------------------------------------
(* Tokens                                                                      *)

\* u counts the tokens of part from its first row on.
Counts(u, lens, part) ==
    u[0] = 0 /\ \A i \in 1..Len(part) : u[i] = u[i - 1] + lens[part[i]]

LEMMA TokensUnfolds ==
    ASSUME NEW n \in Nat, NEW lens \in [1..n -> Nat], NEW part \in Seq(1..n)
    PROVE  \E u \in [0..Len(part) -> Nat] :
               Counts(u, lens, part) /\ Tokens(lens, part) = u[Len(part)]
<1> DEFINE m == Len(part)
           Body(u, i) == IF i = 0 THEN 0 ELSE u[i - 1] + lens[part[i]]
           P(u) == u = [i \in 0..m |-> Body(u, i)]
           g == [p \in (1..m) \X Nat |-> p[2] + lens[part[p[1]]]]
           F == CHOOSE u : P(u)
<1>0. m \in Nat /\ \A i \in 1..m : lens[part[i]] \in Nat
    OBVIOUS
<1>1. g \in [(1..m) \X Nat -> Nat]
    <2> DEFINE l(i) == lens[part[i]]
    <2>1. \A i \in 1..m : l(i) \in Nat
        BY <1>0
    <2>2. g = [p \in (1..m) \X Nat |-> p[2] + l(p[1])]
        OBVIOUS
    <2> HIDE DEF l, g, m
    <2>3. \A p \in (1..m) \X Nat : p[2] + l(p[1]) \in Nat
        <3> TAKE p \in (1..m) \X Nat
        <3>1. p[1] \in 1..m /\ p[2] \in Nat
            OBVIOUS
        <3>2. l(p[1]) \in Nat
            BY <2>1, <3>1
        <3> QED BY <3>1, <3>2
    <2> QED BY <2>2, <2>3
<1>2. PICK u \in [0..m -> Nat] : Unfolds(u, m, 0, g)
    <2> HIDE DEF g
    <2> QED BY <1>0, <1>1, UnfoldingExists
<1>3. P(u)
    <2>1. ASSUME NEW i \in 0..m PROVE u[i] = Body(u, i)
        <3>1. CASE i = 0
            BY <3>1, <1>2 DEF Unfolds
        <3>2. CASE i # 0
            <4>1. i \in 1..m /\ i - 1 \in 0..m
                BY <3>2, <1>0
            <4>2. u[i] = g[<<i, u[i - 1]>>]
                BY <1>2, <4>1 DEF Unfolds
            <4> QED BY <3>2, <4>1, <4>2
        <3> QED BY <3>1, <3>2
    <2>2. u = [i \in 0..m |-> u[i]]
        OBVIOUS
    <2> HIDE DEF Body
    <2> QED BY <2>1, <2>2
<1>4. P(F)
    <2> HIDE DEF P
    <2> QED BY <1>3
<1>5. Tokens(lens, part) = F[m]
    BY DEF Tokens
<1>6. F[0] = 0 /\ \A i \in 1..m : F[i] = F[i - 1] + lens[part[i]]
    <2> HIDE DEF F
    <2>1. \A i \in 0..m : F[i] = Body(F, i)
        <3> HIDE DEF Body
        <3> QED BY <1>4
    <2>2. 0 \in 0..m /\ \A i \in 1..m : i \in 0..m /\ i # 0
        OBVIOUS
    <2> QED BY <2>1, <2>2, Zenon
<1>7. F \in [0..m -> Nat]
    <2> DEFINE T == {i \in Nat : i <= m => F[i] \in Nat}
    <2> HIDE DEF F
    <2>1. 0 \in T
        BY <1>6
    <2>2. ASSUME NEW i \in Nat, i \in T PROVE i + 1 \in T
        <3> SUFFICES ASSUME i + 1 <= m PROVE F[i + 1] \in Nat
            OBVIOUS
        <3>1. F[i] \in Nat /\ i + 1 \in 1..m /\ lens[part[i + 1]] \in Nat /\ (i + 1) - 1 = i
            BY <2>2, <1>0
        <3>2. F[i + 1] = F[i] + lens[part[i + 1]]
            BY <1>6, <3>1
        <3>3. \A x, y \in Nat : x + y \in Nat
            OBVIOUS
        <3> QED BY <3>1, <3>2, <3>3, Zenon
    <2>3. \A i \in Nat : i \in T
        <3> HIDE DEF T
        <3> QED BY <2>1, <2>2, InductionOnNat
    <2> HIDE DEF Body
    <2> QED BY <1>4, <2>3
<1> HIDE DEF F
<1> QED BY <1>5, <1>6, <1>7 DEF Counts

LEMMA TokensType ==
    ASSUME NEW n \in Nat, NEW lens \in [1..n -> Nat], NEW part \in Seq(1..n)
    PROVE  Tokens(lens, part) \in Nat
<1>1. PICK u \in [0..Len(part) -> Nat] : Tokens(lens, part) = u[Len(part)]
    BY TokensUnfolds, Zenon
<1>2. Len(part) \in 0..Len(part)
    OBVIOUS
<1> QED BY <1>1, <1>2

LEMMA TokensConcat ==
    ASSUME NEW n \in Nat, NEW lens \in [1..n -> Nat], NEW a \in Seq(1..n), NEW b \in Seq(1..n)
    PROVE  Tokens(lens, a \o b) = Tokens(lens, a) + Tokens(lens, b)
<1> DEFINE c == a \o b
           l == Len(a)
           m == Len(b)
<1>1. /\ c \in Seq(1..n) /\ Len(c) = l + m /\ l \in Nat /\ m \in Nat
      /\ \A i \in 1..l : c[i] = a[i]
      /\ \A i \in 1..m : c[l + i] = b[i] /\ b[i] \in 1..n
    OBVIOUS
<1>2. PICK u \in [0..l -> Nat] : Counts(u, lens, a) /\ Tokens(lens, a) = u[l]
    BY TokensUnfolds, Zenon
<1>3. PICK v \in [0..m -> Nat] : Counts(v, lens, b) /\ Tokens(lens, b) = v[m]
    BY TokensUnfolds, Zenon
<1> HIDE DEF c, l, m
<1>4. PICK w \in [0..(l + m) -> Nat] : Counts(w, lens, c) /\ Tokens(lens, c) = w[l + m]
    <2>1. \E w \in [0..Len(c) -> Nat] : Counts(w, lens, c) /\ Tokens(lens, c) = w[Len(c)]
        BY <1>1, TokensUnfolds, Zenon
    <2> QED BY <1>1, <2>1
<1>5. \A i \in Nat : i <= l => w[i] = u[i]
    <2> DEFINE T == {i \in Nat : i <= l => w[i] = u[i]}
    <2>1. 0 \in T
        BY <1>2, <1>4 DEF Counts
    <2>2. ASSUME NEW i \in Nat, i \in T PROVE i + 1 \in T
        <3> SUFFICES ASSUME i + 1 <= l PROVE w[i + 1] = u[i + 1]
            OBVIOUS
        <3>1. i + 1 \in 1..l /\ i + 1 \in 1..(l + m) /\ (i + 1) - 1 = i /\ w[i] = u[i]
            BY <1>1, <2>2
        <3>2. u[i + 1] = u[i] + lens[a[i + 1]]
            BY <1>2, <3>1 DEF Counts, l
        <3>3. w[i + 1] = w[i] + lens[c[i + 1]]
            BY <1>1, <1>4, <3>1 DEF Counts
        <3> QED BY <1>1, <3>1, <3>2, <3>3
    <2> HIDE DEF T
    <2>3. \A i \in Nat : i \in T
        BY <2>1, <2>2, InductionOnNat
    <2> QED BY <2>3 DEF T
<1>6. \A i \in Nat : i <= m => w[l + i] = u[l] + v[i]
    <2> DEFINE T == {i \in Nat : i <= m => w[l + i] = u[l] + v[i]}
    <2>1. 0 \in T
        BY <1>1, <1>3, <1>5 DEF Counts
    <2>2. ASSUME NEW i \in Nat, i \in T PROVE i + 1 \in T
        <3> SUFFICES ASSUME i + 1 <= m PROVE w[l + (i + 1)] = u[l] + v[i + 1]
            OBVIOUS
        <3>1. /\ i + 1 \in 1..m /\ l + (i + 1) \in 1..(l + m) /\ (i + 1) - 1 = i
              /\ (l + (i + 1)) - 1 = l + i /\ w[l + i] = u[l] + v[i]
            BY <1>1, <2>2
        <3>2. v[i + 1] = v[i] + lens[b[i + 1]]
            BY <1>3, <3>1 DEF Counts, m
        <3>3. w[l + (i + 1)] = w[l + i] + lens[c[l + (i + 1)]]
            BY <1>1, <1>4, <3>1 DEF Counts
        <3>4. c[l + (i + 1)] = b[i + 1]
            BY <1>1, <3>1
        <3>5. b[i + 1] \in 1..n /\ i \in 0..m /\ l \in 0..l
            BY <1>1, <3>1
        <3>6. lens[b[i + 1]] \in Nat /\ v[i] \in Nat /\ u[l] \in Nat
            BY <3>5
        <3> QED BY <3>1, <3>2, <3>3, <3>4, <3>6
    <2> HIDE DEF T
    <2>3. \A i \in Nat : i \in T
        BY <2>1, <2>2, InductionOnNat
    <2> QED BY <2>3 DEF T
<1>7. w[l + m] = u[l] + v[m]
    BY <1>1, <1>6
<1> QED BY <1>2, <1>3, <1>4, <1>7 DEF c

LEMMA TokensOfOne ==
    ASSUME NEW n \in Nat, NEW lens \in [1..n -> Nat], NEW r \in 1..n
    PROVE  Tokens(lens, <<r>>) = lens[r]
<1>1. <<r>> \in Seq(1..n) /\ Len(<<r>>) = 1 /\ <<r>>[1] = r
    OBVIOUS
<1>2. PICK u \in [0..1 -> Nat] : Counts(u, lens, <<r>>) /\ Tokens(lens, <<r>>) = u[1]
    <2>1. \E u \in [0..Len(<<r>>) -> Nat] :
              Counts(u, lens, <<r>>) /\ Tokens(lens, <<r>>) = u[Len(<<r>>)]
        BY <1>1, TokensUnfolds, Zenon
    <2> QED BY <1>1, <2>1
<1>3. 1 \in 1..1 /\ 1 - 1 = 0 /\ lens[r] \in Nat
    OBVIOUS
<1>4. u[1] = u[0] + lens[r] /\ u[0] = 0
    BY <1>1, <1>2, <1>3 DEF Counts
<1> QED BY <1>2, <1>3, <1>4

LEMMA TokensOfNone ==
    ASSUME NEW n \in Nat, NEW lens \in [1..n -> Nat], NEW part \in Seq(1..n), Len(part) = 0
    PROVE  Tokens(lens, part) = 0
<1>1. PICK u \in [0..Len(part) -> Nat] : Counts(u, lens, part) /\ Tokens(lens, part) = u[Len(part)]
    BY TokensUnfolds, Zenon
<1> QED BY <1>1 DEF Counts

LEMMA TokensOfAny ==
    ASSUME NEW n \in Nat, NEW lens \in [1..n -> Nat \ {0}], NEW part \in Seq(1..n), Len(part) # 0
    PROVE  Tokens(lens, part) > 0
<1>1. part # <<>>
    OBVIOUS
<1>2. PICK s \in Seq(1..n), r \in 1..n : part = Append(s, r)
    BY <1>1, SequenceEmptyOrAppend, Zenon
<1>3. part = s \o <<r>> /\ <<r>> \in Seq(1..n)
    BY <1>2
<1>4. lens \in [1..n -> Nat] /\ lens[r] > 0
    OBVIOUS
<1>5. Tokens(lens, part) = Tokens(lens, s) + Tokens(lens, <<r>>)
    BY <1>3, <1>4, TokensConcat
<1>6. Tokens(lens, s) \in Nat /\ Tokens(lens, <<r>>) = lens[r]
    BY <1>4, TokensType, TokensOfOne
<1> QED BY <1>4, <1>5, <1>6

-------------------------------------------------------------------------------
(* Lists without repetition                                                    *)

Elems(q) == {q[i] : i \in 1..Len(q)}
Distinct(q) == \A i, j \in 1..Len(q) : q[i] = q[j] => i = j
NoneShared(p, q) == Elems(p) \cap Elems(q) = {}

LEMMA ConcatDistinct ==
    ASSUME NEW S, NEW a \in Seq(S), NEW b \in Seq(S), Distinct(a), Distinct(b), NoneShared(a, b)
    PROVE  Distinct(a \o b)
<1> DEFINE c == a \o b
<1>3. /\ c \in Seq(S) /\ Len(c) = Len(a) + Len(b) /\ Len(a) \in Nat /\ Len(b) \in Nat
      /\ \A i \in 1..Len(a) : c[i] = a[i]
      /\ \A i \in 1..Len(b) : c[Len(a) + i] = b[i]
    OBVIOUS
<1> HIDE DEF c
<1>5. \A i \in 1..Len(c) : i \in 1..Len(a) \/ (i - Len(a) \in 1..Len(b) /\ Len(a) + (i - Len(a)) = i)
    BY <1>3
<1>7. Distinct(a) /\ Distinct(b)
    OBVIOUS
<1>8. \A i \in 1..Len(a), j \in 1..Len(b) : a[i] # b[j]
    BY DEF NoneShared, Elems
<1>10. Distinct(c)
    <2> SUFFICES ASSUME NEW i \in 1..Len(c), NEW j \in 1..Len(c), c[i] = c[j] PROVE i = j
        BY DEF Distinct
    <2>1. CASE i \in 1..Len(a) /\ j \in 1..Len(a)
        BY <1>3, <1>7, <2>1 DEF Distinct
    <2>2. CASE i \notin 1..Len(a) /\ j \notin 1..Len(a)
        <3>1. i - Len(a) \in 1..Len(b) /\ j - Len(a) \in 1..Len(b)
            BY <1>5, <2>2
        <3>2. b[i - Len(a)] = b[j - Len(a)]
            BY <1>3, <1>5, <3>1, <2>2
        <3>3. i - Len(a) = j - Len(a)
            BY <1>7, <3>1, <3>2 DEF Distinct
        <3> QED BY <1>3, <3>3
    <2>3. CASE i \in 1..Len(a) /\ j \notin 1..Len(a)
        <3>1. j - Len(a) \in 1..Len(b) /\ Len(a) + (j - Len(a)) = j
            BY <1>5, <2>3
        <3>2. c[j] = b[j - Len(a)] /\ c[i] = a[i]
            BY <1>3, <2>3, <3>1
        <3> QED BY <1>8, <2>3, <3>1, <3>2
    <2>4. CASE i \notin 1..Len(a) /\ j \in 1..Len(a)
        <3>1. i - Len(a) \in 1..Len(b) /\ Len(a) + (i - Len(a)) = i
            BY <1>5, <2>4
        <3>2. c[i] = b[i - Len(a)] /\ c[j] = a[j]
            BY <1>3, <2>4, <3>1
        <3> QED BY <1>8, <2>4, <3>1, <3>2
    <2> QED BY <2>1, <2>2, <2>3, <2>4
<1> QED BY <1>10 DEF c

LEMMA ConcatElems ==
    ASSUME NEW S, NEW a \in Seq(S), NEW b \in Seq(S)
    PROVE  \A x : x \in Elems(a \o b) <=> x \in Elems(a) \/ x \in Elems(b)
<1> DEFINE c == a \o b
<1>3. /\ c \in Seq(S) /\ Len(c) = Len(a) + Len(b) /\ Len(a) \in Nat /\ Len(b) \in Nat
      /\ \A i \in 1..Len(a) : c[i] = a[i]
      /\ \A i \in 1..Len(b) : c[Len(a) + i] = b[i]
    OBVIOUS
<1> HIDE DEF c
<1>5. \A i \in 1..Len(c) : i \in 1..Len(a) \/ (i - Len(a) \in 1..Len(b) /\ Len(a) + (i - Len(a)) = i)
    BY <1>3
<1>9. {c[i] : i \in 1..Len(c)} = {a[i] : i \in 1..Len(a)} \cup {b[i] : i \in 1..Len(b)}
    <2>1. ASSUME NEW i \in 1..Len(c)
          PROVE  c[i] \in {a[j] : j \in 1..Len(a)} \cup {b[j] : j \in 1..Len(b)}
        BY <1>3, <1>5
    <2>2. ASSUME NEW i \in 1..Len(a) PROVE a[i] \in {c[j] : j \in 1..Len(c)}
        <3>1. i \in 1..Len(c)
            BY <1>3
        <3> QED BY <1>3, <3>1
    <2>3. ASSUME NEW i \in 1..Len(b) PROVE b[i] \in {c[j] : j \in 1..Len(c)}
        <3>1. Len(a) + i \in 1..Len(c)
            BY <1>3
        <3> QED BY <1>3, <3>1
    <2> QED BY <2>1, <2>2, <2>3
<1> QED BY <1>9 DEF c, Elems

-------------------------------------------------------------------------------
(* States                                                                      *)

RowsOf(x) == Elems(x.items)
RowsIn(s, k) == UNION {RowsOf(s[i]) : i \in 1..k}

WellMade(x, n, lens) ==
    x \in RowSet(n) /\ x.sum = Tokens(lens, x.items) /\ Distinct(x.items)

\* Every part has as many rows, or: there is a row in every part, or none has two.
Shape(s, k, equalSize) ==
    IF equalSize THEN \A i, j \in 1..k : Len(s[i].items) = Len(s[j].items)
    ELSE \/ \A i \in 1..k : Len(s[i].items) # 0
         \/ \A i \in 1..k : Len(s[i].items) <= 1

\* Rows are dealt to k parts, none twice, and no part has more than width tokens
\* more than another.
Dealt(s, n, lens, k, width, equalSize) ==
    /\ s \in [1..k -> RowSet(n)]
    /\ \A i \in 1..k : WellMade(s[i], n, lens)
    /\ \A i, j \in 1..k : i # j => RowsOf(s[i]) \cap RowsOf(s[j]) = {}
    /\ \A i, j \in 1..k : s[i].sum <= s[j].sum + width
    /\ \E i \in 1..k : Len(s[i].items) # 0
    /\ Shape(s, k, equalSize)

HeaviestFirst(s, k) == \A i, j \in 1..k : i <= j => s[j].sum <= s[i].sum

Apart(x, y) == RowsOf(x) \cap RowsOf(y) = {}

\* z is what x and y become together.
Unites(z, x, y, n, lens) ==
    /\ WellMade(z, n, lens)
    /\ z.sum = x.sum + y.sum
    /\ Len(z.items) = Len(x.items) + Len(y.items)
    /\ RowsOf(z) = RowsOf(x) \cup RowsOf(y)

StateOf(s, n, lens, k, width, equalSize) ==
    Dealt(s, n, lens, k, width, equalSize) /\ HeaviestFirst(s, k)

\* t has the same rows as s.
SameRows(t, s, k) == RowsIn(t, k) = RowsIn(s, k)

LEMMA MergedIsWellMade ==
    ASSUME NEW n \in Nat, NEW lens, lens \in [1..n -> Nat \ {0}],
           NEW x, WellMade(x, n, lens), NEW y, WellMade(y, n, lens), Apart(x, y)
    PROVE  Unites(Merged(x, y), x, y, n, lens)
<1>l. lens \in [1..n -> Nat]
    OBVIOUS
<1> DEFINE a == x.items
           b == y.items
           c == a \o b
<1>1. a \in Seq(1..n) /\ b \in Seq(1..n) /\ x.sum \in Nat /\ y.sum \in Nat
    BY DEF WellMade, RowSet
<1>2. Merged(x, y).items = c /\ Merged(x, y).sum = x.sum + y.sum
      /\ Merged(x, y) = [sum |-> x.sum + y.sum, items |-> c]
    BY DEF Merged
<1>3. /\ c \in Seq(1..n) /\ Len(c) = Len(a) + Len(b) /\ Len(a) \in Nat /\ Len(b) \in Nat
      /\ \A i \in 1..Len(a) : c[i] = a[i]
      /\ \A i \in 1..Len(b) : c[Len(a) + i] = b[i]
    <2> HIDE DEF a, b
    <2> QED BY <1>1
<1>4. Tokens(lens, c) = Tokens(lens, a) + Tokens(lens, b)
    <2> HIDE DEF a, b
    <2> QED BY <1>1, <1>l, TokensConcat
<1>6. RowsOf(Merged(x, y)) = RowsOf(x) \cup RowsOf(y)
    <2> HIDE DEF a, b
    <2>1. \A r : r \in Elems(c) <=> r \in Elems(a) \/ r \in Elems(b)
        BY <1>1, ConcatElems, Zenon
    <2>2. RowsOf(x) = Elems(a) /\ RowsOf(y) = Elems(b) /\ RowsOf(Merged(x, y)) = Elems(c)
        BY <1>2 DEF RowsOf, a, b
    <2> QED BY <2>1, <2>2
<1>10. Distinct(c)
    <2>1. Distinct(a) /\ Distinct(b) /\ NoneShared(a, b)
        BY DEF WellMade, Apart, RowsOf, NoneShared
    <2> HIDE DEF a, b
    <2> QED BY <1>1, <2>1, ConcatDistinct, Zenon
<1> HIDE DEF a, b, c
<1>11. WellMade(Merged(x, y), n, lens)
    <2>1. x.sum + y.sum = Tokens(lens, c)
        BY <1>4 DEF WellMade, a, b
    <2>2. x.sum + y.sum \in Nat
        BY <1>1
    <2> QED BY <1>2, <1>3, <1>10, <2>1, <2>2 DEF WellMade, RowSet
<1> QED BY <1>2, <1>3, <1>6, <1>11 DEF a, b, Unites

LEMMA WellMadeFacts ==
    ASSUME NEW n \in Nat, NEW lens \in [1..n -> Nat \ {0}], NEW x, WellMade(x, n, lens)
    PROVE  /\ Emptied(x) /\ x.sum \in Nat /\ Len(x.items) \in Nat
           /\ Len(x.items) # 0 <=> x.sum # 0
<1>1. x.items \in Seq(1..n) /\ lens \in [1..n -> Nat] /\ x.sum = Tokens(lens, x.items)
    BY DEF WellMade, RowSet
<1>2. Len(x.items) = 0 => x.sum = 0
    BY <1>1, TokensOfNone
<1>3. Len(x.items) # 0 => x.sum > 0
    BY <1>1, TokensOfAny
<1>4. x.sum \in Nat /\ Len(x.items) \in Nat
    BY <1>1, TokensType
<1> QED BY <1>2, <1>3, <1>4 DEF Emptied

\* Sorting a state's sets leaves it what it is.
LEMMA SortingKeepsDealt ==
    ASSUME NEW n \in Nat, NEW lens, lens \in [1..n -> Nat \ {0}], NEW k \in Nat,
           NEW width, NEW equalSize, equalSize \in BOOLEAN,
           NEW s, Dealt(s, n, lens, k, width, equalSize)
    PROVE  /\ StateOf(Decreasing(s), n, lens, k, width, equalSize)
           /\ SameRows(Decreasing(s), s, k)
<1> DEFINE t == Decreasing(s)
<1>1. s \in [1..k -> RowSet(n)] /\ \A i \in 1..k : Emptied(s[i])
    BY WellMadeFacts DEF Dealt
<1>2. t \in Seq(RowSet(n)) /\ \E f : Sorts(f, s, t, k)
    BY <1>1, DecreasingSorts
<1> HIDE DEF t
<1>3. PICK f : Sorts(f, s, t, k)
    BY <1>2
<1>4. /\ Len(t) = k /\ f \in [1..k -> 1..k]
      /\ \A p \in 1..k : t[p] = s[f[p]] /\ f[p] \in 1..k
      /\ \A p, q \in 1..k : f[p] = f[q] => p = q
      /\ \A i \in 1..k : \E p \in 1..k : f[p] = i
    BY <1>3 DEF Sorts
<1>5. t \in [1..k -> RowSet(n)]
    BY <1>2, <1>4
<1>6. HeaviestFirst(t, k)
    BY <1>3 DEF Sorts, HeaviestFirst
<1>7. RowsIn(t, k) = RowsIn(s, k)
    <2>1. \A p \in 1..k : RowsOf(t[p]) = RowsOf(s[f[p]])
        BY <1>4
    <2>2. \A x : x \in RowsIn(t, k) <=> \E p \in 1..k : x \in RowsOf(t[p])
        BY DEF RowsIn
    <2>3. \A x : x \in RowsIn(s, k) <=> \E i \in 1..k : x \in RowsOf(s[i])
        BY DEF RowsIn
    <2>4. ASSUME NEW x \in RowsIn(t, k) PROVE x \in RowsIn(s, k)
        <3>1. PICK p \in 1..k : x \in RowsOf(t[p])
            BY <2>2
        <3>2. x \in RowsOf(s[f[p]]) /\ f[p] \in 1..k
            BY <1>4, <2>1, <3>1
        <3> QED BY <2>3, <3>2
    <2>5. ASSUME NEW x \in RowsIn(s, k) PROVE x \in RowsIn(t, k)
        <3>1. PICK i \in 1..k : x \in RowsOf(s[i])
            BY <2>3
        <3>2. PICK p \in 1..k : f[p] = i
            BY <1>4
        <3>3. x \in RowsOf(t[p])
            BY <2>1, <3>1, <3>2
        <3> QED BY <2>2, <3>3
    <2> QED BY <2>4, <2>5
<1>8. \A i \in 1..k : WellMade(t[i], n, lens)
    BY <1>4 DEF Dealt
<1>9. \A i, j \in 1..k : i # j => RowsOf(t[i]) \cap RowsOf(t[j]) = {}
    <2> TAKE i, j \in 1..k
    <2> HAVE i # j
    <2>1. f[i] \in 1..k /\ f[j] \in 1..k /\ f[i] # f[j]
        BY <1>4
    <2>2. RowsOf(s[f[i]]) \cap RowsOf(s[f[j]]) = {}
        BY <2>1 DEF Dealt
    <2> QED BY <1>4, <2>2
<1>10. \A i, j \in 1..k : t[i].sum <= t[j].sum + width
    <2> TAKE i, j \in 1..k
    <2>1. t[i] = s[f[i]] /\ t[j] = s[f[j]] /\ f[i] \in 1..k /\ f[j] \in 1..k
        BY <1>4
    <2>2. s[f[i]].sum <= s[f[j]].sum + width
        BY <2>1 DEF Dealt
    <2> QED BY <2>1, <2>2
<1>11. \E i \in 1..k : Len(t[i].items) # 0
    <2>1. PICK i \in 1..k : Len(s[i].items) # 0
        BY DEF Dealt
    <2>2. PICK p \in 1..k : f[p] = i
        BY <1>4
    <2> QED BY <1>4, <2>1, <2>2
<1>12. Shape(t, k, equalSize)
    <2>1. Shape(s, k, equalSize)
        BY DEF Dealt
    <2>2. \A p \in 1..k : Len(t[p].items) = Len(s[f[p]].items) /\ f[p] \in 1..k
        BY <1>4
    <2>3. CASE equalSize
        <3>1. \A i, j \in 1..k : Len(s[i].items) = Len(s[j].items)
            BY <2>1, <2>3 DEF Shape
        <3>2. \A i, j \in 1..k : Len(t[i].items) = Len(t[j].items)
            <4> TAKE i, j \in 1..k
            <4>1. Len(s[f[i]].items) = Len(s[f[j]].items)
                BY <2>2, <3>1
            <4> QED BY <2>2, <4>1
        <3> QED BY <2>3, <3>2 DEF Shape
    <2>4. CASE ~equalSize /\ \A i \in 1..k : Len(s[i].items) # 0
        <3>1. \A i \in 1..k : Len(t[i].items) # 0
            BY <2>2, <2>4
        <3> QED BY <2>4, <3>1 DEF Shape
    <2>5. CASE ~equalSize /\ \A i \in 1..k : Len(s[i].items) <= 1
        <3>1. \A i \in 1..k : Len(t[i].items) <= 1
            BY <2>2, <2>5
        <3> QED BY <2>5, <3>1 DEF Shape
    <2> QED BY <2>1, <2>3, <2>4, <2>5 DEF Shape
<1>13. Dealt(t, n, lens, k, width, equalSize)
    BY <1>5, <1>8, <1>9, <1>10, <1>11, <1>12 DEF Dealt
<1> QED BY <1>4, <1>6, <1>7, <1>13 DEF t, StateOf, SameRows

\* The sets of s merged with those of t from the last to the first.
Crossed(s, t, k) == [i \in 1..k |-> Merged(s[i], t[k + 1 - i])]

LEMMA CrossingDeals ==
    ASSUME NEW n \in Nat, NEW lens \in [1..n -> Nat \ {0}], NEW k \in Nat,
           NEW width \in Int, NEW equalSize \in BOOLEAN,
           NEW s, Dealt(s, n, lens, k, width, equalSize), HeaviestFirst(s, k),
           NEW t, Dealt(t, n, lens, k, width, equalSize), HeaviestFirst(t, k),
           RowsIn(s, k) \cap RowsIn(t, k) = {}
    PROVE  /\ Dealt(Crossed(s, t, k), n, lens, k, width, equalSize)
           /\ RowsIn(Crossed(s, t, k), k) = RowsIn(s, k) \cup RowsIn(t, k)
<1> DEFINE u == Crossed(s, t, k)
<1>1. \A i \in 1..k : k + 1 - i \in 1..k /\ k + 1 - (k + 1 - i) = i
    OBVIOUS
<1>2. \A i \in 1..k : u[i] = Merged(s[i], t[k + 1 - i])
    BY DEF Crossed
<1>3. \A i, j \in 1..k : RowsOf(s[i]) \cap RowsOf(t[j]) = {}
    BY DEF RowsIn
<1>4. \A i \in 1..k : WellMade(s[i], n, lens) /\ WellMade(t[i], n, lens)
    BY DEF Dealt
<1>5. \A i \in 1..k :
          /\ WellMade(u[i], n, lens)
          /\ u[i].sum = s[i].sum + t[k + 1 - i].sum
          /\ Len(u[i].items) = Len(s[i].items) + Len(t[k + 1 - i].items)
          /\ RowsOf(u[i]) = RowsOf(s[i]) \cup RowsOf(t[k + 1 - i])
    <2> TAKE i \in 1..k
    <2> HIDE DEF u
    <2> DEFINE x == s[i]
               y == t[k + 1 - i]
    <2>2. WellMade(x, n, lens) /\ WellMade(y, n, lens) /\ Apart(x, y)
        BY <1>1, <1>3, <1>4 DEF Apart
    <2> HIDE DEF x, y
    <2>3. Unites(Merged(x, y), x, y, n, lens)
        BY <2>2, MergedIsWellMade, Zenon
    <2>4. u[i] = Merged(x, y)
        BY <1>2 DEF x, y
    <2> QED BY <2>3, <2>4 DEF x, y, Unites
<1>6. u \in [1..k -> RowSet(n)]
    <2>1. \A i \in 1..k : Merged(s[i], t[k + 1 - i]) \in RowSet(n)
        BY <1>2, <1>5 DEF WellMade
    <2> QED BY <2>1 DEF Crossed
<1> HIDE DEF u
<1>7. \A i \in 1..k :
          /\ s[i].sum \in Nat /\ Len(s[i].items) \in Nat
          /\ Len(s[i].items) # 0 <=> s[i].sum # 0
          /\ t[i].sum \in Nat /\ Len(t[i].items) \in Nat
          /\ Len(t[i].items) # 0 <=> t[i].sum # 0
    BY <1>4, WellMadeFacts
<1>l. \A i \in 1..k :
          /\ Len(s[i].items) # 0 => Len(u[i].items) # 0
          /\ Len(t[k + 1 - i].items) # 0 => Len(u[i].items) # 0
          /\ Len(s[i].items) <= 1 /\ Len(t[k + 1 - i].items) <= 1
              /\ (Len(s[i].items) = 0 \/ Len(t[k + 1 - i].items) = 0)
                  => Len(u[i].items) <= 1
    <2> TAKE i \in 1..k
    <2>1. Len(s[i].items) \in Nat /\ Len(t[k + 1 - i].items) \in Nat
        BY <1>1, <1>7
    <2>2. Len(u[i].items) = Len(s[i].items) + Len(t[k + 1 - i].items)
        BY <1>5
    <2>3. \A a, b \in Nat :
              /\ a # 0 => a + b # 0
              /\ b # 0 => a + b # 0
              /\ a <= 1 /\ b <= 1 /\ (a = 0 \/ b = 0) => a + b <= 1
        OBVIOUS
    <2> QED BY <2>1, <2>2, <2>3, Zenon
<1>8. RowsIn(u, k) = RowsIn(s, k) \cup RowsIn(t, k)
    <2>1. ASSUME NEW i \in 1..k PROVE RowsOf(u[i]) \subseteq RowsIn(s, k) \cup RowsIn(t, k)
        <3>1. RowsOf(u[i]) = RowsOf(s[i]) \cup RowsOf(t[k + 1 - i]) /\ k + 1 - i \in 1..k
            BY <1>1, <1>5
        <3> QED BY <3>1, Zenon DEF RowsIn
    <2>2. ASSUME NEW i \in 1..k PROVE RowsOf(s[i]) \subseteq RowsIn(u, k)
        BY <1>5 DEF RowsIn
    <2>3. ASSUME NEW i \in 1..k PROVE RowsOf(t[i]) \subseteq RowsIn(u, k)
        <3>1. RowsOf(t[i]) \subseteq RowsOf(u[k + 1 - i])
            BY <1>1, <1>5
        <3> QED BY <1>1, <3>1 DEF RowsIn
    <2>4. RowsIn(u, k) \subseteq RowsIn(s, k) \cup RowsIn(t, k)
        <3> SUFFICES ASSUME NEW r \in RowsIn(u, k) PROVE r \in RowsIn(s, k) \cup RowsIn(t, k)
            OBVIOUS
        <3>1. PICK i \in 1..k : r \in RowsOf(u[i])
            BY DEF RowsIn
        <3> QED BY <2>1, <3>1
    <2>5. RowsIn(s, k) \subseteq RowsIn(u, k)
        <3> SUFFICES ASSUME NEW r \in RowsIn(s, k) PROVE r \in RowsIn(u, k)
            OBVIOUS
        <3>1. PICK i \in 1..k : r \in RowsOf(s[i])
            BY DEF RowsIn
        <3> QED BY <2>2, <3>1
    <2>6. RowsIn(t, k) \subseteq RowsIn(u, k)
        <3> SUFFICES ASSUME NEW r \in RowsIn(t, k) PROVE r \in RowsIn(u, k)
            OBVIOUS
        <3>1. PICK i \in 1..k : r \in RowsOf(t[i])
            BY DEF RowsIn
        <3> QED BY <2>3, <3>1
    <2> QED BY <2>4, <2>5, <2>6
<1>9. \A i, j \in 1..k : i # j => RowsOf(u[i]) \cap RowsOf(u[j]) = {}
    <2> SUFFICES ASSUME NEW i \in 1..k, NEW j \in 1..k, i # j PROVE RowsOf(u[i]) \cap RowsOf(u[j]) = {}
        OBVIOUS
    <2>1. k + 1 - i # k + 1 - j
        OBVIOUS
    <2>2. RowsOf(s[i]) \cap RowsOf(s[j]) = {}
        BY DEF Dealt
    <2>3. RowsOf(t[k + 1 - i]) \cap RowsOf(t[k + 1 - j]) = {}
        BY <1>1, <2>1 DEF Dealt
    <2>4. RowsOf(s[i]) \cap RowsOf(t[k + 1 - j]) = {} /\ RowsOf(s[j]) \cap RowsOf(t[k + 1 - i]) = {}
        BY <1>1, <1>3
    <2> QED BY <1>5, <2>2, <2>3, <2>4
<1>10. \A i, j \in 1..k : u[i].sum <= u[j].sum + width
    <2> SUFFICES ASSUME NEW i \in 1..k, NEW j \in 1..k PROVE u[i].sum <= u[j].sum + width
        OBVIOUS
    <2> DEFINE p == k + 1 - i
               q == k + 1 - j
    <2>1. p \in 1..k /\ q \in 1..k /\ (i <= j => q <= p) /\ (j <= i => p <= q)
        OBVIOUS
    <2>2. u[i].sum = s[i].sum + t[p].sum /\ u[j].sum = s[j].sum + t[q].sum
        BY <1>5
    <2> HIDE DEF p, q
    <2>3. {s[i].sum, s[j].sum, t[p].sum, t[q].sum} \subseteq Int
        BY <1>7, <2>1
    <2>4. s[i].sum <= s[j].sum + width /\ t[p].sum <= t[q].sum + width
        BY <2>1 DEF Dealt
    <2>5. CASE i <= j
        <3>1. t[p].sum <= t[q].sum
            BY <2>1, <2>5 DEF HeaviestFirst
        <3>2. \A a, b, c, d \in Int : a <= b + width /\ c <= d => a + c <= b + d + width
            OBVIOUS
        <3>3. s[i].sum + t[p].sum <= s[j].sum + t[q].sum + width
            BY <2>3, <2>4, <3>1, <3>2
        <3> QED BY <2>2, <3>3
    <2>6. CASE j <= i
        <3>1. s[i].sum <= s[j].sum
            BY <2>1, <2>6 DEF HeaviestFirst
        <3>2. \A a, b, c, d \in Int : a <= b /\ c <= d + width => a + c <= b + d + width
            OBVIOUS
        <3>3. s[i].sum + t[p].sum <= s[j].sum + t[q].sum + width
            BY <2>3, <2>4, <3>1, <3>2
        <3> QED BY <2>2, <3>3
    <2> QED BY <2>5, <2>6
<1>11. \E i \in 1..k : Len(u[i].items) # 0
    <2>1. PICK i \in 1..k : Len(s[i].items) # 0
        BY DEF Dealt
    <2>2. Len(u[i].items) # 0
        BY <1>l, <2>1
    <2> QED BY <2>2
<1>12. Shape(u, k, equalSize)
    <2>1. CASE equalSize
        <3>1. ASSUME NEW i \in 1..k, NEW j \in 1..k PROVE Len(u[i].items) = Len(u[j].items)
            <4>1. Len(s[i].items) = Len(s[j].items)
                BY <2>1 DEF Dealt, Shape
            <4>2. Len(t[k + 1 - i].items) = Len(t[k + 1 - j].items)
                BY <1>1, <2>1 DEF Dealt, Shape
            <4> QED BY <1>5, <4>1, <4>2
        <3> QED BY <2>1, <3>1 DEF Shape
    <2>2. CASE ~equalSize /\ \A i \in 1..k : Len(s[i].items) # 0
        <3>1. \A i \in 1..k : Len(u[i].items) # 0
            BY <1>l, <2>2
        <3> QED BY <2>2, <3>1 DEF Shape
    <2>3. CASE ~equalSize /\ \A i \in 1..k : Len(t[i].items) # 0
        <3>1. \A i \in 1..k : Len(u[i].items) # 0
            BY <1>1, <1>l, <2>3
        <3> QED BY <2>3, <3>1 DEF Shape
    <2>4. CASE /\ ~equalSize
               /\ \A i \in 1..k : Len(s[i].items) <= 1 /\ Len(t[i].items) <= 1
        <3>1. CASE \E i \in 1..k : Len(s[i].items) # 0 /\ Len(t[k + 1 - i].items) # 0
            <4>1. PICK i \in 1..k : Len(s[i].items) # 0 /\ Len(t[k + 1 - i].items) # 0
                BY <3>1
            <4>2. ASSUME NEW j \in 1..k PROVE Len(u[j].items) # 0
                <5>1. CASE j <= i
                    <6>1. s[i].sum <= s[j].sum /\ s[i].sum # 0
                        BY <1>7, <4>1, <5>1 DEF HeaviestFirst
                    <6>2. Len(s[j].items) # 0
                        BY <1>7, <6>1
                    <6> QED BY <1>l, <6>2
                <5>2. CASE i <= j
                    <6>1. k + 1 - j <= k + 1 - i
                        BY <5>2
                    <6>2. t[k + 1 - i].sum <= t[k + 1 - j].sum /\ t[k + 1 - i].sum # 0
                        BY <1>1, <1>7, <4>1, <6>1 DEF HeaviestFirst
                    <6>3. Len(t[k + 1 - j].items) # 0
                        BY <1>1, <1>7, <6>2
                    <6> QED BY <1>l, <6>3
                <5> QED BY <5>1, <5>2
            <4> QED BY <2>4, <4>2 DEF Shape
        <3>2. CASE \A i \in 1..k : Len(s[i].items) = 0 \/ Len(t[k + 1 - i].items) = 0
            <4>1. \A i \in 1..k : Len(u[i].items) <= 1
                BY <1>1, <1>l, <2>4, <3>2
            <4> QED BY <2>4, <4>1 DEF Shape
        <3> QED BY <3>1, <3>2
    <2> QED BY <2>1, <2>2, <2>3, <2>4 DEF Dealt, Shape
<1>13. Dealt(u, n, lens, k, width, equalSize)
    BY <1>5, <1>6, <1>9, <1>10, <1>11, <1>12 DEF Dealt
<1> QED BY <1>8, <1>13 DEF u

Separate(s, t, k) == RowsIn(s, k) \cap RowsIn(t, k) = {}

LEMMA MergeStatesDeals ==
    ASSUME NEW n \in Nat, NEW lens, lens \in [1..n -> Nat \ {0}], NEW k \in Nat,
           NEW width \in Int, NEW equalSize \in BOOLEAN,
           NEW s, StateOf(s, n, lens, k, width, equalSize),
           NEW t, StateOf(t, n, lens, k, width, equalSize), Separate(s, t, k)
    PROVE  /\ StateOf(MergeStates(s, t), n, lens, k, width, equalSize)
           /\ RowsIn(MergeStates(s, t), k) = RowsIn(s, k) \cup RowsIn(t, k)
<1> DEFINE u == Crossed(s, t, k)
<1>1. DOMAIN s = 1..k /\ Len(s) = k
    BY FunctionIsSeq DEF StateOf, Dealt
<1>2. Dealt(u, n, lens, k, width, equalSize) /\ RowsIn(u, k) = RowsIn(s, k) \cup RowsIn(t, k)
    BY CrossingDeals DEF StateOf, Separate
<1>3. AsList([i \in DOMAIN s |-> Merged(s[i], t[Len(s) + 1 - i])]) = u
    <2>1. [i \in DOMAIN s |-> Merged(s[i], t[Len(s) + 1 - i])] = u
        BY <1>1 DEF Crossed
    <2> HIDE DEF u
    <2>2. u \in Seq(RowSet(n))
        BY <1>2, FunctionIsSeq DEF Dealt
    <2> QED BY <2>1, <2>2, AsListIsList
<1> HIDE DEF u
<1>4. MergeStates(s, t) = Decreasing(u)
    BY <1>3 DEF MergeStates
<1>5. StateOf(Decreasing(u), n, lens, k, width, equalSize) /\ SameRows(Decreasing(u), u, k)
    BY <1>2, SortingKeepsDealt, Zenon
<1> QED BY <1>2, <1>4, <1>5 DEF SameRows

-------------------------------------------------------------------------------
(* The heap                                                                    *)

EarlierPairs(H) == {p \in H \X H : Earlier(p[1], p[2])}

LEMMA HeaviestHasRows ==
    ASSUME NEW n \in Nat, NEW lens, lens \in [1..n -> Nat \ {0}], NEW k \in Nat \ {0},
           NEW width, NEW equalSize, NEW s, StateOf(s, n, lens, k, width, equalSize)
    PROVE  /\ Len(s[1].items) # 0 /\ First(s[1]) \in RowsIn(s, k)
           /\ s[1] \in RowSet(n) /\ Emptied(s[1])
           /\ Spread(s) \in Int
<1>1. PICK i \in 1..k : Len(s[i].items) # 0
    BY DEF StateOf, Dealt
<1>2. \A j \in 1..k : WellMade(s[j], n, lens)
    BY DEF StateOf, Dealt
<1>3. \A j \in 1..k : /\ Emptied(s[j]) /\ s[j].sum \in Nat /\ Len(s[j].items) \in Nat
                      /\ Len(s[j].items) # 0 <=> s[j].sum # 0
    BY <1>2, WellMadeFacts
<1>4. 1 \in 1..k /\ 1 <= i /\ k \in 1..k
    OBVIOUS
<1>5. s[i].sum <= s[1].sum
    BY <1>4 DEF StateOf, HeaviestFirst
<1>6. Len(s[1].items) # 0
    BY <1>1, <1>3, <1>4, <1>5
<1>7. First(s[1]) \in RowsOf(s[1])
    <2>1. 1 \in 1..Len(s[1].items)
        BY <1>3, <1>4, <1>6
    <2> QED BY <1>6, <2>1 DEF First, RowsOf, Elems
<1>8. Spread(s) \in Int
    <2>1. Len(s) = k
        BY FunctionIsSeq DEF StateOf, Dealt
    <2> QED BY <1>3, <1>4, <2>1 DEF Spread
<1> QED BY <1>2, <1>3, <1>4, <1>6, <1>7, <1>8 DEF RowsIn, WellMade

LEMMA EarlierOrders ==
    ASSUME NEW n \in Nat, NEW lens, lens \in [1..n -> Nat \ {0}], NEW k \in Nat \ {0},
           NEW width, NEW equalSize, NEW H,
           \A s \in H : StateOf(s, n, lens, k, width, equalSize),
           \A s, t \in H : s # t => Separate(s, t, k)
    PROVE  Orders(EarlierPairs(H), H)
<1> DEFINE d(s) == Spread(s)
           a(s) == s[1].sum
           b(s) == Len(s[1].items)
           c(s) == First(s[1])
           Lex(s, t) == \/ d(t) < d(s)
                        \/ d(s) = d(t) /\ a(t) < a(s)
                        \/ d(s) = d(t) /\ a(s) = a(t) /\ b(t) < b(s)
                        \/ d(s) = d(t) /\ a(s) = a(t) /\ b(s) = b(t) /\ c(t) < c(s)
<1>1. \A s \in H : s[1] \in RowSet(n) /\ Emptied(s[1]) /\ d(s) \in Int
    BY HeaviestHasRows
<1>2. \A s \in H : a(s) \in Int /\ b(s) \in Int /\ c(s) \in Int
    BY <1>1, SmallerIsLexicographic
<1>3. \A s, t \in H : Earlier(s, t) <=> Lex(s, t)
    <2> TAKE s, t \in H
    <2>1. SmallerSet(t[1], s[1]) <=>
              \/ a(t) < a(s)
              \/ a(t) = a(s) /\ b(t) < b(s)
              \/ a(t) = a(s) /\ b(t) = b(s) /\ c(t) < c(s)
        BY <1>1, SmallerIsLexicographic
    <2> HIDE DEF a, b, c
    <2>2. d(s) \in Int /\ d(t) \in Int /\ (d(s) > d(t) <=> d(t) < d(s))
        BY <1>1
    <2> QED BY <2>1, <2>2 DEF Earlier
<1>4. \A s, t \in H : s # t => c(s) # c(t)
    BY HeaviestHasRows DEF Separate
<1> HIDE DEF a, b, c, d
<1>5. \A s, t, r \in H :
          /\ ~Lex(s, s)
          /\ c(s) # c(t) => Lex(s, t) \/ Lex(t, s)
          /\ Lex(s, t) /\ Lex(t, r) => Lex(s, r)
    <2> TAKE s, t, r \in H
    <2>1. /\ {a(s), a(t), a(r)} \subseteq Int /\ {b(s), b(t), b(r)} \subseteq Int
          /\ {c(s), c(t), c(r)} \subseteq Int /\ {d(s), d(t), d(r)} \subseteq Int
        BY <1>1, <1>2
    <2> QED BY <2>1
<1> HIDE DEF Lex
<1>6. \A s, t \in H : <<s, t>> \in EarlierPairs(H) <=> Lex(s, t)
    BY <1>3 DEF EarlierPairs
<1> QED BY <1>4, <1>5, <1>6 DEF Orders

LEMMA PoppedIsThere ==
    ASSUME NEW n \in Nat, NEW lens, lens \in [1..n -> Nat \ {0}], NEW k \in Nat \ {0},
           NEW width, NEW equalSize, NEW H, IsFiniteSet(H), H # {},
           \A s \in H : StateOf(s, n, lens, k, width, equalSize),
           \A s, t \in H : s # t => Separate(s, t, k)
    PROVE  Popped(H) \in H
<1>1. Orders(EarlierPairs(H), H)
    BY EarlierOrders
<1>2. \E s \in H : \A t \in H \ {s} : <<s, t>> \in EarlierPairs(H)
    BY <1>1, LeastOfFinite
<1>3. \E s \in H : \A t \in H \ {s} : Earlier(s, t)
    BY <1>2 DEF EarlierPairs
<1> QED BY <1>3 DEF Popped

\* m states that deal the rows from 1 to n among them.
HeapOf(H, m, n, lens, k, width, equalSize) ==
    /\ IsFiniteSet(H) /\ Cardinality(H) = m
    /\ \A s \in H : StateOf(s, n, lens, k, width, equalSize)
    /\ \A s, t \in H : s # t => Separate(s, t, k)
    /\ UNION {RowsIn(s, k) : s \in H} = 1..n

LEMMA MergingKeepsHeap ==
    ASSUME NEW n \in Nat, NEW lens, lens \in [1..n -> Nat \ {0}], NEW k \in Nat \ {0},
           NEW width \in Int, NEW equalSize \in BOOLEAN, NEW m \in Nat, m >= 2,
           NEW H, HeapOf(H, m, n, lens, k, width, equalSize)
    PROVE  HeapOf(MergeFirstTwo(H), m - 1, n, lens, k, width, equalSize)
<1> DEFINE s == Popped(H)
           G == H \ {s}
           t == Popped(G)
           F == H \ {s, t}
           u == MergeStates(s, t)
           N == F \cup {u}
<1>1. /\ IsFiniteSet(H) /\ Cardinality(H) = m
      /\ \A x \in H : StateOf(x, n, lens, k, width, equalSize)
      /\ \A x, y \in H : x # y => Separate(x, y, k)
      /\ UNION {RowsIn(x, k) : x \in H} = 1..n
    BY DEF HeapOf
<1>2. H # {}
    BY <1>1, FS_EmptySet
<1>3. s \in H
    BY <1>1, <1>2, PoppedIsThere, Zenon
<1> HIDE DEF s
<1>4. IsFiniteSet(G) /\ Cardinality(G) = m - 1
    BY <1>1, <1>3, FS_RemoveElement
<1>5. G # {}
    BY <1>4, FS_EmptySet
<1>6. t \in G
    <2>1. /\ \A x \in G : StateOf(x, n, lens, k, width, equalSize)
          /\ \A x, y \in G : x # y => Separate(x, y, k)
        BY <1>1
    <2> HIDE DEF G
    <2> QED BY <1>4, <1>5, <2>1, PoppedIsThere, Zenon
<1> HIDE DEF t
<1>7. F = G \ {t} /\ t \in H /\ t # s
    BY <1>6
<1>8. IsFiniteSet(F) /\ Cardinality(F) = m - 2
    <2> HIDE DEF F, G
    <2>1. IsFiniteSet(G \ {t}) /\ Cardinality(G \ {t}) = (m - 1) - 1
        BY <1>4, <1>6, FS_RemoveElement
    <2> QED BY <1>7, <2>1
<1>9. StateOf(s, n, lens, k, width, equalSize) /\ StateOf(t, n, lens, k, width, equalSize)
      /\ Separate(s, t, k)
    BY <1>1, <1>3, <1>7
<1>10. StateOf(u, n, lens, k, width, equalSize) /\ RowsIn(u, k) = RowsIn(s, k) \cup RowsIn(t, k)
    BY <1>9, MergeStatesDeals
<1> HIDE DEF u
<1>11. ASSUME NEW x \in F PROVE Separate(x, u, k) /\ Separate(u, x, k) /\ x # u
    <2>1. x \in H /\ x # s /\ x # t
        OBVIOUS
    <2>2. Separate(x, s, k) /\ Separate(x, t, k)
        BY <1>1, <1>3, <1>7, <2>1
    <2>3. RowsIn(x, k) \cap RowsIn(u, k) = {}
        BY <1>10, <2>2 DEF Separate
    <2>4. RowsIn(x, k) # {}
        BY <1>1, <2>1, HeaviestHasRows
    <2> QED BY <2>3, <2>4 DEF Separate
<1>12. IsFiniteSet(N) /\ Cardinality(N) = m - 1
    <2>1. u \notin F
        BY <1>11
    <2> HIDE DEF F
    <2>2. IsFiniteSet(N) /\ Cardinality(N) = Cardinality(F) + 1
        BY <1>8, <2>1, FS_AddElement
    <2> QED BY <1>8, <2>2
<1>13. \A x \in N : StateOf(x, n, lens, k, width, equalSize)
    BY <1>1, <1>10
<1>14. \A x, y \in N : x # y => Separate(x, y, k)
    <2> TAKE x, y \in N
    <2> HAVE x # y
    <2>1. CASE x \in F /\ y \in F
        BY <1>1, <2>1
    <2>2. CASE x = u \/ y = u
        BY <1>11, <2>2
    <2> QED BY <2>1, <2>2
<1>15. UNION {RowsIn(x, k) : x \in N} = 1..n
    <2>1. ASSUME NEW r \in 1..n PROVE \E x \in N : r \in RowsIn(x, k)
        <3>1. PICK x \in H : r \in RowsIn(x, k)
            BY <1>1
        <3>2. CASE x \in {s, t}
            BY <1>10, <3>1, <3>2
        <3> QED BY <3>1, <3>2
    <2>2. ASSUME NEW x \in N, NEW r \in RowsIn(x, k) PROVE r \in 1..n
        <3>1. \E y \in H : r \in RowsIn(y, k)
            BY <1>3, <1>7, <1>10, <2>2
        <3> QED BY <1>1, <3>1
    <2> HIDE DEF N
    <2> QED BY <2>1, <2>2
<1>16. MergeFirstTwo(H) = N
    BY DEF MergeFirstTwo, s, t, u
<1> HIDE DEF N
<1> QED BY <1>12, <1>13, <1>14, <1>15, <1>16 DEF HeapOf

-------------------------------------------------------------------------------
(* The first heap                                                              *)

OneRowIn(lens, r, k) == [i \in 1..k |-> IF i = 1 THEN OneRow(lens, r) ELSE NoRows]

LEMMA SingleRow ==
    ASSUME NEW n \in Nat, NEW lens, lens \in [1..n -> Nat \ {0}], NEW r \in 1..n
    PROVE  /\ WellMade(OneRow(lens, r), n, lens) /\ WellMade(NoRows, n, lens)
           /\ OneRow(lens, r).sum = lens[r] /\ Len(OneRow(lens, r).items) = 1
           /\ RowsOf(OneRow(lens, r)) = {r}
           /\ NoRows.sum = 0 /\ Len(NoRows.items) = 0 /\ RowsOf(NoRows) = {}
<1>1. lens \in [1..n -> Nat] /\ lens[r] \in Nat
    OBVIOUS
<1>2. Tokens(lens, <<r>>) = lens[r]
    BY <1>1, TokensOfOne
<1>3. <<>> \in Seq(1..n) /\ Len(<<>>) = 0
    OBVIOUS
<1>4. Tokens(lens, <<>>) = 0
    BY <1>1, <1>3, TokensOfNone
<1>5. OneRow(lens, r) \in RowSet(n) /\ NoRows \in RowSet(n)
    BY <1>1 DEF OneRow, NoRows, RowSet
<1>6. WellMade(OneRow(lens, r), n, lens)
    BY <1>2, <1>5 DEF WellMade, OneRow, Distinct
<1>7. WellMade(NoRows, n, lens)
    BY <1>4, <1>5 DEF WellMade, NoRows, Distinct
<1> QED BY <1>6, <1>7 DEF OneRow, NoRows, RowsOf, Elems

NoneLonger(lens, n, width) == \A r \in 1..n : lens[r] <= width

\* A state that deals the rows R.
Deals(s, R, n, lens, k, width, equalSize) ==
    StateOf(s, n, lens, k, width, equalSize) /\ RowsIn(s, k) = R

LEMMA OneRowIsState ==
    ASSUME NEW n \in Nat, NEW lens, lens \in [1..n -> Nat \ {0}], NEW k \in Nat \ {0},
           NEW width \in Int, NoneLonger(lens, n, width), NEW r \in 1..n,
           NEW equalSize \in BOOLEAN, ~equalSize
    PROVE  Deals(OneRowIn(lens, r, k), {r}, n, lens, k, width, equalSize)
<1> DEFINE s == OneRowIn(lens, r, k)
<1>1. /\ 1 \in 1..k /\ s[1] = OneRow(lens, r) /\ \A i \in 1..k : i # 1 => s[i] = NoRows
      /\ lens[r] \in Nat /\ lens[r] <= width
    BY DEF OneRowIn, NoneLonger
<1>2. s \in [1..k -> RowSet(n)]
    BY SingleRow DEF OneRowIn, WellMade
<1> HIDE DEF s
<1>3. /\ s[1].sum = lens[r] /\ Len(s[1].items) = 1 /\ RowsOf(s[1]) = {r}
      /\ \A i \in 1..k : i # 1 => s[i].sum = 0 /\ Len(s[i].items) = 0 /\ RowsOf(s[i]) = {}
      /\ \A i \in 1..k : WellMade(s[i], n, lens)
    <2>1. /\ WellMade(OneRow(lens, r), n, lens) /\ WellMade(NoRows, n, lens)
          /\ OneRow(lens, r).sum = lens[r] /\ Len(OneRow(lens, r).items) = 1
          /\ RowsOf(OneRow(lens, r)) = {r}
          /\ NoRows.sum = 0 /\ Len(NoRows.items) = 0 /\ RowsOf(NoRows) = {}
        BY SingleRow
    <2> QED BY <1>1, <2>1, Zenon
<1>4. HeaviestFirst(s, k)
    <2> SUFFICES ASSUME NEW i \in 1..k, NEW j \in 1..k, i <= j PROVE s[j].sum <= s[i].sum
        BY DEF HeaviestFirst
    <2>1. CASE i = 1 /\ j = 1
        BY <1>1, <1>3, <2>1
    <2>2. CASE j # 1
        BY <1>1, <1>3, <2>2
    <2> QED BY <2>1, <2>2
<1>5. \A i, j \in 1..k : s[i].sum <= s[j].sum + width
    <2> TAKE i, j \in 1..k
    <2>1. s[i].sum \in {0, lens[r]} /\ s[j].sum \in {0, lens[r]}
        BY <1>3
    <2> QED BY <1>1, <2>1
<1>i. \A i \in 1..k : i = 1 \/ i # 1
    OBVIOUS
<1>6. Shape(s, k, equalSize)
    <2>1. \A i \in 1..k : Len(s[i].items) = 1 \/ Len(s[i].items) = 0
        BY <1>i, <1>3, Zenon
    <2>2. 1 <= 1 /\ 0 <= 1
        OBVIOUS
    <2>3. \A i \in 1..k : Len(s[i].items) <= 1
        BY <2>1, <2>2, Zenon
    <2> QED BY <2>3, Zenon DEF Shape
<1>7. RowsIn(s, k) = {r}
    <2>1. \A i \in 1..k : RowsOf(s[i]) = {r} \/ RowsOf(s[i]) = {}
        BY <1>i, <1>3, Zenon
    <2>2. \A q : (\E i \in 1..k : q \in RowsOf(s[i])) <=> q = r
        BY <1>1, <1>3, <2>1
    <2>3. \A q : q \in RowsIn(s, k) <=> (\E i \in 1..k : q \in RowsOf(s[i]))
        BY DEF RowsIn
    <2> QED BY <2>2, <2>3
<1>8. \A i, j \in 1..k : i # j => RowsOf(s[i]) \cap RowsOf(s[j]) = {}
    <2> TAKE i, j \in 1..k
    <2> HAVE i # j
    <2>1. RowsOf(s[i]) = {} \/ RowsOf(s[j]) = {}
        BY <1>3
    <2> QED BY <2>1
<1>9. \E i \in 1..k : Len(s[i].items) # 0
    <2>1. 1 \in 1..k /\ Len(s[1].items) # 0
        BY <1>1, <1>3
    <2> QED BY <2>1
<1> QED BY <1>2, <1>3, <1>4, <1>5, <1>6, <1>7, <1>8, <1>9 DEF StateOf, Dealt, s, Deals

LEMMA FirstHeapOfRows ==
    ASSUME NEW n \in Nat, NEW lens, lens \in [1..n -> Nat \ {0}], NEW k \in Nat \ {0},
           NEW width \in Int, NoneLonger(lens, n, width), NEW equalSize \in BOOLEAN, ~equalSize
    PROVE  HeapOf(Heap(lens, k, equalSize), n, n, lens, k, width, equalSize)
<1> DEFINE H == {OneRowIn(lens, r, k) : r \in 1..n}
           f == [r \in 1..n |-> OneRowIn(lens, r, k)]
<1>1. Heap(lens, k, equalSize) = H
    BY DEF Heap, OneRowIn
<1>2. \A r \in 1..n : /\ StateOf(OneRowIn(lens, r, k), n, lens, k, width, equalSize)
                      /\ RowsIn(OneRowIn(lens, r, k), k) = {r}
    <2> TAKE r \in 1..n
    <2>1. Deals(OneRowIn(lens, r, k), {r}, n, lens, k, width, equalSize)
        BY OneRowIsState, Zenon
    <2> QED BY <2>1 DEF Deals
<1>3. IsFiniteSet(H) /\ Cardinality(H) = n
    <2>1. IsFiniteSet(1..n) /\ Cardinality(1..n) = n
        BY FS_Interval
    <2>2. f \in Surjection(1..n, H)
        BY DEF Surjection
    <2>3. f \in Injection(1..n, H)
        <3>1. \A r, q \in 1..n : OneRowIn(lens, r, k) = OneRowIn(lens, q, k) => {r} = {q}
            BY <1>2
        <3>2. \A r, q \in 1..n : f[r] = f[q] => r = q
            BY <3>1
        <3>3. f \in [1..n -> H]
            OBVIOUS
        <3> HIDE DEF f, H
        <3> QED BY <3>2, <3>3 DEF Injection, IsInjective
    <2> HIDE DEF f, H
    <2>4. ExistsBijection(1..n, H)
        BY <2>2, <2>3 DEF Bijection, ExistsBijection
    <2> QED BY <2>1, <2>4, FS_Bijection
<1>4. \A s, t \in H : s # t => Separate(s, t, k)
    <2> TAKE s, t \in H
    <2>1. PICK r \in 1..n : s = OneRowIn(lens, r, k)
        OBVIOUS
    <2>2. PICK q \in 1..n : t = OneRowIn(lens, q, k)
        OBVIOUS
    <2>3. RowsIn(s, k) = {r} /\ RowsIn(t, k) = {q}
        BY <1>2, <2>1, <2>2
    <2> QED BY <2>1, <2>2, <2>3 DEF Separate
<1>5. UNION {RowsIn(s, k) : s \in H} = 1..n
    <2>1. \A r \in 1..n : OneRowIn(lens, r, k) \in H /\ r \in RowsIn(OneRowIn(lens, r, k), k)
        BY <1>2
    <2>2. \A s \in H : \A r \in RowsIn(s, k) : r \in 1..n
        BY <1>2
    <2> HIDE DEF H
    <2> QED BY <2>1, <2>2
<1> QED BY <1>1, <1>2, <1>3, <1>4, <1>5 DEF HeapOf

\* p is a permutation of the rows.
Permutes(p, n) ==
    /\ p \in [1..n -> 1..n] /\ Len(p) = n
    /\ \A i, j \in 1..n : p[i] = p[j] => i = j
    /\ \A r \in 1..n : \E i \in 1..n : p[i] = r

\* What Heap calls byLength.
ByLength(lens) ==
    SortedBy([i \in DOMAIN lens |-> i],
             LAMBDA i, j : lens[i] < lens[j] \/ (lens[i] = lens[j] /\ i < j))

LEMMA ByLengthPermutes ==
    ASSUME NEW n \in Nat, NEW lens, lens \in [1..n -> Nat \ {0}]
    PROVE  Permutes(ByLength(lens), n)
<1> DEFINE s == [i \in 1..n |-> i]
           Before(i, j) == lens[i] < lens[j] \/ (lens[i] = lens[j] /\ i < j)
           R == {p \in (1..n) \X (1..n) :
                    \/ Before(s[p[1]], s[p[2]])
                    \/ ~Before(s[p[2]], s[p[1]]) /\ p[1] < p[2]}
           t == ByLength(lens)
<1>1. t = Arranged(s, R)
    <2>1. DOMAIN lens = 1..n /\ DOMAIN s = 1..n
        OBVIOUS
    <2> QED BY <2>1, Zenon DEF ByLength, SortedBy
<1>2. \A i, j \in 1..n : <<i, j>> \in R <=> Before(i, j)
    <2> TAKE i, j \in 1..n
    <2>1. s[i] = i /\ s[j] = j
        OBVIOUS
    <2>2. lens[i] \in Nat /\ lens[j] \in Nat
        OBVIOUS
    <2>3. ~Before(j, i) /\ i < j => Before(i, j)
        BY <2>2
    <2>4. <<i, j>> \in R <=> Before(s[i], s[j]) \/ (~Before(s[j], s[i]) /\ i < j)
        <3>1. <<i, j>> \in (1..n) \X (1..n) /\ <<i, j>>[1] = i /\ <<i, j>>[2] = j
            OBVIOUS
        <3> HIDE DEF s
        <3> QED BY <3>1
    <2>5. <<i, j>> \in R <=> Before(i, j) \/ (~Before(j, i) /\ i < j)
        <3> HIDE DEF R, s
        <3> HIDE DEF Before
        <3> QED BY <2>1, <2>4
    <2> HIDE DEF R, s, Before
    <2> QED BY <2>3, <2>5
<1>3. Orders(R, 1..n)
    <2>1. \A i, j, l \in 1..n :
              /\ ~Before(i, i)
              /\ i # j => Before(i, j) \/ Before(j, i)
              /\ Before(i, j) /\ Before(j, l) => Before(i, l)
        <3> TAKE i, j, l \in 1..n
        <3>1. lens[i] \in Nat /\ lens[j] \in Nat /\ lens[l] \in Nat
            OBVIOUS
        <3> QED BY <3>1
    <2> HIDE DEF Before, R
    <2> QED BY <1>2, <2>1 DEF Orders
<1>4. s \in [1..n -> 1..n] /\ Len(s) = n /\ \A i \in 1..n : s[i] = i
    OBVIOUS
<1> HIDE DEF s, R, t
<1>5. t \in Seq(1..n) /\ \E f : Arranges(f, s, t, R)
    BY <1>1, <1>3, <1>4, ArrangedIsArranged
<1>6. PICK f : Arranges(f, s, t, R)
    BY <1>5
<1>7. /\ Len(t) = n /\ DOMAIN t = 1..n /\ f \in [1..n -> 1..n]
      /\ \A p \in 1..n : t[p] = s[f[p]]
      /\ \A p, q \in 1..n : f[p] = f[q] => p = q
      /\ \A i \in 1..n : \E p \in 1..n : f[p] = i
    BY <1>4, <1>6 DEF Arranges
<1>8. \A p \in 1..n : t[p] = f[p] /\ f[p] \in 1..n
    BY <1>4, <1>7
<1>9. t \in [1..n -> 1..n]
    BY <1>5, <1>7, LenProperties
<1>10. \A i, j \in 1..n : t[i] = t[j] => i = j
    BY <1>7, <1>8
<1>11. \A r \in 1..n : \E i \in 1..n : t[i] = r
    BY <1>7, <1>8
<1> QED BY <1>7, <1>9, <1>10, <1>11 DEF Permutes, t

\* The numbers from 1 to q times k, k at a time.
CutInGroups(k, q, n) ==
    /\ \A g \in 0..(q - 1), i \in 1..k : g * k + i \in 1..n
    /\ \A g, h \in 0..(q - 1), i, j \in 1..k : g * k + i = h * k + j => g = h /\ i = j
    /\ \A r \in 1..n : \E g \in 0..(q - 1), i \in 1..k : r = g * k + i

LEMMA InGroups ==
    ASSUME NEW k \in Nat \ {0}, NEW q \in Nat, NEW n, n = q * k
    PROVE  CutInGroups(k, q, n)
<1>1. ASSUME NEW g \in 0..(q - 1), NEW i \in 1..k PROVE g * k + i \in 1..(q * k)
    <2>1. g \in Nat /\ (q - 1) - g \in Nat
        OBVIOUS
    <2>2. g * k \in Nat /\ ((q - 1) - g) * k \in Nat
        BY <2>1
    <2>3. q * k = g * k + ((q - 1) - g) * k + k
        BY <2>1
    <2> QED BY <2>2, <2>3
<1>2. ASSUME NEW g \in 0..(q - 1), NEW h \in 0..(q - 1), g < h, NEW i \in 1..k, NEW j \in 1..k
      PROVE  g * k + i # h * k + j
    <2>1. h - (g + 1) \in Nat /\ g \in Nat
        BY <1>2
    <2>2. (h - (g + 1)) * k \in Nat /\ g * k \in Nat
        BY <2>1
    <2>3. h * k = g * k + (h - (g + 1)) * k + k
        BY <2>1
    <2> QED BY <2>2, <2>3
<1>3. ASSUME NEW g \in 0..(q - 1), NEW h \in 0..(q - 1), NEW i \in 1..k, NEW j \in 1..k,
             g * k + i = h * k + j
      PROVE  g = h /\ i = j
    <2>1. g * k \in Int /\ h * k \in Int
        OBVIOUS
    <2>2. ~(g < h) /\ ~(h < g)
        BY <1>2, <1>3
    <2>3. g = h
        BY <2>2
    <2> QED BY <1>3, <2>1, <2>3
<1>4. ASSUME NEW r \in 1..(q * k) PROVE \E g \in 0..(q - 1), i \in 1..k : r = g * k + i
    <2> DEFINE g == (r - 1) \div k
               i == r - g * k
    <2>1. q * k \in Nat /\ r \in Nat /\ r >= 1 /\ r <= q * k
        OBVIOUS
    <2>2. r - 1 \in Nat
        BY <2>1
    <2>3. g \in Int /\ k * g <= r - 1 /\ r - 1 < k * g + k
        BY <2>2
    <2> HIDE DEF g
    <2>4. g * k = k * g /\ k * g \in Int
        BY <2>3
    <2>5. i \in 1..k /\ r = g * k + i
        BY <2>1, <2>3, <2>4
    <2> HIDE DEF i
    <2>6. g >= 0
        <3> SUFFICES ASSUME g <= 0 - 1 PROVE FALSE
            BY <2>3
        <3>1. (0 - 1) - g \in Nat
            BY <2>3
        <3>2. ((0 - 1) - g) * k \in Nat
            BY <3>1
        <3>3. g * k = 0 - k - ((0 - 1) - g) * k
            BY <2>3
        <3> QED BY <2>1, <2>3, <2>4, <3>2, <3>3
    <2>7. g <= q - 1
        <3> SUFFICES ASSUME g >= q PROVE FALSE
            BY <2>3
        <3>1. g - q \in Nat
            BY <2>3
        <3>2. (g - q) * k \in Nat
            BY <3>1
        <3>3. g * k = q * k + (g - q) * k
            BY <2>3
        <3> QED BY <2>1, <2>3, <2>4, <3>2, <3>3
    <2>8. g \in 0..(q - 1)
        BY <2>3, <2>6, <2>7
    <2> QED BY <2>5, <2>8
<1> QED BY <1>1, <1>3, <1>4 DEF CutInGroups

LEMMA QuotientIs ==
    ASSUME NEW k \in Nat \ {0}, NEW q \in Nat, NEW n \in Nat, n = q * k
    PROVE  n \div k = q
<1> DEFINE d == n \div k
<1>1. d \in Int /\ k * d <= n /\ n < k * d + k
    OBVIOUS
<1> HIDE DEF d
<1>2. k * d \in Int /\ k * d <= q * k /\ q * k < k * d + k
    BY <1>1
<1>3. ~(d >= q + 1)
    <2> SUFFICES ASSUME d >= q + 1 PROVE FALSE
        OBVIOUS
    <2>1. d - (q + 1) \in Nat
        BY <1>1
    <2>2. k * (d - (q + 1)) \in Nat
        BY <2>1
    <2>3. k * d = q * k + k + k * (d - (q + 1))
        BY <1>1
    <2> QED BY <1>2, <2>2, <2>3
<1>4. ~(q >= d + 1)
    <2> SUFFICES ASSUME q >= d + 1 PROVE FALSE
        OBVIOUS
    <2>1. q - (d + 1) \in Nat
        BY <1>1
    <2>2. k * (q - (d + 1)) \in Nat
        BY <2>1
    <2>3. q * k = k * d + k + k * (q - (d + 1))
        BY <1>1
    <2> QED BY <1>2, <2>2, <2>3
<1> QED BY <1>1, <1>3, <1>4 DEF d

\* The g-th k rows of the permutation p, one to a part.
RowsOfGroup(lens, p, g, k) == [i \in 1..k |-> OneRow(lens, p[g * k + i])]

HasGroup(s, p, g, k) == RowsIn(s, k) = {p[g * k + i] : i \in 1..k}

LEMMA RowsOfGroupDealt ==
    ASSUME NEW k \in Nat \ {0}, NEW q \in Nat, NEW n \in Nat, n = q * k,
           NEW lens, lens \in [1..n -> Nat \ {0}],
           NEW width \in Int, NoneLonger(lens, n, width), NEW equalSize \in BOOLEAN, equalSize,
           NEW p, Permutes(p, n), NEW g \in 0..(q - 1)
    PROVE  /\ Dealt(RowsOfGroup(lens, p, g, k), n, lens, k, width, equalSize)
           /\ HasGroup(RowsOfGroup(lens, p, g, k), p, g, k)
<1> DEFINE s == RowsOfGroup(lens, p, g, k)
           r(i) == p[g * k + i]
<1>1. \A i, j \in 1..k : g * k + i \in 1..n /\ (g * k + i = g * k + j => i = j)
    <2> TAKE i, j \in 1..k
    <2>1. g * k \in Int
        OBVIOUS
    <2> QED BY <2>1, InGroups DEF CutInGroups
<1>2. \A i, j \in 1..k : r(i) \in 1..n /\ (r(i) = r(j) => i = j)
    BY <1>1 DEF Permutes
<1>3. \A i \in 1..k : s[i] = OneRow(lens, r(i))
    BY DEF RowsOfGroup
<1> HIDE DEF r
<1>4. \A i \in 1..k : /\ WellMade(s[i], n, lens)
                      /\ s[i].sum = lens[r(i)] /\ Len(s[i].items) = 1
                      /\ RowsOf(s[i]) = {r(i)}
    <2> TAKE i \in 1..k
    <2>1. r(i) \in 1..n /\ s[i] = OneRow(lens, r(i))
        BY <1>2, <1>3
    <2>2. /\ WellMade(OneRow(lens, r(i)), n, lens)
          /\ OneRow(lens, r(i)).sum = lens[r(i)] /\ Len(OneRow(lens, r(i)).items) = 1
          /\ RowsOf(OneRow(lens, r(i))) = {r(i)}
        <3> DEFINE y == r(i)
        <3>1. y \in 1..n
            BY <2>1
        <3> HIDE DEF y
        <3>2. /\ WellMade(OneRow(lens, y), n, lens)
              /\ OneRow(lens, y).sum = lens[y] /\ Len(OneRow(lens, y).items) = 1
              /\ RowsOf(OneRow(lens, y)) = {y}
            BY <3>1, SingleRow
        <3> QED BY <3>2 DEF y
    <2> HIDE DEF s
    <2> QED BY <2>1, <2>2, Zenon
<1>5. s \in [1..k -> RowSet(n)]
    <2>1. \A i \in 1..k : OneRow(lens, r(i)) \in RowSet(n)
        BY <1>3, <1>4 DEF WellMade
    <2>2. s = [i \in 1..k |-> OneRow(lens, r(i))]
        BY DEF RowsOfGroup, r
    <2> HIDE DEF s
    <2> QED BY <2>1, <2>2
<1> HIDE DEF s
<1>6. \A i, j \in 1..k : i # j => RowsOf(s[i]) \cap RowsOf(s[j]) = {}
    <2> TAKE i, j \in 1..k
    <2>1. i # j => r(i) # r(j)
        BY <1>2
    <2> QED BY <1>4, <2>1
<1>7. \A i, j \in 1..k : s[i].sum <= s[j].sum + width
    <2> TAKE i, j \in 1..k
    <2>1. /\ s[i].sum = lens[r(i)] /\ s[j].sum = lens[r(j)]
          /\ lens[r(i)] <= width /\ lens[r(i)] \in Nat /\ lens[r(j)] \in Nat
        BY <1>2, <1>4 DEF NoneLonger
    <2> QED BY <2>1
<1>8. 1 \in 1..k /\ Len(s[1].items) # 0
    <2>1. 1 \in 1..k
        OBVIOUS
    <2>2. Len(s[1].items) = 1
        BY <1>4, <2>1
    <2> QED BY <2>1, <2>2
<1>9. Shape(s, k, equalSize)
    <2>1. \A i, j \in 1..k : Len(s[i].items) = Len(s[j].items)
        <3> TAKE i, j \in 1..k
        <3>1. Len(s[i].items) = 1 /\ Len(s[j].items) = 1
            BY <1>4
        <3> QED BY <3>1
    <2> QED BY <2>1 DEF Shape
<1>10. RowsIn(s, k) = {r(i) : i \in 1..k}
    <2>1. \A x : x \in RowsIn(s, k) <=> \E i \in 1..k : x \in RowsOf(s[i])
        BY DEF RowsIn
    <2>2. \A i \in 1..k : RowsOf(s[i]) = {r(i)}
        BY <1>4
    <2>3. \A x : x \in RowsIn(s, k) <=> \E i \in 1..k : x = r(i)
        <3> TAKE x
        <3>1. \A i \in 1..k : x \in RowsOf(s[i]) <=> x = r(i)
            BY <2>2
        <3> QED BY <2>1, <3>1, Zenon
    <2> QED BY <2>3
<1>11. Dealt(s, n, lens, k, width, equalSize)
    BY <1>4, <1>5, <1>6, <1>7, <1>8, <1>9 DEF Dealt
<1> QED BY <1>10, <1>11 DEF s, r, HasGroup

LEMMA FirstHeapOfGroups ==
    ASSUME NEW k \in Nat \ {0}, NEW q \in Nat, NEW n \in Nat, n = q * k,
           NEW lens, lens \in [1..n -> Nat \ {0}],
           NEW width \in Int, NoneLonger(lens, n, width), NEW equalSize \in BOOLEAN, equalSize
    PROVE  HeapOf(Heap(lens, k, equalSize), q, n, lens, k, width, equalSize)
<1> DEFINE p == ByLength(lens)
           D(g) == Decreasing(RowsOfGroup(lens, p, g, k))
           G == 0..(q - 1)
           H == {D(g) : g \in G}
           f == [g \in G |-> D(g)]
           Of(g) == {p[g * k + i] : i \in 1..k}
<1>g. /\ \A g, h \in G, i, j \in 1..k : g * k + i = h * k + j => g = h
      /\ \A r \in 1..n : \E g \in G, i \in 1..k : r = g * k + i
    <2>1. CutInGroups(k, q, n)
        BY InGroups, Zenon
    <2>2. \A g, h \in G, i, j \in 1..k : g * k + i = h * k + j => g = h
        BY <2>1, Zenon DEF CutInGroups
    <2>3. \A r \in 1..n : \E g \in G, i \in 1..k : r = g * k + i
        BY <2>1, Zenon DEF CutInGroups
    <2> QED BY <2>2, <2>3
<1>1. Permutes(p, n)
    BY ByLengthPermutes
<1> HIDE DEF p
<1>2. n \div k = q /\ Len(lens) = n
    <2>1. Len(lens) = n
        BY FunctionIsSeq
    <2>2. n \div k = q
        BY QuotientIs
    <2> QED BY <2>1, <2>2
<1>3. Heap(lens, k, equalSize) = H
    BY <1>2 DEF Heap, RowsOfGroup, p, ByLength
<1>4. \A g \in G : StateOf(D(g), n, lens, k, width, equalSize) /\ RowsIn(D(g), k) = Of(g)
    <2> TAKE g \in G
    <2> DEFINE s == RowsOfGroup(lens, p, g, k)
    <2>1. Dealt(s, n, lens, k, width, equalSize) /\ HasGroup(s, p, g, k)
        BY <1>1, RowsOfGroupDealt, Zenon
    <2> HIDE DEF s
    <2>2. StateOf(Decreasing(s), n, lens, k, width, equalSize) /\ SameRows(Decreasing(s), s, k)
        BY <2>1, SortingKeepsDealt, Zenon
    <2> QED BY <2>1, <2>2 DEF SameRows, HasGroup, s
<1>5. \A g, h \in G : g # h => Of(g) \cap Of(h) = {}
    <2> SUFFICES ASSUME NEW g \in G, NEW h \in G, g # h, NEW i \in 1..k, NEW j \in 1..k,
                        p[g * k + i] = p[h * k + j]
                 PROVE  FALSE
        OBVIOUS
    <2>1. g * k + i \in 1..n /\ h * k + j \in 1..n
        BY InGroups DEF CutInGroups
    <2>2. g * k + i = h * k + j
        BY <1>1, <2>1 DEF Permutes
    <2>3. g = h
        BY <1>g, <2>2
    <2> QED BY <2>3
<1>6. \A g \in G : p[g * k + 1] \in Of(g)
    OBVIOUS
<1>7. \A r \in 1..n : \E g \in G : r \in Of(g)
    <2> TAKE r \in 1..n
    <2>1. PICK l \in 1..n : p[l] = r
        BY <1>1 DEF Permutes
    <2>2. \E g \in G, i \in 1..k : l = g * k + i
        BY <1>g
    <2> QED BY <2>1, <2>2
<1>8. \A g \in G : Of(g) \in SUBSET (1..n)
    <2> TAKE g \in G
    <2>1. \A i \in 1..k : g * k + i \in 1..n
        BY InGroups DEF CutInGroups
    <2>2. \A i \in 1..k : p[g * k + i] \in 1..n
        BY <1>1, <2>1 DEF Permutes
    <2> QED BY <2>2, Zenon
<1> HIDE DEF D, Of
<1>9. IsFiniteSet(H) /\ Cardinality(H) = q
    <2>1. IsFiniteSet(G) /\ Cardinality(G) = q
        BY FS_Interval
    <2>2. f \in Surjection(G, H)
        BY DEF Surjection
    <2>3. f \in Injection(G, H)
        <3>1. \A g, h \in G : D(g) = D(h) => g = h
            <4> TAKE g, h \in G
            <4> HAVE D(g) = D(h)
            <4>1. Of(g) = Of(h)
                BY <1>4
            <4> QED BY <1>5, <1>6, <4>1
        <3>2. \A g, h \in G : f[g] = f[h] => g = h
            BY <3>1
        <3>3. f \in [G -> H]
            OBVIOUS
        <3> HIDE DEF f, H
        <3> QED BY <3>2, <3>3 DEF Injection, IsInjective
    <2> HIDE DEF f, H, G
    <2>4. ExistsBijection(G, H)
        BY <2>2, <2>3 DEF Bijection, ExistsBijection
    <2> QED BY <2>1, <2>4, FS_Bijection
<1>10. \A s, t \in H : s # t => Separate(s, t, k)
    <2> TAKE s, t \in H
    <2> HAVE s # t
    <2>1. PICK g \in G : s = D(g)
        OBVIOUS
    <2>2. PICK h \in G : t = D(h)
        OBVIOUS
    <2>3. g # h
        BY <2>1, <2>2
    <2>4. Of(g) \cap Of(h) = {}
        BY <1>5, <2>3
    <2>5. RowsIn(s, k) = Of(g) /\ RowsIn(t, k) = Of(h)
        BY <1>4, <2>1, <2>2
    <2> QED BY <2>4, <2>5 DEF Separate
<1>11. UNION {RowsIn(s, k) : s \in H} = 1..n
    <2>1. \A r \in 1..n : \E s \in H : r \in RowsIn(s, k)
        <3> TAKE r \in 1..n
        <3>1. PICK g \in G : r \in Of(g)
            BY <1>7
        <3>2. D(g) \in H /\ r \in RowsIn(D(g), k)
            BY <1>4, <3>1
        <3> QED BY <3>2
    <2>2. \A s \in H : \A r \in RowsIn(s, k) : r \in 1..n
        BY <1>4, <1>8
    <2> HIDE DEF H
    <2> QED BY <2>1, <2>2
<1>12. \A s \in H : StateOf(s, n, lens, k, width, equalSize)
    BY <1>4
<1> HIDE DEF H
<1> QED BY <1>3, <1>9, <1>10, <1>11, <1>12 DEF HeapOf

-------------------------------------------------------------------------------
(* The largest differencing method                                             *)

\* The recursion of KarmarkarKarp, up to m merges.
Merges(f, m, lens, k, equalSize) ==
    f = [i \in 0..m |-> IF i = 0 THEN Heap(lens, k, equalSize) ELSE MergeFirstTwo(f[i - 1])]

LEMMA MergesKeepHeap ==
    ASSUME NEW n \in Nat, NEW lens, lens \in [1..n -> Nat \ {0}], NEW k \in Nat \ {0},
           NEW width \in Int, NEW equalSize \in BOOLEAN, NEW m \in Nat,
           HeapOf(Heap(lens, k, equalSize), m + 1, n, lens, k, width, equalSize),
           NEW f, Merges(f, m, lens, k, equalSize)
    PROVE  HeapOf(f[m], 1, n, lens, k, width, equalSize)
<1> DEFINE Body(i) == IF i = 0 THEN Heap(lens, k, equalSize) ELSE MergeFirstTwo(f[i - 1])
           T == {i \in Nat : i <= m => HeapOf(f[i], (m + 1) - i, n, lens, k, width, equalSize)}
<1>1. \A i \in 0..m : f[i] = Body(i)
    <2>1. f = [i \in 0..m |-> Body(i)]
        BY DEF Merges
    <2> HIDE DEF Body
    <2> QED BY <2>1
<1>2. 0 \in T
    <2>1. f[0] = Heap(lens, k, equalSize) /\ (m + 1) - 0 = m + 1
        BY <1>1
    <2> QED BY <2>1
<1>3. ASSUME NEW i \in Nat, i \in T PROVE i + 1 \in T
    <2> SUFFICES ASSUME i + 1 <= m
                 PROVE HeapOf(f[i + 1], (m + 1) - (i + 1), n, lens, k, width, equalSize)
        OBVIOUS
    <2>1. i + 1 \in 0..m /\ i + 1 # 0 /\ (i + 1) - 1 = i
        OBVIOUS
    <2>2. f[i + 1] = MergeFirstTwo(f[i])
        BY <1>1, <2>1
    <2> DEFINE c == (m + 1) - i
    <2>3. c \in Nat /\ c >= 2 /\ (m + 1) - (i + 1) = c - 1
        OBVIOUS
    <2>4. HeapOf(f[i], c, n, lens, k, width, equalSize)
        BY <1>3
    <2> HIDE DEF c
    <2>5. HeapOf(MergeFirstTwo(f[i]), c - 1, n, lens, k, width, equalSize)
        BY <2>3, <2>4, MergingKeepsHeap
    <2> QED BY <2>2, <2>3, <2>5
<1>4. \A i \in Nat : i \in T
    <2> HIDE DEF T
    <2> QED BY <1>2, <1>3, InductionOnNat
<1>5. (m + 1) - m = 1 /\ m <= m
    OBVIOUS
<1> QED BY <1>4, <1>5

LEMMA MergesExist ==
    ASSUME NEW n \in Nat, NEW lens, lens \in [1..n -> Nat \ {0}], NEW k \in Nat \ {0},
           NEW width \in Int, NEW equalSize \in BOOLEAN, NEW m \in Nat,
           HeapOf(Heap(lens, k, equalSize), m + 1, n, lens, k, width, equalSize)
    PROVE  \E f : Merges(f, m, lens, k, equalSize)
<1> DEFINE V == SUBSET [1..k -> RowSet(n)]
           b == Heap(lens, k, equalSize)
           Step(H) == IF MergeFirstTwo(H) \in V THEN MergeFirstTwo(H) ELSE {}
           g == [p \in (1..m) \X V |-> Step(p[2])]
<1>1. \A c, H : HeapOf(H, c, n, lens, k, width, equalSize) => H \in V
    BY DEF HeapOf, StateOf, Dealt
<1>2. b \in V
    BY <1>1
<1>3. g \in [(1..m) \X V -> V]
    <2>1. \A H : Step(H) \in V
        OBVIOUS
    <2> HIDE DEF Step, V
    <2> QED BY <2>1
<1> HIDE DEF V
<1>4. PICK f \in [0..m -> V] : Unfolds(f, m, b, g)
    <2> HIDE DEF g, b
    <2> QED BY <1>2, <1>3, UnfoldingExists
<1>5. \A i \in 1..m : f[i] = Step(f[i - 1])
    <2> TAKE i \in 1..m
    <2>1. i - 1 \in 0..m /\ f[i - 1] \in V
        OBVIOUS
    <2>2. f[i] = g[<<i, f[i - 1]>>]
        BY <1>4 DEF Unfolds
    <2> HIDE DEF Step
    <2> QED BY <2>1, <2>2
<1> DEFINE T == {i \in Nat : i <= m => HeapOf(f[i], (m + 1) - i, n, lens, k, width, equalSize)}
<1>6. 0 \in T
    <2>1. f[0] = Heap(lens, k, equalSize) /\ (m + 1) - 0 = m + 1
        BY <1>4 DEF Unfolds
    <2> QED BY <2>1
<1>7. ASSUME NEW i \in Nat, i \in T, i + 1 <= m
      PROVE  /\ HeapOf(f[i + 1], (m + 1) - (i + 1), n, lens, k, width, equalSize)
             /\ f[i + 1] = MergeFirstTwo(f[i])
    <2>1. i + 1 \in 1..m /\ (i + 1) - 1 = i
        BY <1>7
    <2>2. f[i + 1] = Step(f[i])
        BY <1>5, <2>1
    <2> DEFINE c == (m + 1) - i
    <2>3. c \in Nat /\ c >= 2 /\ (m + 1) - (i + 1) = c - 1
        BY <1>7
    <2>4. HeapOf(f[i], c, n, lens, k, width, equalSize)
        BY <1>7
    <2> HIDE DEF c
    <2>5. HeapOf(MergeFirstTwo(f[i]), c - 1, n, lens, k, width, equalSize)
        BY <2>3, <2>4, MergingKeepsHeap
    <2>6. f[i + 1] = MergeFirstTwo(f[i])
        BY <1>1, <2>2, <2>5
    <2> QED BY <2>3, <2>5, <2>6
<1>8. \A i \in Nat : i \in T
    <2>1. \A i \in Nat : i \in T => i + 1 \in T
        BY <1>7
    <2> HIDE DEF T
    <2> QED BY <1>6, <2>1, InductionOnNat
<1>9. Merges(f, m, lens, k, equalSize)
    <2> DEFINE Body(i) == IF i = 0 THEN Heap(lens, k, equalSize) ELSE MergeFirstTwo(f[i - 1])
    <2>1. ASSUME NEW i \in 0..m PROVE f[i] = Body(i)
        <3>1. CASE i = 0
            BY <1>4, <3>1 DEF Unfolds
        <3>2. CASE i # 0
            <4>1. i - 1 \in Nat /\ (i - 1) + 1 = i /\ i <= m
                BY <3>2
            <4>2. i - 1 \in T
                BY <1>8, <4>1
            <4> HIDE DEF T
            <4>3. f[(i - 1) + 1] = MergeFirstTwo(f[i - 1])
                BY <1>7, <4>1, <4>2
            <4> QED BY <3>2, <4>1, <4>3
        <3> QED BY <3>1, <3>2
    <2>2. f = [i \in 0..m |-> f[i]]
        OBVIOUS
    <2>3. f = [i \in 0..m |-> Body(i)]
        <3> HIDE DEF Body
        <3> QED BY <2>1, <2>2
    <2> QED BY <2>3, Zenon DEF Merges
<1> QED BY <1>9

IsMultiple(n, k) == \E q \in Nat : n = q * k

\* The parts are the rows of the state s.
ItemsOf(parts, s, k) == parts = [i \in 1..k |-> s[i].items]

\* The rows are dealt to the parts of the result, which is what one state holds.
LEMMA KarmarkarKarpDeals ==
    ASSUME NEW n \in Nat \ {0}, NEW lens, lens \in [1..n -> Nat \ {0}], NEW k \in Nat \ {0},
           NEW width \in Int, NoneLonger(lens, n, width),
           NEW equalSize \in BOOLEAN, equalSize => IsMultiple(n, k)
    PROVE  \E s : /\ Deals(s, 1..n, n, lens, k, width, equalSize)
                  /\ ItemsOf(KarmarkarKarp(lens, k, equalSize), s, k)
<1> DEFINE states == IF equalSize THEN Len(lens) \div k ELSE Len(lens)
           m == states - 1
           F == CHOOSE f : Merges(f, m, lens, k, equalSize)
           s == CHOOSE x \in F[m] : TRUE
<1>1. Len(lens) = n
    BY FunctionIsSeq
<1>2. m \in Nat /\ HeapOf(Heap(lens, k, equalSize), m + 1, n, lens, k, width, equalSize)
    <2>1. CASE equalSize
        <3>1. PICK q \in Nat : n = q * k
            BY <2>1 DEF IsMultiple
        <3>2. q # 0
            BY <3>1
        <3>3. HeapOf(Heap(lens, k, equalSize), q, n, lens, k, width, equalSize)
            BY <2>1, <3>1, FirstHeapOfGroups
        <3>4. n \div k = q
            BY <3>1, QuotientIs
        <3>5. m = q - 1 /\ q - 1 \in Nat /\ (q - 1) + 1 = q
            BY <1>1, <2>1, <3>2, <3>4
        <3> HIDE DEF m
        <3> QED BY <3>3, <3>5
    <2>2. CASE ~equalSize
        <3>1. m = n - 1 /\ n - 1 \in Nat /\ (n - 1) + 1 = n
            BY <1>1, <2>2
        <3>2. HeapOf(Heap(lens, k, equalSize), n, n, lens, k, width, equalSize)
            BY <2>2, FirstHeapOfRows
        <3> HIDE DEF m
        <3> QED BY <3>1, <3>2
    <2> QED BY <2>1, <2>2
<1>3. KarmarkarKarp(lens, k, equalSize) = [i \in 1..k |-> s[i].items]
    BY DEF KarmarkarKarp, Merges
<1> HIDE DEF m
<1>4. Merges(F, m, lens, k, equalSize)
    BY <1>2, MergesExist
<1> HIDE DEF F
<1>5. HeapOf(F[m], 1, n, lens, k, width, equalSize)
    BY <1>2, <1>4, MergesKeepHeap
<1>6. s \in F[m] /\ F[m] = {s}
    <2>1. IsFiniteSet(F[m]) /\ Cardinality(F[m]) = 1
        BY <1>5 DEF HeapOf
    <2>2. PICK x : F[m] = {x}
        BY <2>1, FS_Singleton
    <2> QED BY <2>2
<1> HIDE DEF s
<1>7. StateOf(s, n, lens, k, width, equalSize)
    BY <1>5, <1>6 DEF HeapOf
<1>8. RowsIn(s, k) = 1..n
    <2>1. UNION {RowsIn(x, k) : x \in F[m]} = 1..n
        BY <1>5 DEF HeapOf
    <2>2. UNION {RowsIn(x, k) : x \in F[m]} = RowsIn(s, k)
        BY <1>6
    <2> QED BY <2>1, <2>2
<1> QED BY <1>3, <1>7, <1>8 DEF Deals, ItemsOf

-------------------------------------------------------------------------------
(* The parts one after the other                                               *)

\* The parts have the elements from 1 to n, every one in one part and once.
PartsOf(parts, k, n) ==
    /\ parts \in Seq(Seq(1..n)) /\ Len(parts) = k
    /\ \A i \in 1..k : Distinct(parts[i])
    /\ \A i, j \in 1..k : i # j => NoneShared(parts[i], parts[j])
    /\ \A r \in 1..n : \E i \in 1..k : r \in Elems(parts[i])

LEMMA DistinctCovers ==
    ASSUME NEW n \in Nat, NEW p \in Seq(1..n), Distinct(p), \A r \in 1..n : r \in Elems(p)
    PROVE  Permutes(p, n)
<1> DEFINE l == Len(p)
<1>1. l \in Nat /\ p \in [1..l -> 1..n]
    BY LenProperties
<1>2. p \in Injection(1..l, 1..n)
    BY <1>1 DEF Injection, IsInjective, Distinct
<1>3. p \in Surjection(1..l, 1..n)
    BY <1>1 DEF Surjection, Elems
<1>4. ExistsBijection(1..l, 1..n)
    BY <1>2, <1>3 DEF ExistsBijection, Bijection
<1>5. IsFiniteSet(1..l) /\ Cardinality(1..l) = l /\ Cardinality(1..n) = n
    <2>1. \A m \in Nat : IsFiniteSet(1..m) /\ Cardinality(1..m) = m
        BY FS_Interval
    <2> HIDE DEF l
    <2> QED BY <1>1, <2>1
<1>6. l = n
    BY <1>4, <1>5, FS_Bijection
<1> HIDE DEF l
<1>7. p \in [1..n -> 1..n] /\ Len(p) = n
    BY <1>1, <1>6 DEF l
<1> QED BY <1>7 DEF Permutes, Distinct, Elems

LEMMA FlattenPermutes ==
    ASSUME NEW n \in Nat, NEW k \in Nat, NEW parts, PartsOf(parts, k, n)
    PROVE  Permutes(FlattenSeq(parts), n)
<1>1. parts \in Seq(Seq(1..n)) /\ Len(parts) = k
    BY DEF PartsOf
<1>2. PICK f \in [0..k -> Seq(1..n)] : Joins(f, parts) /\ FlattenSeq(parts) = f[k]
    <2>1. \E f \in [0..Len(parts) -> Seq(1..n)] :
              Joins(f, parts) /\ FlattenSeq(parts) = f[Len(parts)]
        BY <1>1, FlattenUnfolds, Zenon
    <2> QED BY <1>1, <2>1
<1> DEFINE T == {m \in Nat : m <= k =>
                    /\ Distinct(f[m])
                    /\ \A x : x \in Elems(f[m]) <=> \E i \in 1..m : x \in Elems(parts[i])}
<1>3. 0 \in T
    <2>1. f[0] = <<>> /\ Len(<<>>) = 0
        BY <1>2 DEF Joins
    <2>2. Len(f[0]) = 0
        BY <2>1
    <2>3. Distinct(f[0]) /\ Elems(f[0]) = {}
        BY <2>2 DEF Distinct, Elems
    <2> QED BY <2>3
<1>4. ASSUME NEW m \in Nat, m \in T PROVE m + 1 \in T
    <2> SUFFICES ASSUME m + 1 <= k
                 PROVE  /\ Distinct(f[m + 1])
                        /\ \A x : x \in Elems(f[m + 1])
                                   <=> \E i \in 1..(m + 1) : x \in Elems(parts[i])
        OBVIOUS
    <2>1. m + 1 \in 1..k /\ m \in 0..k /\ (m + 1) - 1 = m
        OBVIOUS
    <2>0. f[m + 1] = f[m] \o parts[m + 1]
        BY <1>1, <1>2, <2>1 DEF Joins
    <2>2. /\ f[m + 1] = f[m] \o parts[m + 1]
          /\ f[m] \in Seq(1..n) /\ parts[m + 1] \in Seq(1..n)
        BY <1>1, <1>2, <2>0, <2>1
    <2>3. /\ Distinct(f[m])
          /\ \A x : x \in Elems(f[m]) <=> \E i \in 1..m : x \in Elems(parts[i])
        BY <1>4
    <2>4. NoneShared(f[m], parts[m + 1])
        <3>1. \A i \in 1..m : NoneShared(parts[i], parts[m + 1])
            BY <2>1 DEF PartsOf
        <3> QED BY <2>3, <3>1 DEF NoneShared
    <2>5. Distinct(f[m + 1])
        <3>1. Distinct(parts[m + 1])
            BY <2>1 DEF PartsOf
        <3> QED BY <2>2, <2>3, <2>4, <3>1, ConcatDistinct
    <2>6. \A x : x \in Elems(f[m + 1]) <=> x \in Elems(f[m]) \/ x \in Elems(parts[m + 1])
        BY <2>2, ConcatElems
    <2>7. /\ \A i \in 1..(m + 1) : i \in 1..m \/ i = m + 1
          /\ \A i \in 1..m : i \in 1..(m + 1)
          /\ m + 1 \in 1..(m + 1)
        OBVIOUS
    <2>8. ASSUME NEW x PROVE x \in Elems(f[m + 1]) <=> \E i \in 1..(m + 1) : x \in Elems(parts[i])
        BY <2>3, <2>6, <2>7
    <2> QED BY <2>5, <2>8
<1>5. \A m \in Nat : m \in T
    <2> HIDE DEF T
    <2> QED BY <1>3, <1>4, InductionOnNat
<1>6. /\ f[k] \in Seq(1..n) /\ Distinct(f[k])
      /\ \A x : x \in Elems(f[k]) <=> \E i \in 1..k : x \in Elems(parts[i])
    <2>1. k \in 0..k /\ k <= k
        OBVIOUS
    <2>2. k \in T
        BY <1>5
    <2> QED BY <2>1, <2>2
<1>7. \A r \in 1..n : r \in Elems(f[k])
    BY <1>6 DEF PartsOf
<1> QED BY <1>2, <1>6, <1>7, DistinctCovers

LEMMA FlattenLength ==
    ASSUME NEW S, NEW parts, parts \in Seq(Seq(S)), NEW lo \in Int, NEW g,
           g \in [0..Len(parts) -> Int], g[0] = 0,
           \A i \in 1..Len(parts) : lo <= Len(parts[i]) /\ Len(parts[i]) <= g[i] - g[i - 1]
    PROVE  Len(FlattenSeq(parts)) <= g[Len(parts)] /\ lo * Len(parts) <= Len(FlattenSeq(parts))
<1> DEFINE k == Len(parts)
<1>1. k \in Nat /\ \A i \in 1..k : parts[i] \in Seq(S)
    OBVIOUS
<1>2. PICK f \in [0..k -> Seq(S)] : Joins(f, parts) /\ FlattenSeq(parts) = f[k]
    BY FlattenUnfolds, Zenon
<1> DEFINE T == {m \in Nat : m <= k => Len(f[m]) <= g[m] /\ lo * m <= Len(f[m])}
<1>3. 0 \in T
    <2>1. f[0] = <<>>
        BY <1>2 DEF Joins
    <2>2. Len(f[0]) = 0
        BY <2>1
    <2> QED BY <2>2
<1>4. ASSUME NEW m \in Nat, m \in T PROVE m + 1 \in T
    <2> SUFFICES ASSUME m + 1 <= k
                 PROVE Len(f[m + 1]) <= g[m + 1] /\ lo * (m + 1) <= Len(f[m + 1])
        OBVIOUS
    <2>1. m + 1 \in 1..k /\ m \in 0..k /\ m + 1 \in 0..k /\ (m + 1) - 1 = m
        OBVIOUS
    <2>2. f[m + 1] = f[m] \o parts[m + 1] /\ f[m] \in Seq(S) /\ parts[m + 1] \in Seq(S)
        BY <1>1, <1>2, <2>1 DEF Joins
    <2>3. /\ Len(f[m + 1]) = Len(f[m]) + Len(parts[m + 1])
          /\ Len(f[m]) \in Int /\ Len(parts[m + 1]) \in Int
        BY <2>2
    <2>4. /\ Len(f[m]) <= g[m] /\ Len(parts[m + 1]) <= g[m + 1] - g[m]
          /\ lo * m <= Len(f[m]) /\ lo <= Len(parts[m + 1])
        BY <1>4, <2>1
    <2>5. g[m] \in Int /\ g[m + 1] \in Int
        BY <2>1
    <2>8. lo * m \in Int /\ lo * (m + 1) = lo * m + lo
        OBVIOUS
    <2> DEFINE a == Len(f[m + 1])
               b == Len(f[m])
               c == Len(parts[m + 1])
               d == g[m]
               e == g[m + 1]
               h == lo * m
    <2>6. /\ a = b + c /\ b \in Int /\ c \in Int /\ d \in Int /\ e \in Int /\ h \in Int
          /\ b <= d /\ c <= e - d /\ h <= b /\ lo <= c
        BY <2>3, <2>4, <2>5, <2>8
    <2> HIDE DEF a, b, c, d, e, h
    <2>9. a <= e /\ h + lo <= a
        BY <2>6
    <2> QED BY <2>8, <2>9 DEF a, e, h
<1>5. \A m \in Nat : m \in T
    <2> HIDE DEF T
    <2> QED BY <1>3, <1>4, InductionOnNat
<1> QED BY <1>1, <1>2, <1>5

-------------------------------------------------------------------------------
(* The parts with their rows in order                                          *)

\* The tokens of rows do not depend on their order.
LEMMA TokensOfElems ==
    ASSUME NEW n \in Nat, NEW lens \in [1..n -> Nat], NEW part \in Seq(1..n), Distinct(part)
    PROVE  Tokens(lens, part) = SumOver(n, lens, Elems(part))
<1> DEFINE T == {q \in Seq(1..n) : Distinct(q) => Tokens(lens, q) = SumOver(n, lens, Elems(q))}
<1>0. lens \in [1..n -> Int]
    OBVIOUS
<1>1. <<>> \in T
    <2>1. <<>> \in Seq(1..n) /\ Len(<<>>) = 0
        OBVIOUS
    <2>2. Tokens(lens, <<>>) = 0
        BY <2>1, TokensOfNone
    <2>3. Elems(<<>>) = {}
        BY <2>1 DEF Elems
    <2>4. SumOver(n, lens, {}) = 0
        BY <1>0, SumOverSteps
    <2> QED BY <2>1, <2>2, <2>3, <2>4
<1>2. ASSUME NEW q \in Seq(1..n), NEW r \in 1..n, q \in T PROVE Append(q, r) \in T
    <2> DEFINE c == Append(q, r)
    <2> SUFFICES ASSUME Distinct(c) PROVE Tokens(lens, c) = SumOver(n, lens, Elems(c))
        OBVIOUS
    <2>1. /\ c \in Seq(1..n) /\ Len(c) = Len(q) + 1 /\ Len(q) \in Nat
          /\ \A i \in 1..Len(q) : c[i] = q[i] /\ q[i] \in 1..n
          /\ c[Len(q) + 1] = r
        BY AppendProperties
    <2>10. c = q \o <<r>> /\ <<r>> \in Seq(1..n)
        BY AppendIsConcat
    <2> HIDE DEF c
    <2>2. Distinct(q)
        BY <2>1 DEF Distinct
    <2>3. Tokens(lens, c) = Tokens(lens, q) + lens[r]
        <3>1. Tokens(lens, q \o <<r>>) = Tokens(lens, q) + Tokens(lens, <<r>>)
            BY <2>10, TokensConcat, Zenon
        <3>2. Tokens(lens, <<r>>) = lens[r]
            BY TokensOfOne, Zenon
        <3> QED BY <2>10, <3>1, <3>2, Zenon
    <2>4. r \in Elems(c) /\ Elems(c) \in SUBSET (1..n)
        <3>1. Len(q) + 1 \in 1..Len(c) /\ \A i \in 1..Len(c) : c[i] \in 1..n
            BY <2>1
        <3> QED BY <2>1, <3>1 DEF Elems
    <2>5. Elems(c) \ {r} = Elems(q)
        <3>1. \A i \in 1..Len(q) : c[i] # r
            <4> SUFFICES ASSUME NEW i \in 1..Len(q) PROVE c[i] # r
                OBVIOUS
            <4>1. \A l \in Nat : \A h \in 1..l :
                      h \in 1..(l + 1) /\ l + 1 \in 1..(l + 1) /\ h # l + 1
                OBVIOUS
            <4>2. i \in 1..Len(c) /\ Len(q) + 1 \in 1..Len(c) /\ i # Len(q) + 1
                BY <2>1, <4>1
            <4> QED BY <2>1, <4>2 DEF Distinct
        <3>2. \A i \in 1..Len(c) : i \in 1..Len(q) \/ i = Len(q) + 1
            BY <2>1
        <3>3. \A i \in 1..Len(q) : i \in 1..Len(c)
            BY <2>1
        <3>4. ASSUME NEW x \in Elems(c) \ {r} PROVE x \in Elems(q)
            <4>1. PICK i \in 1..Len(c) : x = c[i]
                BY DEF Elems
            <4>2. i \in 1..Len(q)
                BY <2>1, <3>2, <4>1
            <4> QED BY <2>1, <4>1, <4>2 DEF Elems
        <3>5. ASSUME NEW x \in Elems(q) PROVE x \in Elems(c) \ {r}
            <4>1. PICK i \in 1..Len(q) : x = q[i]
                BY DEF Elems
            <4>2. i \in 1..Len(c) /\ x = c[i] /\ x # r
                BY <2>1, <3>1, <3>3, <4>1
            <4> QED BY <4>2 DEF Elems
        <3> QED BY <3>4, <3>5
    <2>6. SumOver(n, lens, Elems(c)) = lens[r] + SumOver(n, lens, Elems(q))
        <3>1. SumOver(n, lens, Elems(c)) = lens[r] + SumOver(n, lens, Elems(c) \ {r})
            BY <1>0, <2>4, SumOverSteps, Zenon
        <3> QED BY <2>5, <3>1
    <2>7. Tokens(lens, q) = SumOver(n, lens, Elems(q))
        BY <1>2, <2>2
    <2>8. Tokens(lens, q) \in Int /\ lens[r] \in Int
        BY TokensType
    <2> QED BY <2>3, <2>6, <2>7, <2>8
<1>3. \A q \in Seq(1..n) : q \in T
    <2> HIDE DEF T
    <2> QED BY <1>1, <1>2, InductionOnSeq
<1> QED BY <1>3

InOrder(part) == SortedBy(part, LAMBDA r, q : r < q)

LEMMA InOrderArranges ==
    ASSUME NEW n \in Nat, NEW part \in Seq(1..n)
    PROVE  /\ InOrder(part) \in Seq(1..n) /\ Len(InOrder(part)) = Len(part)
           /\ Elems(InOrder(part)) = Elems(part)
           /\ Distinct(part) => Distinct(InOrder(part))
<1> DEFINE m == Len(part)
           R == {p \in (1..m) \X (1..m) :
                    \/ part[p[1]] < part[p[2]]
                    \/ ~(part[p[2]] < part[p[1]]) /\ p[1] < p[2]}
           t == InOrder(part)
<1>1. m \in Nat /\ part \in [1..m -> 1..n] /\ DOMAIN part = 1..m
    OBVIOUS
<1>2. t = Arranged(part, R)
    <2> HIDE DEF m
    <2> QED BY <1>1 DEF InOrder, SortedBy
<1>3. Orders(R, 1..m)
    <2>1. \A i, j \in 1..m : <<i, j>> \in R <=> part[i] < part[j] \/ (~(part[j] < part[i]) /\ i < j)
        <3> HIDE DEF m
        <3> SUFFICES ASSUME NEW i \in 1..m, NEW j \in 1..m
                     PROVE  <<i, j>> \in R <=> part[i] < part[j] \/ (~(part[j] < part[i]) /\ i < j)
            BY Zenon
        <3>1. <<i, j>> \in (1..m) \X (1..m) /\ <<i, j>>[1] = i /\ <<i, j>>[2] = j
            OBVIOUS
        <3> QED BY <3>1
    <2>2. \A i \in 1..m : part[i] \in Int /\ i \in Int
        BY <1>1
    <2> HIDE DEF R, m
    <2>3. \A i \in 1..m : <<i, i>> \notin R
        BY <2>1, <2>2
    <2>4. \A i, j \in 1..m : i # j => <<i, j>> \in R \/ <<j, i>> \in R
        BY <2>1, <2>2
    <2>5. \A i, j, l \in 1..m : <<i, j>> \in R /\ <<j, l>> \in R => <<i, l>> \in R
        <3> TAKE i, j, l \in 1..m
        <3> DEFINE a == part[i]
                   b == part[j]
                   c == part[l]
        <3>1. /\ a \in Int /\ b \in Int /\ c \in Int /\ i \in Int /\ j \in Int /\ l \in Int
              /\ <<i, j>> \in R <=> a < b \/ (~(b < a) /\ i < j)
              /\ <<j, l>> \in R <=> b < c \/ (~(c < b) /\ j < l)
              /\ <<i, l>> \in R <=> a < c \/ (~(c < a) /\ i < l)
            BY <2>1, <2>2
        <3> HIDE DEF a, b, c
        <3> QED BY <3>1
    <2> QED BY <2>3, <2>4, <2>5 DEF Orders
<1> HIDE DEF R, t, m
<1>4. t \in Seq(1..n) /\ \E f : Arranges(f, part, t, R)
    BY <1>1, <1>2, <1>3, ArrangedIsArranged
<1>5. PICK f : Arranges(f, part, t, R)
    BY <1>4
<1>6. /\ Len(t) = m /\ f \in [1..m -> 1..m]
      /\ \A p \in 1..m : t[p] = part[f[p]] /\ f[p] \in 1..m
      /\ \A p, q \in 1..m : f[p] = f[q] => p = q
      /\ \A i \in 1..m : \E p \in 1..m : f[p] = i
    BY <1>5 DEF Arranges, m
<1>7. Elems(t) = Elems(part)
    <2>1. \A x : x \in Elems(t) <=> \E p \in 1..m : x = t[p]
        BY <1>6 DEF Elems
    <2>2. \A x : x \in Elems(part) <=> \E p \in 1..m : x = part[p]
        BY DEF Elems, m
    <2>3. ASSUME NEW x \in Elems(t) PROVE x \in Elems(part)
        <3>1. PICK p \in 1..m : x = t[p]
            BY <2>1
        <3>2. f[p] \in 1..m /\ x = part[f[p]]
            BY <1>6, <3>1
        <3> QED BY <2>2, <3>2
    <2>4. ASSUME NEW x \in Elems(part) PROVE x \in Elems(t)
        <3>1. PICK i \in 1..m : x = part[i]
            BY <2>2
        <3>2. PICK p \in 1..m : f[p] = i
            BY <1>6
        <3> QED BY <1>6, <2>1, <3>1, <3>2
    <2> QED BY <2>3, <2>4
<1>8. Distinct(part) => Distinct(t)
    <2> SUFFICES ASSUME Distinct(part), NEW i \in 1..m, NEW j \in 1..m, t[i] = t[j] PROVE i = j
        BY <1>6 DEF Distinct
    <2>1. f[i] \in 1..m /\ f[j] \in 1..m /\ part[f[i]] = part[f[j]]
        BY <1>6
    <2>2. f[i] = f[j]
        BY <2>1 DEF Distinct, m
    <2> QED BY <1>6, <2>2
<1> QED BY <1>4, <1>6, <1>7, <1>8 DEF t, m

-------------------------------------------------------------------------------
(* The result                                                                  *)

LEMMA SomeWidth ==
    ASSUME NEW n \in Nat, NEW lens \in [1..n -> Nat]
    PROVE  \E width \in Nat : NoneLonger(lens, n, width)
<1> DEFINE T == {m \in Nat : m <= n => \E w \in Nat : NoneLonger(lens, m, w)}
<1>1. 0 \in T
    <2>1. NoneLonger(lens, 0, 0)
        BY DEF NoneLonger
    <2> QED BY <2>1
<1>2. ASSUME NEW m \in Nat, m \in T PROVE m + 1 \in T
    <2> SUFFICES ASSUME m + 1 <= n PROVE \E w \in Nat : NoneLonger(lens, m + 1, w)
        OBVIOUS
    <2>1. PICK w \in Nat : NoneLonger(lens, m, w)
        BY <1>2
    <2>2. lens[m + 1] \in Nat /\ \A r \in 1..m : lens[r] \in Nat
        OBVIOUS
    <2>3. CASE lens[m + 1] <= w
        <3>1. NoneLonger(lens, m + 1, w)
            BY <2>1, <2>3 DEF NoneLonger
        <3> QED BY <3>1
    <2>4. CASE ~(lens[m + 1] <= w)
        <3>1. \A r \in 1..m : lens[r] <= lens[m + 1]
            BY <2>1, <2>2, <2>4 DEF NoneLonger
        <3>2. \A r \in 1..(m + 1) : r \in 1..m \/ r = m + 1
            OBVIOUS
        <3>3. NoneLonger(lens, m + 1, lens[m + 1])
            BY <2>2, <3>1, <3>2 DEF NoneLonger
        <3> QED BY <2>2, <3>3
    <2> QED BY <2>3, <2>4
<1>3. \A m \in Nat : m \in T
    <2> HIDE DEF T
    <2> QED BY <1>1, <1>2, InductionOnNat
<1> QED BY <1>3

\* No part has more than width tokens more than another.
Even(lens, parts, k, width) ==
    \A i, j \in 1..k : Tokens(lens, parts[i]) <= Tokens(lens, parts[j]) + width

\* Every part has as many rows, or: there is a row in every part, or none has two.
PartsShape(parts, k, equalSize) ==
    IF equalSize THEN \A i, j \in 1..k : Len(parts[i]) = Len(parts[j])
    ELSE \/ \A i \in 1..k : Len(parts[i]) # 0
         \/ \A i \in 1..k : Len(parts[i]) <= 1

LEMMA BalancedPartitionsDeal ==
    ASSUME NEW n \in Nat \ {0}, NEW lens, lens \in [1..n -> Nat \ {0}], NEW k \in Nat \ {0},
           NEW width \in Int, NoneLonger(lens, n, width),
           NEW equalSize \in BOOLEAN, equalSize => IsMultiple(n, k)
    PROVE  /\ PartsOf(BalancedPartitions(lens, k, equalSize), k, n)
           /\ Even(lens, BalancedPartitions(lens, k, equalSize), k, width)
           /\ PartsShape(BalancedPartitions(lens, k, equalSize), k, equalSize)
<1>1. PICK s : /\ Deals(s, 1..n, n, lens, k, width, equalSize)
               /\ ItemsOf(KarmarkarKarp(lens, k, equalSize), s, k)
    BY KarmarkarKarpDeals
<1> DEFINE P == BalancedPartitions(lens, k, equalSize)
           part(i) == s[i].items
<1>2. P = [i \in 1..k |-> InOrder(part(i))]
    BY <1>1 DEF BalancedPartitions, InOrder, ItemsOf
<1>3. /\ Dealt(s, n, lens, k, width, equalSize) /\ RowsIn(s, k) = 1..n
    BY <1>1 DEF Deals, StateOf
<1>4. \A i \in 1..k : /\ part(i) \in Seq(1..n) /\ Distinct(part(i))
                      /\ s[i].sum = Tokens(lens, part(i)) /\ RowsOf(s[i]) = Elems(part(i))
    BY <1>3 DEF Dealt, WellMade, RowSet, RowsOf
<1> HIDE DEF part, P
<1>5. \A i \in 1..k : /\ P[i] = InOrder(part(i)) /\ P[i] \in Seq(1..n)
                      /\ Len(P[i]) = Len(part(i)) /\ Elems(P[i]) = Elems(part(i))
                      /\ Distinct(P[i])
    <2> TAKE i \in 1..k
    <2>1. /\ InOrder(part(i)) \in Seq(1..n) /\ Len(InOrder(part(i))) = Len(part(i))
          /\ Elems(InOrder(part(i))) = Elems(part(i)) /\ Distinct(InOrder(part(i)))
        BY <1>4, InOrderArranges
    <2> QED BY <1>2, <2>1
<1>6. P \in Seq(Seq(1..n)) /\ Len(P) = k
    <2>1. P \in [1..k -> Seq(1..n)]
        BY <1>2, <1>5
    <2> QED BY <2>1, FunctionIsSeq
<1>7. \A i, j \in 1..k : i # j => NoneShared(P[i], P[j])
    BY <1>3, <1>4, <1>5 DEF Dealt, NoneShared
<1>8. \A r \in 1..n : \E i \in 1..k : r \in Elems(P[i])
    <2> TAKE r \in 1..n
    <2>1. PICK i \in 1..k : r \in RowsOf(s[i])
        BY <1>3 DEF RowsIn
    <2> QED BY <1>4, <1>5, <2>1
<1>9. PartsOf(P, k, n)
    BY <1>5, <1>6, <1>7, <1>8 DEF PartsOf
<1>10. \A i \in 1..k : Tokens(lens, P[i]) = s[i].sum
    <2> TAKE i \in 1..k
    <2>0. lens \in [1..n -> Nat]
        OBVIOUS
    <2>1. Tokens(lens, P[i]) = SumOver(n, lens, Elems(P[i]))
        BY <1>5, <2>0, TokensOfElems
    <2>2. Tokens(lens, part(i)) = SumOver(n, lens, Elems(part(i)))
        BY <1>4, <2>0, TokensOfElems
    <2> QED BY <1>4, <1>5, <2>1, <2>2
<1>11. Even(lens, P, k, width)
    BY <1>3, <1>10 DEF Dealt, Even
<1>12. PartsShape(P, k, equalSize)
    BY <1>3, <1>5 DEF Dealt, Shape, PartsShape, part
<1> QED BY <1>9, <1>11, <1>12 DEF P

\* The parts have n rows between them.
LEMMA PartsLength ==
    ASSUME NEW n \in Nat, NEW k \in Nat, NEW parts, PartsOf(parts, k, n), NEW lo \in Int,
           NEW g \in [0..k -> Int], g[0] = 0,
           \A i \in 1..k : lo <= Len(parts[i]) /\ Len(parts[i]) <= g[i] - g[i - 1]
    PROVE  n <= g[k] /\ lo * k <= n
<1>1. parts \in Seq(Seq(1..n)) /\ Len(parts) = k
    BY DEF PartsOf
<1>2. Len(FlattenSeq(parts)) <= g[k] /\ lo * k <= Len(FlattenSeq(parts))
    <2>1. Len(FlattenSeq(parts)) <= g[Len(parts)] /\ lo * Len(parts) <= Len(FlattenSeq(parts))
        BY <1>1, FlattenLength
    <2> QED BY <1>1, <2>1
<1>3. Len(FlattenSeq(parts)) = n
    BY FlattenPermutes DEF Permutes
<1> QED BY <1>2, <1>3

\* Whatever the lengths of the rows are, and however many parts they are dealt to,
\* the assertions of karmarkar_karp and _check_and_sort_partitions hold: no part is
\* empty as long as there are as many rows as parts, every row is in a part, and
\* parts that are to be of equal size are.
THEOREM PartitionHolds ==
    ASSUME NEW n \in Nat \ {0}, NEW lens, lens \in [1..n -> Nat \ {0}], NEW k \in Nat \ {0},
           NEW equalSize \in BOOLEAN, equalSize => IsMultiple(n, k), ~equalSize => k <= n
    PROVE  IsPartition(lens, k, equalSize, BalancedPartitions(lens, k, equalSize))
<1> DEFINE P == BalancedPartitions(lens, k, equalSize)
<1>1. PartsOf(P, k, n) /\ PartsShape(P, k, equalSize)
    <2>0. lens \in [1..n -> Nat]
        OBVIOUS
    <2>1. PICK width \in Nat : NoneLonger(lens, n, width)
        BY <2>0, SomeWidth
    <2>2. width \in Int
        OBVIOUS
    <2> QED BY <2>1, <2>2, BalancedPartitionsDeal
<1> HIDE DEF P
<1>2. \A i \in 1..k : P[i] \in Seq(1..n) /\ Len(P[i]) \in Nat
    BY <1>1 DEF PartsOf
<1>3. ASSUME equalSize PROVE \A i \in 1..k : Len(P[i]) * k = n
    <2> DEFINE c == Len(P[1])
               g == [i \in 0..k |-> i * c]
    <2>1. 1 \in 1..k /\ c \in Nat
        BY <1>2
    <2>2. \A i \in 1..k : Len(P[i]) = c
        BY <1>1, <1>3, <2>1 DEF PartsShape
    <2> HIDE DEF c
    <2>3. \A i \in 0..k : i * c \in Int
        BY <2>1
    <2>4. g \in [0..k -> Int] /\ g[0] = 0 /\ g[k] = k * c
        BY <2>1, <2>3
    <2>5. \A i \in 1..k : c <= Len(P[i]) /\ Len(P[i]) <= g[i] - g[i - 1]
        <3> TAKE i \in 1..k
        <3>1. i \in 0..k /\ i - 1 \in 0..k
            OBVIOUS
        <3>2. i * c - (i - 1) * c = c
            BY <2>1
        <3>3. g[i] - g[i - 1] = c
            BY <3>1, <3>2
        <3> HIDE DEF g
        <3> QED BY <2>1, <2>2, <3>3
    <2> HIDE DEF g
    <2>6. c \in Int /\ n <= g[k] /\ c * k <= n
        <3>1. c \in Int
            BY <2>1
        <3> QED BY <1>1, <2>4, <2>5, <3>1, PartsLength
    <2>7. c * k = n
        <3>1. c * k = k * c /\ c * k \in Int
            BY <2>1
        <3> QED BY <2>4, <2>6, <3>1
    <2> QED BY <2>2, <2>7
<1>4. \A i \in 1..k : Len(P[i]) # 0
    <2> SUFFICES ASSUME NEW e \in 1..k, Len(P[e]) = 0 PROVE FALSE
        OBVIOUS
    <2>1. CASE equalSize
        <3>1. 0 * k = n
            BY <1>3, <2>1
        <3> QED BY <3>1
    <2>2. CASE ~equalSize
        <3>1. \A i \in 1..k : Len(P[i]) <= 1
            BY <1>1, <2>2 DEF PartsShape
        <3> DEFINE g == [i \in 0..k |-> IF i < e THEN i ELSE i - 1]
        <3>2. g \in [0..k -> Int] /\ g[0] = 0 /\ g[k] = k - 1
            OBVIOUS
        <3>3. \A i \in 1..k : 0 <= Len(P[i]) /\ Len(P[i]) <= g[i] - g[i - 1]
            <4> TAKE i \in 1..k
            <4>1. i \in 0..k /\ i - 1 \in 0..k /\ Len(P[i]) \in Nat /\ Len(P[i]) <= 1
                BY <1>2, <3>1
            <4>2. i = e => Len(P[i]) = 0
                OBVIOUS
            <4>3. g[i] - g[i - 1] = IF i = e THEN 0 ELSE 1
                BY <4>1
            <4> HIDE DEF g
            <4> QED BY <4>1, <4>2, <4>3
        <3> HIDE DEF g
        <3>4. n <= g[k]
            BY <1>1, <3>2, <3>3, PartsLength, 0 \in Int
        <3> QED BY <2>2, <3>2, <3>4
    <2> QED BY <2>1, <2>2
<1>5. UNION {ToSet(P[i]) : i \in 1..k} = 1..n
    <2>1. \A i \in 1..k : ToSet(P[i]) = Elems(P[i]) /\ Elems(P[i]) \subseteq 1..n
        <3> TAKE i \in 1..k
        <3>1. P[i] \in Seq(1..n) /\ DOMAIN P[i] = 1..Len(P[i])
            BY <1>2
        <3> DEFINE q == P[i]
        <3>2. q \in Seq(1..n) /\ DOMAIN q = 1..Len(q)
            BY <3>1
        <3> HIDE DEF q
        <3>3. ToSet(q) = Elems(q)
            BY <3>2 DEF ToSet, Elems
        <3>4. \A x \in Elems(q) : x \in 1..n
            BY <3>2 DEF Elems
        <3> QED BY <3>3, <3>4 DEF q
    <2>2. \A r \in 1..n : \E i \in 1..k : r \in Elems(P[i])
        BY <1>1 DEF PartsOf
    <2> QED BY <2>1, <2>2
<1>6. Len(lens) = n /\ DOMAIN lens = 1..n
    BY FunctionIsSeq
<1>7. Len(P) = k
    BY <1>1 DEF PartsOf
<1>8. \A i \in 1..k : P[i] # <<>>
    <2>1. Len(<<>>) = 0
        OBVIOUS
    <2> QED BY <1>4, <2>1
<1> QED BY <1>3, <1>5, <1>6, <1>7, <1>8 DEF IsPartition, P
==============================================================================
