------------------------------- MODULE ListOps -------------------------------
(***************************************************************************)
(* Two operations on Python's lists: the list comprehension with a         *)
(* condition and the stable sort.  The first is SelectSeq of module        *)
(* Sequences and the second SortSeq of module TLC for any order, both with *)
(* the definitions spelled out: the provers know those two only by their   *)
(* names.  What is picked comes as a set of places, and an order of places *)
(* as a set of pairs, so that what is said of them holds for every test.   *)
(***************************************************************************)
EXTENDS Integers, Sequences, FiniteSets

\* The elements of s at the places K.
Pick(s, K) ==
    LET picked[i \in 0..Len(s)] ==
            IF i = 0 THEN <<>>
            ELSE IF i \in K THEN Append(picked[i - 1], s[i]) ELSE picked[i - 1]
    IN  picked[Len(s)]

Where(s, Test(_)) == Pick(s, {i \in DOMAIN s : Test(s[i])})

Without(s, e) == Where(s, LAMBDA x : x # e)

\* A list given by an expression, element by element: TLC would evaluate that
\* expression again wherever an element is used.
AsList(s) == s \o <<>>

\* The elements of s, the i-th before the j-th if <<i, j>> is in R.
Arranged(s, R) ==
    LET place == AsList([i \in DOMAIN s |-> Cardinality({j \in DOMAIN s : <<j, i>> \in R}) + 1])
    IN  AsList([p \in DOMAIN s |-> s[CHOOSE i \in DOMAIN s : place[i] = p]])

SortedBy(s, Before(_, _)) ==
    Arranged(s, {p \in (DOMAIN s) \X (DOMAIN s) :
                    \/ Before(s[p[1]], s[p[2]])
                    \/ ~Before(s[p[2]], s[p[1]]) /\ p[1] < p[2]})
=============================================================================
