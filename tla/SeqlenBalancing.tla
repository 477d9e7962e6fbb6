--------------------------- MODULE SeqlenBalancing ---------------------------
(***************************************************************************)
(* verl/utils/seqlen_balancing.py: rows are dealt to k parts of nearly     *)
(* equal token counts by the largest differencing method of Karmarkar and  *)
(* Karp.  The driver balances a batch over its ranks with it and a rank    *)
(* its rows over micro-batches.                                            *)
(*                                                                         *)
(* lens is the sequence of the rows' token counts, every one positive; a   *)
(* Set of the code has the row indices (items) and their sum of tokens, a  *)
(* State is a sequence of k Sets.  Indices count from 1.                   *)
(***************************************************************************)
EXTENDS ListOps, FiniteSetsExt, SequencesExt

CeilDiv(a, b) == (a + b - 1) \div b

Tokens(lens, part) ==
    LET upTo[i \in 0..Len(part)] == IF i = 0 THEN 0 ELSE upTo[i - 1] + lens[part[i]]
    IN  upTo[Len(part)]

NoRows == [sum |-> 0, items |-> <<>>]
OneRow(lens, r) == [sum |-> lens[r], items |-> <<r>>]

\* Set.merge
Merged(a, b) == [sum |-> a.sum + b.sum, items |-> a.items \o b.items]

\* Set.__lt__: by sum, then by the number of items, then by the items.
SmallerSet(a, b) ==
    \/ a.sum < b.sum
    \/ a.sum = b.sum /\ Len(a.items) < Len(b.items)
    \/ /\ a.sum = b.sum /\ Len(a.items) = Len(b.items)
       /\ a # NoRows /\ a.items[1] < b.items[1]

Decreasing(sets) == SortedBy(sets, LAMBDA a, b : SmallerSet(b, a))

Spread(state) == state[1].sum - state[Len(state)].sum

\* State.__lt__: the state with the largest spread leaves the heap first.
Earlier(s, t) ==
    \/ Spread(s) > Spread(t)
    \/ Spread(s) = Spread(t) /\ SmallerSet(t[1], s[1])

Popped(heap) == CHOOSE s \in heap : \A t \in heap \ {s} : Earlier(s, t)

\* Mutant of MergeStates: the largest set takes the largest.
InSameOrder(s, t) == Decreasing([i \in DOMAIN s |-> Merged(s[i], t[i])])

\* State.merge: the largest set of one takes the smallest of the other.
MergeStates(s, t) == 
    Decreasing(AsList([i \in DOMAIN s |-> Merged(s[i], t[Len(s) + 1 - i])]))

\* The initial heap: with equal_size, states of k rows of neighbouring lengths,
\* otherwise a state for every row.
Heap(lens, k, equalSize) ==
    LET byLength == SortedBy([i \in DOMAIN lens |-> i],
                            LAMBDA i, j : lens[i] < lens[j] \/ (lens[i] = lens[j] /\ i < j))
    IN  IF equalSize
        THEN {Decreasing([i \in 1..k |-> OneRow(lens, byLength[g * k + i])]) :
              g \in 0..(Len(lens) \div k - 1)}
        ELSE {[i \in 1..k |-> IF i = 1 THEN OneRow(lens, r) ELSE NoRows] : r \in DOMAIN lens}

\* One turn of the loop: the two states popped first become one.
MergeFirstTwo(heap) ==
    LET first == Popped(heap)
        second == Popped(heap \ {first})
    IN  (heap \ {first, second}) \cup {MergeStates(first, second)}

KarmarkarKarp(lens, k, equalSize) ==
    LET states == IF equalSize THEN Len(lens) \div k ELSE Len(lens)
        after[n \in 0..(states - 1)] ==
            IF n = 0 THEN Heap(lens, k, equalSize) ELSE MergeFirstTwo(after[n - 1])
        final == CHOOSE s \in after[states - 1] : TRUE
    IN  [i \in 1..k |-> final[i].items]

\* What karmarkar_karp and _check_and_sort_partitions assert of the result.
IsPartition(lens, k, equalSize, parts) ==
    /\ Len(parts) = k
    /\ \A i \in 1..k : parts[i] # <<>>
    /\ equalSize => \A i \in 1..k : Len(parts[i]) * k = Len(lens)
    /\ UNION {ToSet(parts[i]) : i \in 1..k} = DOMAIN lens

BalancedPartitions(lens, k, equalSize) ==
    LET parts == KarmarkarKarp(lens, k, equalSize)
    IN  [i \in 1..k |-> SortedBy(parts[i], LAMBDA r, q : r < q)]

\* rearrange_micro_batches: how many micro-batches a rank would choose alone.
MicroBatchesNeeded(lens, maxTokens) ==
    CeilDiv(Tokens(lens, [i \in DOMAIN lens |-> i]), maxTokens)

\* get_reverse_idx
ReverseIdx(idxMap) == [i \in DOMAIN idxMap |-> CHOOSE j \in DOMAIN idxMap : idxMap[j] = i]

===============================================================================
