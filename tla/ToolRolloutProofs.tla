-------------------------- MODULE ToolRolloutProofs --------------------------
(***************************************************************************)
(* The five invariants of ToolRollout.tla and what a turn does to what a   *)
(* row tells, for every constant.                                          *)
(*                                                                         *)
(* The invariant they rest on (IndInv) is Sound of every row and of every  *)
(* finished response: a condition on each token and its mask bit that      *)
(* looks backward only, so that appending and cutting keep it, and that    *)
(* summarising keeps because a summary answers what its result answered.   *)
(* Where a row stands in its round is InTurn or Done, and IsChild says     *)
(* which finished response of its prompt a refined row came from.  The     *)
(* mask of a refined prefix is right where results and pieces of the mask  *)
(* are paired rightly, which is an argument about two ascending lists      *)
(* (Paired).  That a turn changes a row only by digesting it               *)
(* (ContextsDigested) rests on the same invariant: summarising leaves      *)
(* memories where they are, so the digest keeps each of its parts.         *)
(***************************************************************************)
EXTENDS ToolRollout, SequenceFacts

-------------------------------------------------------------------------------
(* Tokens                                                                      *)

IsOpen(t)   == t.says = "<search>"
IsHead(t)   == t.says \in {"<result>", "<result>error", "<result_summary>"}
IsTail(t)   == t.says \in {"</result>", "memory", "quote", "excerpt"}
IsMemory(t) == t.src \in {"result", "summary"}

Said      == [src : {"policy"}, says : {"<think>", "</search>", "<answer>", "</answer>"}]
Budget    == [src : {"prefix"}, says : {"budget reached"}]
Closing   == [src : {"closing"}, says : {"</answer>"}]
Asked     == [src : {"policy", "refiner"}, says : {"<search>"}, query : Query]
Retrieved == [src : {"result"}, says : {"<result>", "<result>error", "</result>"}, query : Query]
Summary   == [src : {"summary"}, says : {"<result_summary>", "memory", "quote", "excerpt"},
              query : Query]
Token     == Said \cup Budget \cup Closing \cup Asked \cup Retrieved \cup Summary

\* What a token's writer says of it.
LEMMA TokenKinds ==
    ASSUME NEW t \in Token
    PROVE  /\ IsMemory(t) <=> IsHead(t) \/ IsTail(t)
           /\ ~(IsHead(t) /\ IsTail(t))
           /\ IsMemory(t) \/ IsOpen(t) => t.query \in Query
           /\ IsOpen(t) => Generated(t)
           /\ ~Generated(t) <=> IsMemory(t) \/ t.src = "prefix"
           /\ ~(IsMemory(t) /\ t.src = "prefix")
           /\ IsMemory(t) => t.src = "result" \/ t.src = "summary"
           /\ t.src = "result" \/ t.src = "summary" => IsMemory(t)
BY DEF Token, Said, Budget, Closing, Asked, Retrieved, Summary, IsOpen, IsHead, IsTail, IsMemory,
       Generated

\* Which tokens the code takes for results.
LEMMA ResultKinds ==
    ASSUME NEW t \in Token
    PROVE  /\ StartsResult(t) <=> t.src = "result" /\ IsHead(t)
           /\ HasResultClose(t) => IsTail(t)
           /\ HasResultOpen(t) => IsMemory(t)
           /\ t.src = "result" /\ IsTail(t) => HasResultClose(t) /\ ~HasResultOpen(t)
           /\ t.src = "result" /\ IsHead(t) => HasResultOpen(t)
           /\ t.src = "summary" /\ HasResultClose(t) => HasResultOpen(t) /\ t.says = "quote"
           /\ t.src = "summary" /\ HasResultOpen(t) => IsTail(t)
BY DEF Token, Said, Budget, Closing, Asked, Retrieved, Summary, IsHead, IsTail, IsMemory,
       StartsResult, HasResultClose, HasResultOpen

\* The tokens the actions write.
LEMMA NewTokens ==
    /\ Think \in Token /\ Verdict \in Token /\ CloseSearch \in Token
    /\ CloseAnswer("policy") \in Token /\ CloseAnswer("closing") \in Token
    /\ Word("prefix", "budget reached") \in Token
    /\ \A q \in Query : Ask("policy", q) \in Token /\ Ask("refiner", q) \in Token
BY DEF Token, Said, Budget, Closing, Asked, Think, Verdict, CloseSearch, CloseAnswer, Word, Ask

\* Two tokens about a query: the beginning of a result or a summary and its end.
IsPair(w, src, q) ==
    /\ w \in Seq(Token) /\ Len(w) = 2
    /\ IsHead(w[1]) /\ w[1].src = src /\ w[1].query = q
    /\ IsTail(w[2]) /\ w[2].src = src /\ w[2].query = q

LEMMA ResultIs == ASSUME NEW q \in Query, NEW found \in BOOLEAN PROVE IsPair(Result(q, found), "result", q)
<1> DEFINE a == [src |-> "result", says |-> IF found THEN "<result>" ELSE "<result>error", query |-> q]
           b == [src |-> "result", says |-> "</result>", query |-> q]
<1>1. a \in Token /\ b \in Token /\ IsHead(a) /\ IsTail(b)
    BY DEF Token, Retrieved, IsHead, IsTail
<1>2. a.src = "result" /\ a.query = q /\ b.src = "result" /\ b.query = q
    OBVIOUS
<1>3. Result(q, found) = <<a, b>>
    BY DEF Result
<1> HIDE DEF a, b
<1> QED BY <1>1, <1>2, <1>3 DEF IsPair

LEMMA SummaryIs ==
    ASSUME NEW t, t.query \in Query
    PROVE  IsPair(ResultSummary(t), "summary", t.query)
<1> DEFINE a == [src |-> "summary", says |-> "<result_summary>", query |-> t.query]
           quotes == setting.mode = "truncate" \/ t.query \in UnsummedQuery
           short == t.says = "<result>error" \/ t.query \in ShortQuery
           b == [src |-> "summary", query |-> t.query,
                 says |-> IF ~quotes THEN "memory" ELSE IF short THEN "quote" ELSE "excerpt"]
<1>1. a \in Token /\ IsHead(a) /\ a.src = "summary" /\ a.query = t.query
    BY DEF Token, Summary, IsHead
<1>2. b \in Token /\ IsTail(b) /\ b.src = "summary" /\ b.query = t.query
    <2> DEFINE w == IF ~quotes THEN "memory" ELSE IF short THEN "quote" ELSE "excerpt"
    <2>1. w \in {"memory", "quote", "excerpt"}
        OBVIOUS
    <2> HIDE DEF w
    <2>2. b = [src |-> "summary", query |-> t.query, says |-> w]
        BY DEF w
    <2> QED BY <2>1, <2>2 DEF Token, Summary, IsTail
<1>3. ResultSummary(t) = <<a, b>>
    BY DEF ResultSummary
<1> HIDE DEF a, b
<1> QED BY <1>1, <1>2, <1>3 DEF IsPair

-------------------------------------------------------------------------------
(* Rows                                                                        *)

RowSet(s) == [prompt : DOMAIN s.prompts, given : Nat, ids : Seq(Token), mask : Seq({0, 1}),
              room : Int, active : BOOLEAN]

IsRow(s, r) == r \in RowSet(s) /\ Len(r.ids) = Len(r.mask)

\* The last search before the i-th token is the o-th token.
LastOpen(ids, i, o) ==
    o \in 1..(i - 1) /\ IsOpen(ids[o]) /\ \A k \in (o + 1)..(i - 1) : ~IsOpen(ids[k])

\* A result or summary begins at the i-th token, or ends there, and is not learned from.
HeadAt(r, i) == r.mask[i] = 0 /\ IsHead(r.ids[i])
TailAt(r, i) == r.mask[i] = 0 /\ IsTail(r.ids[i])

\* What was generated is marked so, and behind what the row was given no other.
ToldOk(r, i) ==
    /\ Generated(r.ids[i]) => r.mask[i] = 1
    /\ i > r.given /\ r.mask[i] = 1 => Generated(r.ids[i])

\* A memory begins behind generated text, with the query of the last search; in a row that
\* was given nothing that search is two tokens back, and where earlier results are
\* summarised only summaries come before.
HeadOk(s, r, i) ==
    HeadAt(r, i) =>
        /\ i > 1 /\ r.mask[i - 1] = 1
        /\ \E o \in 1..(i - 1) : LastOpen(r.ids, i, o) /\ r.ids[o].query = r.ids[i].query
        /\ r.given = 0 => i > 2 /\ IsOpen(r.ids[i - 2])
        /\ s.mode # "none" /\ r.given = 0 =>
               \A j \in 1..(i - 1) : HeadAt(r, j) => r.ids[j].src = "summary"
        /\ s.mode # "none" /\ i <= r.given => r.ids[i].src = "summary"

\* A memory is its beginning and its end, and nothing hidden follows it but the prefix of a
\* forced answer.
TailOk(r, i) ==
    /\ TailAt(r, i) =>
           i > 1 /\ HeadAt(r, i - 1)
           /\ r.ids[i - 1].src = r.ids[i].src /\ r.ids[i - 1].query = r.ids[i].query
    /\ i > 1 /\ HeadAt(r, i - 1) => TailAt(r, i)
    /\ i > 1 /\ TailAt(r, i - 1) => r.mask[i] = 1 \/ r.ids[i].src = "prefix"

\* The prefix of a forced answer follows a memory or nothing, and no memory follows it.
\* The refiner wrote only what the row was given.
EndOk(r, i) ==
    /\ r.ids[i].src = "prefix" /\ r.given = 0 => i = 1 \/ r.mask[i - 1] = 0
    /\ IsMemory(r.ids[i]) => \A j \in 1..(i - 1) : r.ids[j].src # "prefix"
    /\ r.ids[i].src = "refiner" => i <= r.given

PlaceOk(s, r, i) == ToldOk(r, i) /\ HeadOk(s, r, i) /\ TailOk(r, i) /\ EndOk(r, i)

\* All of it, for every token.  Every condition looks back only, so that a row keeps it when
\* it is cut and its own tokens keep it when it is extended.
Sound(s, r) ==
    IsRow(s, r) /\ r.given <= Len(r.ids) /\ \A i \in 1..Len(r.ids) : PlaceOk(s, r, i)

LEMMA RowIs ==
    ASSUME NEW s, NEW r, IsRow(s, r)
    PROVE  /\ r \in RowSet(s) /\ r.prompt \in DOMAIN s.prompts /\ r.given \in Nat
           /\ r.ids \in Seq(Token) /\ r.mask \in Seq({0, 1}) /\ Len(r.mask) = Len(r.ids)
           /\ Len(r.ids) \in Nat /\ r.room \in Int /\ r.active \in BOOLEAN
           /\ \A i \in 1..Len(r.ids) : r.ids[i] \in Token /\ r.mask[i] \in {0, 1}
<1>1. r \in RowSet(s) /\ Len(r.ids) = Len(r.mask)
    BY DEF IsRow
<1>2. /\ r.prompt \in DOMAIN s.prompts /\ r.given \in Nat
      /\ r.ids \in Seq(Token) /\ r.mask \in Seq({0, 1})
      /\ r.room \in Int /\ r.active \in BOOLEAN
    BY <1>1 DEF RowSet
<1> QED BY <1>1, <1>2, LenProperties, ElementOfSeq

\* Up to the k-th token the rows are the same.
SameUpTo(r, t, k) ==
    t.given = r.given /\ \A i \in 1..k : t.ids[i] = r.ids[i] /\ t.mask[i] = r.mask[i]

LEMMA PlaceSame ==
    ASSUME NEW s, NEW r, NEW t, NEW i \in Nat \ {0}, SameUpTo(r, t, i), PlaceOk(s, r, i)
    PROVE  PlaceOk(s, t, i)
<1>1. /\ t.given = r.given /\ i \in 1..i
      /\ \A j \in 1..i : t.ids[j] = r.ids[j] /\ t.mask[j] = r.mask[j]
    BY DEF SameUpTo
<1>2. t.ids[i] = r.ids[i] /\ t.mask[i] = r.mask[i]
    BY <1>1
<1>3. \A j \in 1..i : (HeadAt(t, j) <=> HeadAt(r, j)) /\ (TailAt(t, j) <=> TailAt(r, j))
    BY <1>1 DEF HeadAt, TailAt
<1>4. (HeadAt(t, i) <=> HeadAt(r, i)) /\ (TailAt(t, i) <=> TailAt(r, i))
    BY <1>1, <1>3
<1>5. i > 1 => /\ i - 1 \in 1..i /\ t.ids[i - 1] = r.ids[i - 1] /\ t.mask[i - 1] = r.mask[i - 1]
               /\ HeadAt(t, i - 1) <=> HeadAt(r, i - 1)
               /\ TailAt(t, i - 1) <=> TailAt(r, i - 1)
    BY <1>1, <1>3
<1>6. ToldOk(t, i)
    BY <1>1, <1>2 DEF PlaceOk, ToldOk
<1>7. TailOk(t, i)
    BY <1>2, <1>4, <1>5 DEF PlaceOk, TailOk
<1>8. EndOk(t, i)
    <2>1. EndOk(r, i) /\ \A j \in 1..(i - 1) : t.ids[j] = r.ids[j]
        BY <1>1 DEF PlaceOk
    <2>2. i # 1 => t.mask[i - 1] = r.mask[i - 1]
        BY <1>5
    <2> QED BY <1>1, <1>2, <2>1, <2>2 DEF EndOk
<1>9. HeadOk(s, t, i)
    <2> SUFFICES ASSUME HeadAt(t, i) PROVE HeadOk(s, t, i)
        BY DEF HeadOk
    <2>1. HeadOk(s, r, i) /\ HeadAt(r, i)
        BY <1>4 DEF PlaceOk
    <2>2. i > 1 /\ t.mask[i - 1] = 1
        BY <1>5, <2>1 DEF HeadOk
    <2>3. PICK o \in 1..(i - 1) : LastOpen(r.ids, i, o) /\ r.ids[o].query = r.ids[i].query
        BY <2>1 DEF HeadOk
    <2>4. LastOpen(t.ids, i, o) /\ t.ids[o].query = t.ids[i].query
        <3>1. o \in 1..i /\ t.ids[o] = r.ids[o]
            BY <1>1
        <3>2. \A k \in (o + 1)..(i - 1) : k \in 1..i /\ t.ids[k] = r.ids[k]
            BY <1>1
        <3> QED BY <1>2, <2>3, <3>1, <3>2 DEF LastOpen
    <2>5. t.given = 0 => i > 2 /\ IsOpen(t.ids[i - 2])
        <3>1. t.given = 0 => i > 2 /\ IsOpen(r.ids[i - 2])
            BY <1>1, <2>1 DEF HeadOk
        <3>2. i > 2 => i - 2 \in 1..i
            OBVIOUS
        <3> QED BY <1>1, <3>1, <3>2
    <2>6. s.mode # "none" /\ t.given = 0 =>
              \A j \in 1..(i - 1) : HeadAt(t, j) => t.ids[j].src = "summary"
        <3>1. s.mode # "none" /\ t.given = 0 =>
                  \A j \in 1..(i - 1) : HeadAt(r, j) => r.ids[j].src = "summary"
            BY <1>1, <2>1 DEF HeadOk
        <3>2. \A j \in 1..(i - 1) : j \in 1..i
            OBVIOUS
        <3> QED BY <1>1, <1>3, <3>1, <3>2
    <2>7. s.mode # "none" /\ i <= t.given => t.ids[i].src = "summary"
        BY <1>1, <1>2, <2>1 DEF HeadOk
    <2> QED BY <2>2, <2>4, <2>5, <2>6, <2>7 DEF HeadOk
<1> QED BY <1>6, <1>7, <1>8, <1>9 DEF PlaceOk

\* A row that is as long as a sound one and the same, or ends before it.
LEMMA SoundSame ==
    ASSUME NEW s, NEW r, Sound(s, r), NEW t, IsRow(s, t), Len(t.ids) <= Len(r.ids),
           t.given <= Len(t.ids), SameUpTo(r, t, Len(t.ids))
    PROVE  Sound(s, t)
<1>1. Len(t.ids) \in Nat /\ Len(r.ids) \in Nat
    BY RowIs DEF Sound
<1>2. ASSUME NEW i \in 1..Len(t.ids) PROVE PlaceOk(s, t, i)
    <2>1. SameUpTo(r, t, i)
        BY <1>1 DEF SameUpTo
    <2>2. PlaceOk(s, r, i) /\ i \in Nat \ {0}
        BY <1>1 DEF Sound
    <2> QED BY <2>1, <2>2, PlaceSame
<1> QED BY <1>2 DEF Sound

\* What is appended stands behind what there was, all with the one mask bit.
Extends(r, t, w, bit) ==
    /\ t.prompt = r.prompt /\ t.given = r.given /\ t.room = r.room /\ t.active = r.active
    /\ Len(t.ids) = Len(r.ids) + Len(w) /\ SameUpTo(r, t, Len(r.ids))
    /\ \A y \in 1..Len(w) : t.ids[Len(r.ids) + y] = w[y] /\ t.mask[Len(r.ids) + y] = bit

LEMMA JoinIs ==
    ASSUME NEW S, NEW a \in Seq(S), NEW b \in Seq(S)
    PROVE  /\ a \o b \in Seq(S) /\ Len(a \o b) = Len(a) + Len(b)
           /\ \A i \in 1..Len(a) : (a \o b)[i] = a[i]
           /\ \A y \in 1..Len(b) : (a \o b)[Len(a) + y] = b[y]
OBVIOUS

LEMMA ExtendIs ==
    ASSUME NEW s, NEW r, IsRow(s, r), NEW w \in Seq(Token), NEW bit \in {0, 1}
    PROVE  IsRow(s, Extend(r, w, bit)) /\ Extends(r, Extend(r, w, bit), w, bit)
<1> DEFINE t == Extend(r, w, bit)
           bits == [i \in 1..Len(w) |-> bit]
           ids == r.ids \o w
           mask == r.mask \o bits
<1>1. /\ r \in RowSet(s) /\ r.ids \in Seq(Token) /\ r.mask \in Seq({0, 1})
      /\ Len(r.mask) = Len(r.ids) /\ Len(r.ids) \in Nat /\ Len(w) \in Nat
    BY RowIs
<1>2. bits \in Seq({0, 1}) /\ Len(bits) = Len(w) /\ \A y \in 1..Len(w) : bits[y] = bit
    BY <1>1
<1>3. /\ ids \in Seq(Token) /\ Len(ids) = Len(r.ids) + Len(w)
      /\ \A i \in 1..Len(r.ids) : ids[i] = r.ids[i]
      /\ \A y \in 1..Len(w) : ids[Len(r.ids) + y] = w[y]
    BY <1>1, JoinIs
<1>4. /\ mask \in Seq({0, 1}) /\ Len(mask) = Len(r.ids) + Len(w)
      /\ \A i \in 1..Len(r.ids) : mask[i] = r.mask[i]
      /\ \A y \in 1..Len(w) : mask[Len(r.ids) + y] = bit
    <2> HIDE DEF bits
    <2>1. /\ mask \in Seq({0, 1}) /\ Len(mask) = Len(r.mask) + Len(bits)
          /\ \A i \in 1..Len(r.mask) : mask[i] = r.mask[i]
          /\ \A y \in 1..Len(bits) : mask[Len(r.mask) + y] = bits[y]
        <3>1. r.mask \in Seq({0, 1}) /\ bits \in Seq({0, 1})
            BY <1>1, <1>2
        <3>2. mask = r.mask \o bits
            OBVIOUS
        <3> DEFINE a == r.mask
                   B == {0, 1}
        <3> HIDE DEF bits, a, B, mask
        <3>3. a \in Seq(B) /\ bits \in Seq(B) /\ mask = a \o bits
            BY <3>1, <3>2 DEF a, B
        <3>4. /\ a \o bits \in Seq(B) /\ Len(a \o bits) = Len(a) + Len(bits)
              /\ \A i \in 1..Len(a) : (a \o bits)[i] = a[i]
              /\ \A y \in 1..Len(bits) : (a \o bits)[Len(a) + y] = bits[y]
            BY <3>3, JoinIs
        <3> QED BY <3>3, <3>4 DEF a, B
    <2> QED BY <1>1, <1>2, <2>1
<1>5. t = [r EXCEPT !.ids = ids, !.mask = mask]
    BY DEF Extend
<1> HIDE DEF ids, mask, t
<1>6. /\ t \in RowSet(s) /\ t.ids = ids /\ t.mask = mask
      /\ t.prompt = r.prompt /\ t.given = r.given /\ t.room = r.room /\ t.active = r.active
    BY <1>1, <1>3, <1>4, <1>5 DEF RowSet
<1> QED BY <1>3, <1>4, <1>6 DEF IsRow, Extends, SameUpTo, t

LEMMA ExtendSound ==
    ASSUME NEW s, NEW r, Sound(s, r), NEW t, IsRow(s, t), NEW w, NEW bit, Extends(r, t, w, bit),
           Len(w) \in Nat,
           \A y \in 1..Len(w) : PlaceOk(s, t, Len(r.ids) + y)
    PROVE  Sound(s, t)
<1>1. Len(r.ids) \in Nat /\ r.given \in Nat /\ r.given <= Len(r.ids)
    BY RowIs DEF Sound
<1>2. /\ t.given = r.given /\ Len(t.ids) = Len(r.ids) + Len(w) /\ SameUpTo(r, t, Len(r.ids))
    BY DEF Extends
<1>3. ASSUME NEW i \in 1..Len(t.ids) PROVE PlaceOk(s, t, i)
    <2>1. CASE i <= Len(r.ids)
        <3>1. i \in 1..Len(r.ids) /\ i \in Nat \ {0}
            BY <1>1, <1>2, <2>1
        <3>2. SameUpTo(r, t, i)
            BY <1>1, <1>2, <3>1 DEF SameUpTo
        <3>3. PlaceOk(s, r, i)
            BY <3>1 DEF Sound
        <3> QED BY <3>1, <3>2, <3>3, PlaceSame
    <2>2. CASE i > Len(r.ids)
        <3>1. i - Len(r.ids) \in 1..Len(w) /\ i = Len(r.ids) + (i - Len(r.ids))
            BY <1>1, <1>2, <2>2
        <3> QED BY <3>1
    <2> QED BY <1>1, <1>2, <2>1, <2>2
<1>4. t.given <= Len(t.ids)
    BY <1>1, <1>2
<1> QED BY <1>3, <1>4 DEF Sound

\* A row that does not break off within a memory.
Complete(r) == Len(r.ids) # 0 => ~HeadAt(r, Len(r.ids))

\* Generated text may follow everything but the beginning of a memory.
LEMMA SaySound ==
    ASSUME NEW s, NEW r, Sound(s, r), Complete(r), NEW w \in Seq(Token),
           \A y \in 1..Len(w) : Generated(w[y]) /\ w[y].src # "refiner"
    PROVE  Sound(s, Extend(r, w, 1)) /\ Complete(Extend(r, w, 1))
<1> DEFINE t == Extend(r, w, 1)
           n == Len(r.ids)
<1>1. IsRow(s, t) /\ Extends(r, t, w, 1)
    BY ExtendIs DEF Sound
<1>2. n \in Nat /\ r.given \in Nat /\ r.given <= n /\ Len(w) \in Nat
    BY RowIs DEF Sound
<1>3. /\ t.given = r.given /\ Len(t.ids) = n + Len(w) /\ SameUpTo(r, t, n)
      /\ \A y \in 1..Len(w) : t.ids[n + y] = w[y] /\ t.mask[n + y] = 1
    BY <1>1 DEF Extends
<1> HIDE DEF t
<1>4. n # 0 => t.mask[n] = r.mask[n] /\ t.ids[n] = r.ids[n] /\ ~HeadAt(t, n)
    <2> SUFFICES ASSUME n # 0
                 PROVE  t.mask[n] = r.mask[n] /\ t.ids[n] = r.ids[n] /\ ~HeadAt(t, n)
        OBVIOUS
    <2>1. n \in 1..n
        BY <1>2
    <2>2. t.mask[n] = r.mask[n] /\ t.ids[n] = r.ids[n]
        BY <1>3, <2>1 DEF SameUpTo
    <2> QED BY <2>2 DEF Complete, HeadAt
<1>5. ASSUME NEW y \in 1..Len(w) PROVE PlaceOk(s, t, n + y)
    <2> DEFINE i == n + y
    <2>1. t.ids[i] = w[y] /\ t.mask[i] = 1 /\ i \in Nat \ {0} /\ i > r.given
        BY <1>2, <1>3
    <2>2. Generated(t.ids[i]) /\ t.ids[i].src # "refiner"
        BY <2>1
    <2>3. t.ids[i].src # "prefix" /\ ~IsMemory(t.ids[i])
        BY <2>2 DEF Generated, IsMemory
    <2>4. ~HeadAt(t, i) /\ ~TailAt(t, i)
        BY <2>1 DEF HeadAt, TailAt
    <2>5. i > 1 => ~HeadAt(t, i - 1)
        <3>1. CASE y = 1
            <4>1. i - 1 = n /\ i \in Nat
                BY <1>2, <3>1
            <4> HIDE DEF n, i
            <4>2. i > 1 => n # 0
                BY <1>2, <4>1
            <4> QED BY <1>4, <4>1, <4>2
        <3>2. CASE y # 1
            <4>1. y - 1 \in 1..Len(w) /\ i - 1 = n + (y - 1)
                BY <1>2, <3>2
            <4>2. t.mask[i - 1] = 1
                BY <1>3, <4>1
            <4> QED BY <4>2 DEF HeadAt
        <3> QED BY <3>1, <3>2
    <2> HIDE DEF i
    <2>6. ToldOk(t, i)
        BY <2>1, <2>2 DEF ToldOk
    <2>7. HeadOk(s, t, i)
        BY <2>4 DEF HeadOk
    <2>8. TailOk(t, i)
        BY <2>1, <2>4, <2>5 DEF TailOk
    <2>9. EndOk(t, i)
        BY <2>2, <2>3 DEF EndOk
    <2> QED BY <2>6, <2>7, <2>8, <2>9 DEF PlaceOk, i
<1>6. Sound(s, t)
    BY <1>1, <1>2, <1>5, ExtendSound
<1>7. Complete(t)
    <2>1. CASE Len(w) = 0
        BY <1>2, <1>3, <1>4, <2>1 DEF Complete
    <2>2. CASE Len(w) # 0
        <3>1. Len(w) \in 1..Len(w)
            BY <1>2, <2>2
        <3>2. t.mask[Len(t.ids)] = 1
            BY <1>3, <3>1
        <3> QED BY <3>2 DEF Complete, HeadAt
    <2> QED BY <2>1, <2>2
<1> QED BY <1>6, <1>7 DEF t

-------------------------------------------------------------------------------
(* Cutting a row                                                               *)

LEMMA SettingIs ==
    ASSUME setting \in Setting
    PROVE  /\ setting.n \in Nat \ {0} /\ setting.turns \in Nat /\ setting.length \in Nat \ {0}
           /\ setting.turns # 0 \/ setting.length > AnswerRoom
           /\ setting.maxNew \in Nat \ {0} /\ setting.width \in Nat
           /\ setting.prompts \in Seq(1..setting.width)
           /\ PrefixLength \in Nat \ {0} /\ AnswerRoom \in Nat /\ MaxAnswer \in Nat \ {0}
           /\ ShortQuery \subseteq Query
BY ToolAssumption

LEMMA LesserIs ==
    ASSUME NEW a \in Int, NEW b \in Int
    PROVE  Min({a, b}) = IF a <= b THEN a ELSE b
<1> DEFINE m == CHOOSE x \in {a, b} : \A y \in {a, b} : x <= y
<1>1. m \in {a, b} /\ \A y \in {a, b} : m <= y
    <2>1. \E x \in {a, b} : \A y \in {a, b} : x <= y
        OBVIOUS
    <2> QED BY <2>1
<1> HIDE DEF m
<1>2. m = IF a <= b THEN a ELSE b
    BY <1>1
<1> QED BY <1>2 DEF Min, m

LEMMA GreaterIs ==
    ASSUME NEW a \in Int, NEW b \in Int
    PROVE  Max({a, b}) = IF a >= b THEN a ELSE b
<1> DEFINE m == CHOOSE x \in {a, b} : \A y \in {a, b} : x >= y
<1>1. m \in {a, b} /\ \A y \in {a, b} : m >= y
    <2>1. \E x \in {a, b} : \A y \in {a, b} : x >= y
        OBVIOUS
    <2> QED BY <2>1
<1> HIDE DEF m
<1>2. m = IF a >= b THEN a ELSE b
    BY <1>1
<1> QED BY <1>2 DEF Max, m

LEMMA TakeIs ==
    ASSUME NEW S, NEW q \in Seq(S), NEW k \in Nat
    PROVE  /\ Take(q, k) \in Seq(S)
           /\ Len(Take(q, k)) = IF k <= Len(q) THEN k ELSE Len(q)
           /\ \A i \in 1..Len(Take(q, k)) : Take(q, k)[i] = q[i]
<1> DEFINE m == IF k <= Len(q) THEN k ELSE Len(q)
<1>1. Min({k, Len(q)}) = m
    BY LesserIs, LenProperties
<1>2. m \in Nat /\ m <= Len(q)
    OBVIOUS
<1> HIDE DEF m
<1>3. Take(q, k) = SubSeq(q, 1, m)
    BY <1>1 DEF Take
<1>4. /\ SubSeq(q, 1, m) \in Seq(S) /\ Len(SubSeq(q, 1, m)) = m
      /\ \A i \in 1..m : SubSeq(q, 1, m)[i] = q[i]
    BY <1>2
<1> QED BY <1>3, <1>4 DEF m

\* t is r up to a token, and longer than what was given.
IsCut(r, t) ==
    /\ t.prompt = r.prompt /\ t.given = r.given /\ SameUpTo(r, t, Len(t.ids))
    /\ Len(t.ids) = IF Len(r.ids) <= setting.length THEN Len(r.ids) ELSE setting.length

LEMMA CutIs ==
    ASSUME setting \in Setting, NEW s, NEW r, IsRow(s, r)
    PROVE  /\ IsRow(s, Cut(r)) /\ IsCut(r, Cut(r))
           /\ Cut(r).room = r.room /\ Cut(r).active = r.active
<1> DEFINE k == setting.length
           ids == Take(r.ids, k)
           mask == Take(r.mask, k)
           t == Cut(r)
<1>1. /\ r \in RowSet(s) /\ r.ids \in Seq(Token) /\ r.mask \in Seq({0, 1})
      /\ Len(r.mask) = Len(r.ids) /\ Len(r.ids) \in Nat
    BY RowIs
<1>2. k \in Nat
    BY SettingIs
<1> HIDE DEF k
<1>3. /\ ids \in Seq(Token) /\ Len(ids) = IF k <= Len(r.ids) THEN k ELSE Len(r.ids)
      /\ \A i \in 1..Len(ids) : ids[i] = r.ids[i]
    BY <1>1, <1>2, TakeIs
<1>4. /\ mask \in Seq({0, 1}) /\ Len(mask) = IF k <= Len(r.mask) THEN k ELSE Len(r.mask)
      /\ \A i \in 1..Len(mask) : mask[i] = r.mask[i]
    <2> DEFINE B == {0, 1}
               q == r.mask
    <2>1. q \in Seq(B)
        BY <1>1
    <2> HIDE DEF B, q
    <2>2. /\ Take(q, k) \in Seq(B) /\ Len(Take(q, k)) = IF k <= Len(q) THEN k ELSE Len(q)
          /\ \A i \in 1..Len(Take(q, k)) : Take(q, k)[i] = q[i]
        BY <1>2, <2>1, TakeIs
    <2> QED BY <2>2 DEF B, q
<1>5. t = [r EXCEPT !.ids = ids, !.mask = mask]
    BY DEF Cut, k
<1> HIDE DEF ids, mask, t
<1>6. /\ t \in RowSet(s) /\ t.ids = ids /\ t.mask = mask
      /\ t.prompt = r.prompt /\ t.given = r.given /\ t.room = r.room /\ t.active = r.active
    BY <1>1, <1>3, <1>4, <1>5 DEF RowSet
<1>7. Len(ids) = Len(mask) /\ Len(ids) = IF Len(r.ids) <= k THEN Len(r.ids) ELSE k
    BY <1>1, <1>2, <1>3, <1>4
<1> QED BY <1>1, <1>3, <1>4, <1>6, <1>7 DEF IsRow, IsCut, SameUpTo, t, k

\* What a row is but for where it stands in the loop.
SameText(r, t) ==
    t.prompt = r.prompt /\ t.given = r.given /\ t.ids = r.ids /\ t.mask = r.mask

LEMMA SameTextSound ==
    ASSUME NEW s, NEW r, Sound(s, r), NEW t \in RowSet(s), SameText(r, t)
    PROVE  Sound(s, t)
<1>1. Len(t.ids) = Len(r.ids) /\ Len(r.ids) \in Nat /\ SameUpTo(r, t, Len(t.ids))
      /\ t.given <= Len(t.ids) /\ Len(t.ids) <= Len(r.ids) /\ IsRow(s, t)
    BY RowIs DEF SameText, SameUpTo, Sound, IsRow
<1> QED BY <1>1, SoundSame

LEMMA CutSound ==
    ASSUME setting \in Setting, NEW s, NEW r, Sound(s, r), r.given <= setting.length
    PROVE  Sound(s, Cut(r))
<1> DEFINE t == Cut(r)
<1>1. IsRow(s, r) /\ r.given <= Len(r.ids)
    BY DEF Sound
<1>2. IsRow(s, t) /\ IsCut(r, t)
    BY <1>1, CutIs
<1> HIDE DEF t
<1>3. Len(r.ids) \in Nat /\ r.given \in Nat /\ setting.length \in Nat
    BY <1>1, RowIs, SettingIs
<1>4. Len(t.ids) <= Len(r.ids) /\ t.given <= Len(t.ids) /\ SameUpTo(r, t, Len(t.ids))
    BY <1>1, <1>2, <1>3 DEF IsCut
<1>5. Sound(s, t)
    BY <1>2, <1>4, SoundSame
<1> QED BY <1>5 DEF t

\* A row elsewhere in the loop.
Moved(r, t, room, active) == t = [r EXCEPT !.room = room, !.active = active]

LEMMA MovedIs ==
    ASSUME NEW s, NEW r \in RowSet(s), NEW room \in Int, NEW active \in BOOLEAN,
           NEW t, Moved(r, t, room, active)
    PROVE  t \in RowSet(s) /\ SameText(r, t) /\ t.room = room /\ t.active = active
BY DEF RowSet, SameText, Moved

LEMMA ResponseIs ==
    ASSUME setting \in Setting, NEW s, NEW r, Sound(s, r), r.given <= setting.length
    PROVE  Sound(s, Response(r)) /\ IsCut(r, Response(r))
<1> DEFINE t == Cut(r)
           u == [t EXCEPT !.room = 0, !.active = FALSE]
<1>1. IsRow(s, r)
    BY DEF Sound
<1>2. Sound(s, t) /\ IsCut(r, t) /\ t \in RowSet(s)
    BY <1>1, CutIs, CutSound DEF Sound, IsRow
<1> HIDE DEF t
<1>3. u \in RowSet(s) /\ SameText(t, u)
    <2> DEFINE o == 0
               off == FALSE
    <2>1. Moved(t, u, o, off) /\ o \in Int /\ off \in BOOLEAN
        BY DEF Moved
    <2> HIDE DEF u, o, off
    <2>2. u \in RowSet(s) /\ SameText(t, u) /\ u.room = o /\ u.active = off
        BY <1>2, <2>1, MovedIs
    <2> QED BY <2>2
<1>4. Response(r) = u
    <2>1. Response(r) = [t EXCEPT !.active = FALSE, !.room = 0]
        BY DEF Response, t
    <2>2. u = [t EXCEPT !.active = FALSE, !.room = 0]
        BY <1>2 DEF RowSet
    <2> QED BY <2>1, <2>2
<1> HIDE DEF u
<1>5. Sound(s, u)
    BY <1>2, <1>3, SameTextSound
<1>6. IsCut(r, u)
    BY <1>2, <1>3 DEF IsCut, SameText, SameUpTo
<1> QED BY <1>4, <1>5, <1>6

LEMMA CheckIs ==
    ASSUME setting \in Setting, NEW s, NEW r, Sound(s, r), r.given <= setting.length,
           NEW stays \in BOOLEAN
    PROVE  /\ Sound(s, CheckLength(r, stays)) /\ IsCut(r, CheckLength(r, stays))
           /\ CheckLength(r, stays).active <=> stays /\ Len(r.ids) < setting.length
           /\ Len(r.ids) < setting.length =>
                  /\ CheckLength(r, stays).room = setting.length - Len(r.ids)
                  /\ SameText(r, CheckLength(r, stays))
<1> DEFINE c == Cut(r)
           a == [c EXCEPT !.active = FALSE]
           b == [r EXCEPT !.room = setting.length - Len(r.ids), !.active = stays]
<1>1. IsRow(s, r) /\ r \in RowSet(s) /\ Len(r.ids) \in Nat /\ setting.length \in Nat
    BY RowIs, SettingIs DEF Sound
<1>2. Sound(s, c) /\ IsCut(r, c) /\ c \in RowSet(s)
    BY <1>1, CutIs, CutSound DEF Sound, IsRow
<1> HIDE DEF c
<1>3. a \in RowSet(s) /\ SameText(c, a) /\ a.active = FALSE
    BY <1>2 DEF RowSet, SameText
<1>4. /\ b \in RowSet(s) /\ SameText(r, b) /\ b.active = stays
      /\ b.room = setting.length - Len(r.ids)
    <2> DEFINE room == setting.length - Len(r.ids)
    <2>1. room \in Int /\ Moved(r, b, room, stays)
        BY <1>1 DEF Moved
    <2> HIDE DEF b, room
    <2>2. b \in RowSet(s) /\ SameText(r, b) /\ b.active = stays /\ b.room = room
        <3>1. r \in RowSet(s)
            BY <1>1
        <3>2. b \in RowSet(s) /\ SameText(r, b) /\ b.room = room /\ b.active = stays
            BY <2>1, <3>1, MovedIs
        <3> QED BY <3>2
    <2> QED BY <2>2 DEF room
<1>5. CheckLength(r, stays) = IF Len(r.ids) >= setting.length THEN a ELSE b
    BY DEF CheckLength, c
<1> HIDE DEF a, b
<1>6. CASE Len(r.ids) >= setting.length
    <2>1. Sound(s, a)
        BY <1>2, <1>3, SameTextSound
    <2>2. IsCut(r, a)
        BY <1>2, <1>3 DEF IsCut, SameText, SameUpTo
    <2>3. ~(Len(r.ids) < setting.length)
        BY <1>1, <1>6
    <2> QED BY <1>3, <1>5, <1>6, <2>1, <2>2, <2>3
<1>7. CASE ~(Len(r.ids) >= setting.length)
    <2>1. Sound(s, b)
        BY <1>4, SameTextSound
    <2>2. Len(r.ids) < setting.length /\ Len(r.ids) <= setting.length
        BY <1>1, <1>7
    <2>3. IsCut(r, b)
        BY <1>4, <2>2 DEF IsCut, SameText, SameUpTo
    <2> QED BY <1>4, <1>5, <1>7, <2>1, <2>2, <2>3
<1> QED BY <1>6, <1>7

-------------------------------------------------------------------------------
(* Summaries                                                                   *)

LEMMA OpensAre ==
    ASSUME NEW S, NEW text \in Seq(S), NEW k \in 1..Len(text)
    PROVE  k \in Opens(text) <=> IsOpen(text[k])
BY LenProperties DEF Opens, Positions, IsOpen

LEMMA OpensUpTo ==
    ASSUME NEW S, NEW text \in Seq(S)
    PROVE  Opens(text) \in SUBSET (1..Len(text))
BY LenProperties DEF Opens, Positions

\* The query of the last search before a token.
LEMMA LastQueryIs ==
    ASSUME NEW S, NEW ids \in Seq(S), NEW i \in Nat, i <= Len(ids) + 1, NEW o, LastOpen(ids, i, o)
    PROVE  /\ Opens(SubSeq(ids, 1, i - 1)) # {} /\ Max(Opens(SubSeq(ids, 1, i - 1))) = o
           /\ LastQuery(SubSeq(ids, 1, i - 1)) = ids[o].query
<1> DEFINE text == SubSeq(ids, 1, i - 1)
           at == Opens(text)
           n == i - 1
<1>1. o \in 1..n /\ n \in Nat /\ n <= Len(ids)
    BY LenProperties DEF LastOpen
<1>2. text \in Seq(S) /\ Len(text) = n /\ \A k \in 1..n : text[k] = ids[k]
    BY <1>1
<1>3. text[o] = ids[o]
    BY <1>1, <1>2
<1> HIDE DEF text, n
<1>4. at \in SUBSET (1..n)
    BY <1>2, OpensUpTo
<1>5. \A k \in 1..n : k \in at <=> IsOpen(ids[k])
    BY <1>2, OpensAre
<1> HIDE DEF at
<1>6. o \in at /\ \A k \in at : k <= o
    <2>1. o \in at
        BY <1>1, <1>5 DEF LastOpen
    <2>2. ASSUME NEW k \in at, k > o PROVE FALSE
        <3>1. k \in 1..n /\ IsOpen(ids[k])
            BY <1>4, <1>5
        <3>2. k \in (o + 1)..(i - 1)
            BY <1>1, <2>2, <3>1 DEF n
        <3> QED BY <3>1, <3>2 DEF LastOpen
    <2> QED BY <1>1, <1>4, <2>1, <2>2
<1>7. Max(at) = o
    <2>1. Max(at) \in at /\ \A x \in at : x <= Max(at)
        BY <1>1, <1>4, <1>6, MaxIsLargest
    <2>2. Max(at) \in 1..n /\ Max(at) <= o /\ o <= Max(at)
        BY <1>4, <1>6, <2>1
    <2> QED BY <1>1, <2>2
<1>8. LastQuery(text) = ids[o].query
    BY <1>3, <1>7 DEF LastQuery, at
<1> QED BY <1>6, <1>7, <1>8 DEF text, n, at

\* A run of equal bits has one beginning.
LEMMA SpanIs ==
    ASSUME NEW mask, NEW i \in Nat, NEW x \in 1..i,
           \A k \in x..i : mask[k] = mask[i], x > 1 => mask[x - 1] # mask[i]
    PROVE  SpanStart(mask, i) = x
<1> DEFINE at == {j \in 1..i : /\ \A k \in j..i : mask[k] = mask[i]
                               /\ j > 1 => mask[j - 1] # mask[i]}
<1>1. x \in at
    OBVIOUS
<1>2. ASSUME NEW j \in at PROVE j = x
    <2>1. j \in 1..i /\ (\A k \in j..i : mask[k] = mask[i]) /\ (j > 1 => mask[j - 1] # mask[i])
        OBVIOUS
    <2> HIDE DEF at
    <2>2. CASE j < x
        <3>1. x - 1 \in j..i /\ x > 1
            BY <2>1, <2>2
        <3> QED BY <2>1, <3>1
    <2>3. CASE j > x
        <3>1. j - 1 \in x..i /\ j > 1
            BY <2>1, <2>3
        <3> QED BY <2>1, <3>1
    <2> QED BY <2>1, <2>2, <2>3
<1> HIDE DEF at
<1>3. at \in SUBSET (1..i) /\ at # {}
    BY <1>1, <1>2
<1>4. Max(at) \in at
    BY <1>3, MaxIsLargest
<1>5. Max(at) = x
    BY <1>2, <1>4
<1> QED BY <1>5 DEF SpanStart, at

\* No answer has been forced.
NotForced(r) == \A i \in 1..Len(r.ids) : r.ids[i].src # "prefix"

\* A hidden token is the beginning of a memory or its end.
LEMMA HiddenIs ==
    ASSUME NEW s, NEW r, Sound(s, r), NotForced(r), NEW i \in 1..Len(r.ids), r.mask[i] = 0
    PROVE  /\ HeadAt(r, i) \/ TailAt(r, i)
           /\ HeadAt(r, i) => i > 1 /\ r.mask[i - 1] = 1 /\ SpanStart(r.mask, i) = i
           /\ TailAt(r, i) =>
                  /\ i > 2 /\ HeadAt(r, i - 1) /\ ~HeadAt(r, i) /\ SpanStart(r.mask, i) = i - 1
                  /\ r.ids[i - 1].src = r.ids[i].src /\ r.ids[i - 1].query = r.ids[i].query
<1>1. /\ Len(r.ids) \in Nat /\ r.ids[i] \in Token /\ PlaceOk(s, r, i)
      /\ i - 1 # 0 => i - 1 \in 1..Len(r.ids) /\ PlaceOk(s, r, i - 1)
    BY RowIs DEF Sound
<1>2. HeadAt(r, i) \/ TailAt(r, i)
    <2>1. ~Generated(r.ids[i])
        BY <1>1 DEF PlaceOk, ToldOk
    <2>2. IsMemory(r.ids[i])
        BY <1>1, <2>1, TokenKinds DEF NotForced
    <2>3. IsHead(r.ids[i]) \/ IsTail(r.ids[i])
        BY <1>1, <2>2, TokenKinds
    <2> QED BY <2>3 DEF HeadAt, TailAt
<1>3. ASSUME HeadAt(r, i)
      PROVE  i > 1 /\ r.mask[i - 1] = 1 /\ SpanStart(r.mask, i) = i
    <2>1. i > 1 /\ r.mask[i - 1] = 1
        BY <1>1, <1>3 DEF PlaceOk, HeadOk
    <2>2. i \in Nat /\ i \in 1..i /\ \A k \in i..i : r.mask[k] = r.mask[i]
        OBVIOUS
    <2>3. SpanStart(r.mask, i) = i
        BY <2>1, <2>2, SpanIs
    <2> QED BY <2>1, <2>3
<1>4. ASSUME TailAt(r, i)
      PROVE  /\ i > 2 /\ HeadAt(r, i - 1) /\ ~HeadAt(r, i) /\ SpanStart(r.mask, i) = i - 1
             /\ r.ids[i - 1].src = r.ids[i].src /\ r.ids[i - 1].query = r.ids[i].query
    <2>1. /\ i > 1 /\ HeadAt(r, i - 1)
          /\ r.ids[i - 1].src = r.ids[i].src /\ r.ids[i - 1].query = r.ids[i].query
        BY <1>1, <1>4 DEF PlaceOk, TailOk
    <2>2. PlaceOk(s, r, i - 1)
        BY <1>1, <2>1
    <2>3. i - 1 > 1 /\ r.mask[(i - 1) - 1] = 1
        BY <2>1, <2>2 DEF PlaceOk, HeadOk
    <2>4. ~HeadAt(r, i)
        BY <1>1, <1>4, TokenKinds DEF HeadAt, TailAt
    <2>5. r.mask[i - 1] = 0
        BY <2>1 DEF HeadAt
    <2> DEFINE x == i - 1
    <2>6. i \in Nat /\ x \in 1..i /\ \A k \in x..i : r.mask[k] = r.mask[i]
        BY <2>3, <2>5
    <2>7. x > 1 => r.mask[x - 1] # r.mask[i]
        BY <2>3
    <2> HIDE DEF x
    <2>8. SpanStart(r.mask, i) = x
        BY <2>6, <2>7, SpanIs
    <2> QED BY <2>1, <2>3, <2>4, <2>8 DEF x
<1> QED BY <1>2, <1>3, <1>4

\* What is summarised are the tokens of hidden results.
LEMMA InResultIs ==
    ASSUME NEW s, NEW r, Sound(s, r), NotForced(r), NEW i \in 1..Len(r.ids)
    PROVE  InResult(r, i) <=> r.mask[i] = 0 /\ r.ids[i].src = "result"
<1> SUFFICES ASSUME r.mask[i] = 0
             PROVE  StartsResult(r.ids[SpanStart(r.mask, i)]) <=> r.ids[i].src = "result"
    BY DEF InResult
<1>1. /\ Len(r.ids) \in Nat /\ r.ids[i] \in Token
      /\ i - 1 # 0 => r.ids[i - 1] \in Token
    BY RowIs DEF Sound
<1>2. CASE HeadAt(r, i)
    BY <1>1, <1>2, HiddenIs, ResultKinds DEF HeadAt
<1>3. CASE TailAt(r, i)
    <2>1. /\ i > 2 /\ HeadAt(r, i - 1) /\ SpanStart(r.mask, i) = i - 1
          /\ r.ids[i - 1].src = r.ids[i].src
        BY <1>3, HiddenIs
    <2>2. r.ids[i - 1] \in Token
        BY <1>1, <2>1
    <2> QED BY <2>1, <2>2, ResultKinds DEF HeadAt
<1> QED BY <1>2, <1>3, HiddenIs

\* The i-th token begins a result that will be summarised, or ends it.
BeginsResult(r, i) == HeadAt(r, i) /\ r.ids[i].src = "result"
EndsResult(r, i)   == TailAt(r, i) /\ r.ids[i].src = "result"

\* What takes the place of the i-th token.
PartOf(r, i) ==
    IF ~InResult(r, i) THEN <<r.ids[i]>>
    ELSE IF SpanStart(r.mask, i) # i THEN <<>>
    ELSE ResultSummary([r.ids[i] EXCEPT !.query = LastQuery(SubSeq(r.ids, 1, i - 1))])

PartsOf(r) == [i \in 1..Len(r.ids) |-> PartOf(r, i)]
BitsOf(r)  == [i \in 1..Len(r.ids) |-> [k \in DOMAIN PartsOf(r)[i] |-> r.mask[i]]]

\* How many tokens come of the first i.
Grown(r) == [i \in 0..Len(r.ids) |-> IF i # 0 /\ BeginsResult(r, i) THEN i + 1 ELSE i]

\* A token that stays, or half of a summary.
PartIs(r, i) ==
    /\ PartOf(r, i) \in Seq(Token)
    /\ BeginsResult(r, i) => IsPair(PartOf(r, i), "summary", r.ids[i].query)
    /\ EndsResult(r, i) => Len(PartOf(r, i)) = 0
    /\ ~BeginsResult(r, i) /\ ~EndsResult(r, i) =>
           Len(PartOf(r, i)) = 1 /\ PartOf(r, i)[1] = r.ids[i]

LEMMA PartsAre ==
    ASSUME NEW s, NEW r, Sound(s, r), NotForced(r), NEW i \in 1..Len(r.ids)
    PROVE  PartIs(r, i)
<1>1. /\ Len(r.ids) \in Nat /\ r.ids \in Seq(Token) /\ r.ids[i] \in Token /\ PlaceOk(s, r, i)
      /\ r.mask[i] \in {0, 1}
    BY RowIs DEF Sound
<1>2. InResult(r, i) <=> BeginsResult(r, i) \/ EndsResult(r, i)
    <2>1. InResult(r, i) <=> r.mask[i] = 0 /\ r.ids[i].src = "result"
        BY InResultIs
    <2>2. r.mask[i] = 0 => HeadAt(r, i) \/ TailAt(r, i)
        BY HiddenIs
    <2>3. HeadAt(r, i) \/ TailAt(r, i) => r.mask[i] = 0
        BY DEF HeadAt, TailAt
    <2> QED BY <2>1, <2>2, <2>3 DEF BeginsResult, EndsResult
<1>3. CASE BeginsResult(r, i)
    <2>1. HeadAt(r, i) /\ r.ids[i].src = "result" /\ r.mask[i] = 0
        BY <1>3 DEF BeginsResult, HeadAt
    <2>2. SpanStart(r.mask, i) = i
        BY <2>1, HiddenIs
    <2>3. PICK o \in 1..(i - 1) : LastOpen(r.ids, i, o) /\ r.ids[o].query = r.ids[i].query
        BY <1>1, <2>1 DEF PlaceOk, HeadOk
    <2> DEFINE q == LastQuery(SubSeq(r.ids, 1, i - 1))
               x == r.ids[i]
               t == [x EXCEPT !.query = q]
    <2>4. q = x.query
        <3>1. i \in Nat /\ i <= Len(r.ids) + 1
            BY <1>1
        <3> QED BY <1>1, <2>3, <3>1, LastQueryIs
    <2>5. x \in Token /\ x.src = "result"
        BY <1>1, <2>1
    <2>6. x.query \in Query
        BY <2>5, TokenKinds DEF IsMemory
    <2> HIDE DEF x
    <2>7. t.query = x.query
        <3> HIDE DEF q
        <3>1. x \in Retrieved
            BY <2>5 DEF Token, Said, Budget, Closing, Asked, Retrieved, Summary
        <3> QED BY <2>4, <3>1 DEF Retrieved
    <2>8. PartOf(r, i) = ResultSummary(t)
        BY <1>2, <1>3, <2>2 DEF PartOf, x
    <2> HIDE DEF t
    <2>9. IsPair(PartOf(r, i), "summary", x.query)
        <3>1. t.query \in Query
            BY <2>6, <2>7
        <3>2. IsPair(ResultSummary(t), "summary", t.query)
            BY <3>1, SummaryIs
        <3> QED BY <2>7, <2>8, <3>2
    <2>10. ~EndsResult(r, i)
        BY <1>1, <2>1, TokenKinds DEF HeadAt, EndsResult, TailAt
    <2> QED BY <1>3, <2>9, <2>10 DEF PartIs, IsPair, x
<1>4. CASE EndsResult(r, i)
    <2>1. TailAt(r, i) /\ r.mask[i] = 0
        BY <1>4 DEF EndsResult, TailAt
    <2>2. SpanStart(r.mask, i) # i /\ ~BeginsResult(r, i)
        BY <1>1, <2>1, HiddenIs DEF BeginsResult
    <2>3. PartOf(r, i) = <<>>
        BY <1>2, <1>4, <2>2 DEF PartOf
    <2>4. PartOf(r, i) \in Seq(Token) /\ Len(PartOf(r, i)) = 0
        BY <2>3, EmptySeq
    <2> QED BY <1>4, <2>2, <2>4 DEF PartIs
<1>5. CASE ~BeginsResult(r, i) /\ ~EndsResult(r, i)
    <2>1. PartOf(r, i) = <<r.ids[i]>>
        BY <1>2, <1>5 DEF PartOf
    <2> DEFINE x == r.ids[i]
    <2>2. x \in Token
        BY <1>1
    <2> HIDE DEF x
    <2>3. <<x>> \in Seq(Token) /\ Len(<<x>>) = 1 /\ <<x>>[1] = x
        BY <2>2
    <2> QED BY <1>5, <2>1, <2>3 DEF PartIs, x
<1> QED BY <1>3, <1>4, <1>5

\* As many tokens come of a prefix as it has, but for one more within a result.
LEMMA GrownIs ==
    ASSUME NEW s, NEW r, Sound(s, r), NotForced(r), Complete(r)
    PROVE  /\ Grown(r) \in [0..Len(r.ids) -> Nat] /\ Grown(r)[0] = 0
           /\ Grown(r)[Len(r.ids)] = Len(r.ids)
           /\ \A i \in 1..Len(r.ids) :
                  /\ Grown(r)[i] = Grown(r)[i - 1] + Len(PartOf(r, i))
                  /\ ~EndsResult(r, i) => Grown(r)[i - 1] = i - 1
                  /\ EndsResult(r, i) => i > 2 /\ BeginsResult(r, i - 1) /\ Grown(r)[i - 2] = i - 2
<1> DEFINE n == Len(r.ids)
           g == Grown(r)
<1>1. n \in Nat
    BY RowIs DEF Sound
<1>2. /\ g \in [0..n -> Nat]
      /\ \A i \in 0..n : g[i] = IF i # 0 /\ BeginsResult(r, i) THEN i + 1 ELSE i
    BY <1>1 DEF Grown
<1> HIDE DEF g
<1>3. g[0] = 0 /\ g[n] = n
    <2>1. n # 0 => ~BeginsResult(r, n)
        BY DEF Complete, BeginsResult
    <2>2. 0 \in 0..n /\ n \in 0..n
        BY <1>1
    <2> QED BY <1>2, <2>1, <2>2
<1>4. ASSUME NEW i \in 1..n
      PROVE  /\ g[i] = g[i - 1] + Len(PartOf(r, i))
             /\ ~EndsResult(r, i) => g[i - 1] = i - 1
             /\ EndsResult(r, i) => i > 2 /\ BeginsResult(r, i - 1) /\ g[i - 2] = i - 2
    <2>1. i \in 0..n /\ i - 1 \in 0..n /\ (i > 1 => i - 2 \in 0..n)
        BY <1>1
    <2>2. PartIs(r, i) /\ PlaceOk(s, r, i)
        BY PartsAre DEF Sound
    <2>3. CASE EndsResult(r, i)
        <3>1. TailAt(r, i) /\ r.mask[i] = 0 /\ r.ids[i].src = "result"
            BY <2>3 DEF EndsResult, TailAt
        <3>2. /\ i > 2 /\ HeadAt(r, i - 1) /\ ~HeadAt(r, i)
              /\ r.ids[i - 1].src = r.ids[i].src
            BY <3>1, HiddenIs
        <3>3. BeginsResult(r, i - 1) /\ ~BeginsResult(r, i)
            BY <3>1, <3>2 DEF BeginsResult
        <3>4. i - 1 \in 1..n /\ r.mask[i - 1] = 0
            BY <1>1, <3>2 DEF HeadAt
        <3>5. r.mask[i - 2] = 1
            <4>1. (i - 1) - 1 = i - 2
                OBVIOUS
            <4> QED BY <3>2, <3>4, <4>1, HiddenIs
        <3>6. ~BeginsResult(r, i - 2)
            BY <3>5 DEF BeginsResult, HeadAt
        <3>7. g[i - 2] = i - 2 /\ g[i - 1] = i /\ g[i] = i
            <4>1. i - 1 # 0 /\ i - 2 # 0 /\ (i - 1) + 1 = i
                BY <3>2
            <4> QED BY <1>2, <2>1, <3>2, <3>3, <3>6, <4>1
        <3>8. Len(PartOf(r, i)) = 0
            BY <2>2, <2>3 DEF PartIs
        <3> QED BY <2>3, <3>2, <3>3, <3>7, <3>8
    <2>4. CASE ~EndsResult(r, i)
        <3>1. i > 1 => ~BeginsResult(r, i - 1)
            <4> SUFFICES ASSUME i > 1, BeginsResult(r, i - 1) PROVE FALSE
                OBVIOUS
            <4>1. HeadAt(r, i - 1) /\ r.ids[i - 1].src = "result"
                BY DEF BeginsResult
            <4>2. TailAt(r, i) /\ r.ids[i].src = "result"
                BY <2>2, <4>1 DEF PlaceOk, TailOk
            <4> QED BY <2>4, <4>2 DEF EndsResult
        <3>2. g[i - 1] = i - 1
            <4>1. i - 1 # 0 => i > 1
                OBVIOUS
            <4> QED BY <1>2, <2>1, <3>1, <4>1
        <3>3. CASE BeginsResult(r, i)
            <4>1. Len(PartOf(r, i)) = 2
                BY <2>2, <3>3 DEF PartIs, IsPair
            <4>2. g[i] = i + 1
                BY <1>2, <2>1, <3>3
            <4> QED BY <2>4, <3>2, <4>1, <4>2
        <3>4. CASE ~BeginsResult(r, i)
            <4>1. Len(PartOf(r, i)) = 1
                BY <2>2, <2>4, <3>4 DEF PartIs
            <4>2. g[i] = i
                BY <1>2, <2>1, <3>4
            <4> QED BY <2>4, <3>2, <4>1, <4>2
        <3> QED BY <3>3, <3>4
    <2> QED BY <2>3, <2>4
<1> QED BY <1>2, <1>3, <1>4 DEF g, n

\* t is r with its results, head and end, turned into summaries of the same searches.
TokenDigested(r, t, i) ==
    /\ BeginsResult(r, i) =>
           IsHead(t.ids[i]) /\ t.ids[i].src = "summary" /\ t.ids[i].query = r.ids[i].query
    /\ EndsResult(r, i) =>
           IsTail(t.ids[i]) /\ t.ids[i].src = "summary" /\ t.ids[i].query = r.ids[i].query
    /\ ~BeginsResult(r, i) /\ ~EndsResult(r, i) => t.ids[i] = r.ids[i]

IsDigest(r, t) ==
    /\ t.prompt = r.prompt /\ t.given = r.given /\ t.room = r.room /\ t.active = r.active
    /\ Len(t.ids) = Len(r.ids)
    /\ \A i \in 1..Len(r.ids) : t.mask[i] = r.mask[i] /\ TokenDigested(r, t, i)

LEMMA SummarizeIs ==
    ASSUME NEW s, NEW r, Sound(s, r), NotForced(r), Complete(r), setting.mode # "none"
    PROVE  /\ IsRow(s, SummarizePreviousResults(r))
           /\ IsDigest(r, SummarizePreviousResults(r))
<1> DEFINE n == Len(r.ids)
           g == Grown(r)
           parts == PartsOf(r)
           bits == BitsOf(r)
           ids == FlattenSeq(parts)
           mask == FlattenSeq(bits)
           t == SummarizePreviousResults(r)
           B == {0, 1}
<1>1. /\ n \in Nat /\ r \in RowSet(s) /\ r.ids \in Seq(Token) /\ DOMAIN r.ids = 1..n
      /\ \A i \in 1..n : r.ids[i] \in Token /\ r.mask[i] \in B
    BY RowIs, LenProperties DEF Sound, IsRow
<1>2. /\ g \in [0..n -> Nat] /\ g[0] = 0 /\ g[n] = n
      /\ \A i \in 1..n :
             /\ g[i] = g[i - 1] + Len(PartOf(r, i))
             /\ ~EndsResult(r, i) => g[i - 1] = i - 1
             /\ EndsResult(r, i) => i > 2 /\ BeginsResult(r, i - 1) /\ g[i - 2] = i - 2
    BY GrownIs
<1>3. \A i \in 1..n : PartIs(r, i) /\ PartOf(r, i) \in Seq(Token)
    BY PartsAre DEF PartIs
<1>4. /\ parts \in Seq(Seq(Token)) /\ Len(parts) = n /\ \A i \in 1..n : parts[i] = PartOf(r, i)
    BY <1>1, <1>3 DEF PartsOf
<1>5. /\ bits \in Seq(Seq(B)) /\ Len(bits) = n
      /\ \A i \in 1..n : /\ bits[i] \in Seq(B) /\ Len(bits[i]) = Len(PartOf(r, i))
                         /\ \A k \in 1..Len(PartOf(r, i)) : bits[i][k] = r.mask[i]
    <2>1. bits = [i \in 1..n |-> [k \in DOMAIN parts[i] |-> r.mask[i]]]
        BY DEF BitsOf
    <2> HIDE DEF bits, parts, B, n
    <2>2. ASSUME NEW i \in 1..n
          PROVE  /\ bits[i] \in Seq(B) /\ Len(bits[i]) = Len(PartOf(r, i))
                 /\ \A k \in 1..Len(PartOf(r, i)) : bits[i][k] = r.mask[i]
        <3> DEFINE p == PartOf(r, i)
                   b == r.mask[i]
        <3>1. p \in Seq(Token) /\ b \in B /\ parts[i] = p
            BY <1>1, <1>3, <1>4
        <3>2. bits[i] = [k \in DOMAIN p |-> b]
            BY <2>1, <3>1
        <3> HIDE DEF p, b
        <3>3. DOMAIN p = 1..Len(p) /\ Len(p) \in Nat
            BY <3>1, LenProperties
        <3>4. [k \in 1..Len(p) |-> b] \in Seq(B) /\ Len([k \in 1..Len(p) |-> b]) = Len(p)
            BY <3>1, <3>3
        <3> QED BY <3>2, <3>3, <3>4 DEF p, b
    <2>3. bits \in Seq(Seq(B)) /\ Len(bits) = n
        BY <1>1, <2>1, <2>2
    <2> QED BY <2>2, <2>3
<1> HIDE DEF g, parts, bits, n, B
<1>6. /\ ids \in Seq(Token) /\ Len(ids) = n
      /\ \A i \in 1..n : \A j \in 1..Len(PartOf(r, i)) : ids[g[i - 1] + j] = PartOf(r, i)[j]
    <2>1. g \in [0..Len(parts) -> Nat] /\ Offsets(g, parts)
        BY <1>2, <1>4 DEF Offsets
    <2>2. ids \in Seq(Token) /\ Len(ids) = g[Len(parts)] /\ LaidOut(ids, g, parts)
        BY <1>4, <2>1, FlattenAt
    <2> QED BY <1>2, <1>4, <2>2 DEF LaidOut
<1>7. /\ mask \in Seq(B) /\ Len(mask) = n
      /\ \A i \in 1..n : \A j \in 1..Len(PartOf(r, i)) : mask[g[i - 1] + j] = r.mask[i]
    <2>1. g \in [0..Len(bits) -> Nat] /\ Offsets(g, bits)
        BY <1>2, <1>5 DEF Offsets
    <2>2. mask \in Seq(B) /\ Len(mask) = g[Len(bits)] /\ LaidOut(mask, g, bits)
        BY <1>5, <2>1, FlattenAt
    <2> QED BY <1>2, <1>5, <2>2 DEF LaidOut
<1>8. t = [r EXCEPT !.ids = ids, !.mask = mask]
    <2>1. parts = [i \in DOMAIN r.ids |-> PartOf(r, i)]
        BY <1>1 DEF parts, PartsOf, n
    <2>2. bits = [i \in DOMAIN parts |-> [k \in DOMAIN parts[i] |-> r.mask[i]]]
        <3>1. DOMAIN parts = 1..n
            BY <1>4, LenProperties
        <3> QED BY <3>1 DEF bits, BitsOf, parts, n
    <2> QED BY <2>1, <2>2 DEF SummarizePreviousResults, PartOf
<1> HIDE DEF ids, mask, t
<1>9. /\ t \in RowSet(s) /\ t.ids = ids /\ t.mask = mask
      /\ t.prompt = r.prompt /\ t.given = r.given /\ t.room = r.room /\ t.active = r.active
    BY <1>1, <1>6, <1>7, <1>8 DEF RowSet, B
<1>10. ASSUME NEW i \in 1..n
       PROVE  t.mask[i] = r.mask[i] /\ TokenDigested(r, t, i)
    <2>1. PartIs(r, i) /\ i \in Nat
        BY <1>1, <1>3
    <2>2. CASE EndsResult(r, i)
        <3>1. i > 2 /\ BeginsResult(r, i - 1) /\ g[i - 2] = i - 2
            BY <1>2, <2>2
        <3> DEFINE h == i - 1
        <3>2. h \in 1..n /\ g[h - 1] = h - 1 /\ (h - 1) + 2 = i
            <4>1. (i - 1) - 1 = i - 2 /\ (i - 2) + 2 = i /\ i - 1 \in 1..n
                BY <1>1, <2>1, <3>1
            <4> QED BY <3>1, <4>1
        <3>3. IsPair(PartOf(r, h), "summary", r.ids[h].query)
            <4>1. BeginsResult(r, h)
                BY <3>1
            <4> HIDE DEF h
            <4> QED BY <1>3, <3>2, <4>1 DEF PartIs
        <3>4. TailAt(r, i) /\ r.mask[i] = 0 /\ r.mask[h] = 0 /\ r.ids[h].query = r.ids[i].query
            <4>1. TailAt(r, i) /\ r.mask[i] = 0
                BY <2>2 DEF EndsResult, TailAt
            <4>2. r.ids[i - 1].query = r.ids[i].query
                BY <4>1, HiddenIs DEF n
            <4> QED BY <3>1, <4>1, <4>2 DEF BeginsResult, HeadAt
        <3> HIDE DEF h
        <3>5. 2 \in 1..Len(PartOf(r, h))
            BY <3>3 DEF IsPair
        <3>6. ids[i] = PartOf(r, h)[2] /\ mask[i] = r.mask[h]
            BY <1>6, <1>7, <3>2, <3>5
        <3>7. ~BeginsResult(r, i)
            <4>1. r.ids[i] \in Token
                BY <1>1
            <4> QED BY <3>4, <4>1, TokenKinds DEF BeginsResult, HeadAt, TailAt
        <3> QED BY <1>9, <2>2, <3>3, <3>4, <3>6, <3>7 DEF IsPair, TokenDigested
    <2>3. CASE ~EndsResult(r, i)
        <3>1. g[i - 1] = i - 1 /\ (i - 1) + 1 = i
            BY <1>2, <2>1, <2>3
        <3>2. 1 \in 1..Len(PartOf(r, i))
            BY <2>1, <2>3 DEF PartIs, IsPair
        <3>3. ids[i] = PartOf(r, i)[1] /\ mask[i] = r.mask[i]
            BY <1>6, <1>7, <3>1, <3>2
        <3> QED BY <1>9, <2>1, <2>3, <3>3 DEF PartIs, IsPair, TokenDigested
    <2> QED BY <2>2, <2>3
<1>11. Len(t.ids) = Len(r.ids) /\ Len(t.ids) = Len(t.mask)
    BY <1>6, <1>7, <1>9 DEF n
<1> QED BY <1>9, <1>10, <1>11 DEF IsDigest, IsRow, t, n

\* What the conditions on a row look at stays, but for the source of a memory.
TokenAlike(r, t, i) ==
    /\ t.mask[i] = r.mask[i]
    /\ HeadAt(t, i) <=> HeadAt(r, i)
    /\ TailAt(t, i) <=> TailAt(r, i)
    /\ IsOpen(t.ids[i]) <=> IsOpen(r.ids[i])
    /\ Generated(t.ids[i]) <=> Generated(r.ids[i])
    /\ IsMemory(t.ids[i]) <=> IsMemory(r.ids[i])
    /\ t.ids[i].src = "prefix" <=> r.ids[i].src = "prefix"
    /\ t.ids[i].src = "refiner" <=> r.ids[i].src = "refiner"
    /\ IsOpen(r.ids[i]) \/ IsMemory(r.ids[i]) => t.ids[i].query = r.ids[i].query
    /\ HeadAt(t, i) \/ TailAt(t, i) => t.ids[i].src = "summary"

LEMMA DigestAlike ==
    ASSUME NEW s, NEW r, Sound(s, r), NEW t, IsRow(s, t), IsDigest(r, t),
           NEW i \in 1..Len(r.ids)
    PROVE  TokenAlike(r, t, i)
<1>1. /\ t.mask[i] = r.mask[i] /\ TokenDigested(r, t, i)
      /\ r.ids[i] \in Token /\ t.ids[i] \in Token
    BY RowIs DEF Sound, IsDigest
<1>2. CASE BeginsResult(r, i)
    <2>1. /\ IsHead(t.ids[i]) /\ t.ids[i].src = "summary" /\ t.ids[i].query = r.ids[i].query
          /\ HeadAt(r, i) /\ r.ids[i].src = "result" /\ r.mask[i] = 0 /\ IsHead(r.ids[i])
        BY <1>1, <1>2 DEF BeginsResult, HeadAt, TokenDigested
    <2>2. IsMemory(t.ids[i]) /\ IsMemory(r.ids[i])
        BY <2>1 DEF IsMemory
    <2>3. /\ ~IsTail(t.ids[i]) /\ ~IsTail(r.ids[i]) /\ ~Generated(t.ids[i]) /\ ~Generated(r.ids[i])
          /\ ~IsOpen(t.ids[i]) /\ ~IsOpen(r.ids[i])
        BY <1>1, <2>1, <2>2, TokenKinds
    <2> QED BY <1>1, <2>1, <2>2, <2>3 DEF TokenAlike, HeadAt, TailAt
<1>3. CASE EndsResult(r, i)
    <2>1. /\ IsTail(t.ids[i]) /\ t.ids[i].src = "summary" /\ t.ids[i].query = r.ids[i].query
          /\ TailAt(r, i) /\ r.ids[i].src = "result" /\ r.mask[i] = 0 /\ IsTail(r.ids[i])
        BY <1>1, <1>3 DEF EndsResult, TailAt, TokenDigested
    <2>2. IsMemory(t.ids[i]) /\ IsMemory(r.ids[i])
        BY <2>1 DEF IsMemory
    <2>3. /\ ~IsHead(t.ids[i]) /\ ~IsHead(r.ids[i]) /\ ~Generated(t.ids[i]) /\ ~Generated(r.ids[i])
          /\ ~IsOpen(t.ids[i]) /\ ~IsOpen(r.ids[i])
        BY <1>1, <2>1, <2>2, TokenKinds
    <2> QED BY <1>1, <2>1, <2>2, <2>3 DEF TokenAlike, HeadAt, TailAt
<1>4. CASE ~BeginsResult(r, i) /\ ~EndsResult(r, i)
    <2>1. t.ids[i] = r.ids[i]
        BY <1>1, <1>4 DEF TokenDigested
    <2>2. HeadAt(r, i) \/ TailAt(r, i) => r.ids[i].src = "summary"
        <3> SUFFICES ASSUME HeadAt(r, i) \/ TailAt(r, i) PROVE r.ids[i].src = "summary"
            OBVIOUS
        <3>1. IsMemory(r.ids[i])
            BY <1>1, TokenKinds DEF HeadAt, TailAt
        <3> QED BY <1>4, <3>1 DEF BeginsResult, EndsResult, IsMemory
    <2> QED BY <1>1, <2>1, <2>2 DEF TokenAlike, HeadAt, TailAt
<1> QED BY <1>2, <1>3, <1>4

LEMMA DigestSound ==
    ASSUME NEW s, NEW r, Sound(s, r), NEW t, IsRow(s, t), IsDigest(r, t)
    PROVE  Sound(s, t)
<1>1. /\ t.given = r.given /\ Len(t.ids) = Len(r.ids) /\ Len(r.ids) \in Nat
      /\ r.given <= Len(r.ids)
    BY RowIs DEF IsDigest, Sound
<1>2. \A i \in 1..Len(r.ids) : TokenAlike(r, t, i)
    BY DigestAlike
<1>3. ASSUME NEW i \in 1..Len(r.ids) PROVE PlaceOk(s, t, i)
    <2>1. PlaceOk(s, r, i) /\ TokenAlike(r, t, i)
        BY <1>2 DEF Sound
    <2>2. i > 1 => i - 1 \in 1..Len(r.ids) /\ TokenAlike(r, t, i - 1)
        BY <1>1, <1>2
    <2>3. ToldOk(t, i)
        BY <1>1, <2>1 DEF PlaceOk, ToldOk, TokenAlike
    <2>4. TailOk(t, i)
        <3>1. TailAt(t, i) =>
                  /\ i > 1 /\ HeadAt(t, i - 1)
                  /\ t.ids[i - 1].src = t.ids[i].src /\ t.ids[i - 1].query = t.ids[i].query
            <4> SUFFICES ASSUME TailAt(t, i)
                         PROVE  /\ i > 1 /\ HeadAt(t, i - 1)
                                /\ t.ids[i - 1].src = t.ids[i].src
                                /\ t.ids[i - 1].query = t.ids[i].query
                OBVIOUS
            <4>1. /\ TailAt(r, i) /\ i > 1 /\ HeadAt(r, i - 1)
                  /\ r.ids[i - 1].query = r.ids[i].query
                BY <2>1 DEF PlaceOk, TailOk, TokenAlike
            <4>2. HeadAt(t, i - 1) /\ t.ids[i - 1].src = "summary" /\ t.ids[i].src = "summary"
                BY <2>1, <2>2, <4>1 DEF TokenAlike
            <4>3. IsMemory(r.ids[i]) /\ IsMemory(r.ids[i - 1])
                BY <2>1, <2>2, <4>1, <4>2 DEF TokenAlike, IsMemory
            <4> QED BY <2>1, <2>2, <4>1, <4>2, <4>3 DEF TokenAlike
        <3>2. i > 1 /\ HeadAt(t, i - 1) => TailAt(t, i)
            BY <2>1, <2>2 DEF PlaceOk, TailOk, TokenAlike
        <3>3. i > 1 /\ TailAt(t, i - 1) => t.mask[i] = 1 \/ t.ids[i].src = "prefix"
            BY <2>1, <2>2 DEF PlaceOk, TailOk, TokenAlike
        <3> QED BY <3>1, <3>2, <3>3 DEF TailOk
    <2>5. EndOk(t, i)
        <3>1. t.ids[i].src = "prefix" /\ t.given = 0 => i = 1 \/ t.mask[i - 1] = 0
            <4>1. i = 1 \/ i > 1
                OBVIOUS
            <4> QED BY <1>1, <2>1, <2>2, <4>1 DEF PlaceOk, EndOk, TokenAlike
        <3>2. IsMemory(t.ids[i]) => \A j \in 1..(i - 1) : t.ids[j].src # "prefix"
            <4>1. \A j \in 1..(i - 1) : j \in 1..Len(r.ids)
                BY <1>1
            <4> QED BY <1>2, <2>1, <4>1 DEF PlaceOk, EndOk, TokenAlike
        <3> QED BY <1>1, <2>1, <3>1, <3>2 DEF PlaceOk, EndOk, TokenAlike
    <2>6. HeadOk(s, t, i)
        <3> SUFFICES ASSUME HeadAt(t, i) PROVE HeadOk(s, t, i)
            BY DEF HeadOk
        <3>1. HeadAt(r, i) /\ HeadOk(s, r, i) /\ t.ids[i].src = "summary"
            BY <2>1 DEF PlaceOk, TokenAlike
        <3>2. i > 1 /\ t.mask[i - 1] = 1
            BY <2>2, <3>1 DEF HeadOk, TokenAlike
        <3>3. PICK o \in 1..(i - 1) : LastOpen(r.ids, i, o) /\ r.ids[o].query = r.ids[i].query
            BY <3>1 DEF HeadOk
        <3>4. LastOpen(t.ids, i, o) /\ t.ids[o].query = t.ids[i].query
            <4>1. o \in 1..Len(r.ids) /\ \A k \in (o + 1)..(i - 1) : k \in 1..Len(r.ids)
                BY <1>1
            <4>2. TokenAlike(r, t, o) /\ \A k \in (o + 1)..(i - 1) : TokenAlike(r, t, k)
                BY <1>2, <4>1
            <4>3. LastOpen(t.ids, i, o)
                BY <3>3, <4>2 DEF LastOpen, TokenAlike
            <4>4. t.ids[o].query = r.ids[o].query
                BY <3>3, <4>2 DEF LastOpen, TokenAlike
            <4>5. t.ids[i].query = r.ids[i].query
                <5>1. IsMemory(t.ids[i])
                    BY <3>1 DEF IsMemory
                <5> QED BY <2>1, <5>1 DEF TokenAlike
            <4> QED BY <3>3, <4>3, <4>4, <4>5
        <3>5. t.given = 0 => i > 2 /\ IsOpen(t.ids[i - 2])
            <4>1. i > 2 => i - 2 \in 1..Len(r.ids)
                BY <1>1
            <4>2. t.given = 0 => i > 2 /\ IsOpen(r.ids[i - 2])
                BY <1>1, <3>1 DEF HeadOk
            <4> QED BY <1>2, <4>1, <4>2 DEF TokenAlike
        <3>6. \A j \in 1..(i - 1) : HeadAt(t, j) => t.ids[j].src = "summary"
            <4>1. \A j \in 1..(i - 1) : j \in 1..Len(r.ids)
                BY <1>1
            <4> QED BY <1>2, <4>1 DEF TokenAlike
        <3> QED BY <3>1, <3>2, <3>3, <3>4, <3>5, <3>6 DEF HeadOk
    <2> QED BY <2>3, <2>4, <2>5, <2>6 DEF PlaceOk
<1> QED BY <1>1, <1>3 DEF Sound

\* Before the next result is appended, earlier results are summaries where they are
\* summarised at all.
Latest(r) ==
    setting.mode # "none" /\ r.given = 0 =>
        \A i \in 1..Len(r.ids) : HeadAt(r, i) => r.ids[i].src = "summary"

\* What summarising leaves alone: everything but hidden memories, and what the row was given.
Keeps(r, t) ==
    /\ t.prompt = r.prompt /\ t.given = r.given /\ t.room = r.room /\ t.active = r.active
    /\ Len(t.ids) = Len(r.ids) /\ SameUpTo(r, t, r.given)
    /\ \A i \in 1..Len(r.ids) :
           /\ t.mask[i] = r.mask[i]
           /\ r.mask[i] = 1 \/ ~IsMemory(r.ids[i]) => t.ids[i] = r.ids[i]
           /\ IsMemory(t.ids[i]) <=> IsMemory(r.ids[i])
           /\ IsMemory(r.ids[i]) => t.ids[i].query = r.ids[i].query

LEMMA SummarizeSound ==
    ASSUME NEW r, Sound(setting, r), NotForced(r), Complete(r)
    PROVE  LET t == SummarizePreviousResults(r)
           IN  /\ Sound(setting, t) /\ NotForced(t) /\ Complete(t) /\ Keeps(r, t) /\ Latest(t)
<1> DEFINE t == SummarizePreviousResults(r)
<1>1. /\ Len(r.ids) \in Nat /\ r.given \in Nat /\ r.given <= Len(r.ids)
      /\ \A i \in 1..Len(r.ids) : PlaceOk(setting, r, i) /\ r.ids[i] \in Token
    BY RowIs DEF Sound
<1>2. CASE setting.mode = "none"
    <2>1. t = r
        BY <1>2 DEF SummarizePreviousResults
    <2> HIDE DEF t
    <2> QED BY <1>2, <2>1 DEF Keeps, SameUpTo, Latest, t
<1>3. CASE setting.mode # "none"
    <2>1. IsRow(setting, t) /\ IsDigest(r, t)
        BY <1>3, SummarizeIs
    <2> HIDE DEF t
    <2>2. Sound(setting, t)
        BY <2>1, DigestSound
    <2>3. \A i \in 1..Len(r.ids) : TokenAlike(r, t, i)
        BY <2>1, DigestAlike
    <2>4. Len(t.ids) = Len(r.ids)
        BY <2>1 DEF IsDigest
    <2>5. NotForced(t) /\ Complete(t)
        <3>1. Len(r.ids) # 0 => Len(r.ids) \in 1..Len(r.ids)
            BY <1>1
        <3> QED BY <2>3, <2>4, <3>1 DEF NotForced, Complete, TokenAlike
    <2>6. Latest(t)
        BY <2>3, <2>4 DEF Latest, TokenAlike
    <2>7. ASSUME NEW i \in 1..r.given PROVE t.ids[i] = r.ids[i] /\ t.mask[i] = r.mask[i]
        <3>1. i \in 1..Len(r.ids) /\ i <= r.given
            BY <1>1
        <3>2. ~BeginsResult(r, i)
            BY <1>1, <1>3, <3>1 DEF BeginsResult, PlaceOk, HeadOk
        <3>3. ~EndsResult(r, i)
            <4> SUFFICES ASSUME EndsResult(r, i) PROVE FALSE
                OBVIOUS
            <4>1. i > 1 /\ HeadAt(r, i - 1) /\ r.ids[i - 1].src = "result"
                BY <1>1, <3>1 DEF EndsResult, PlaceOk, TailOk
            <4>2. i - 1 \in 1..Len(r.ids) /\ i - 1 <= r.given
                BY <1>1, <3>1, <4>1
            <4> QED BY <1>1, <1>3, <4>1, <4>2 DEF PlaceOk, HeadOk
        <3> QED BY <2>1, <3>1, <3>2, <3>3 DEF IsDigest, TokenDigested
    <2>8. ASSUME NEW i \in 1..Len(r.ids)
          PROVE  /\ t.mask[i] = r.mask[i]
                 /\ r.mask[i] = 1 \/ ~IsMemory(r.ids[i]) => t.ids[i] = r.ids[i]
                 /\ IsMemory(t.ids[i]) <=> IsMemory(r.ids[i])
                 /\ IsMemory(r.ids[i]) => t.ids[i].query = r.ids[i].query
        <3>1. r.mask[i] = 1 \/ ~IsMemory(r.ids[i]) => ~BeginsResult(r, i) /\ ~EndsResult(r, i)
            BY <1>1 DEF BeginsResult, EndsResult, HeadAt, TailAt, IsMemory
        <3> QED BY <2>1, <2>3, <3>1 DEF IsDigest, TokenDigested, TokenAlike
    <2>9. Keeps(r, t)
        BY <2>1, <2>4, <2>7, <2>8 DEF Keeps, SameUpTo, IsDigest
    <2> QED BY <2>2, <2>5, <2>6, <2>9 DEF t
<1> QED BY <1>2, <1>3

\* A result may be appended: the row ends in generated text, and its last search is for q.
Calling(r, q) ==
    /\ Len(r.ids) # 0 /\ r.mask[Len(r.ids)] = 1
    /\ \E o \in 1..Len(r.ids) : LastOpen(r.ids, Len(r.ids) + 1, o) /\ r.ids[o].query = q
    /\ r.given = 0 => Len(r.ids) > 1 /\ IsOpen(r.ids[Len(r.ids) - 1])

\* A row with a result at its end.
Fetched(r) ==
    /\ NotForced(r) /\ Complete(r) /\ Len(r.ids) # 0 /\ TailAt(r, Len(r.ids))

LEMMA AppendResult ==
    ASSUME NEW t, Sound(setting, t), NotForced(t), Latest(t), NEW q \in Query, Calling(t, q),
           NEW w, IsPair(w, "result", q)
    PROVE  Sound(setting, Extend(t, w, 0)) /\ Fetched(Extend(t, w, 0))
<1> DEFINE n == Len(t.ids)
           a == Extend(t, w, 0)
           s == setting
           m == n + 1
           l == n + 2
           bit == 0
<1>1. /\ n \in Nat /\ n # 0 /\ t.given \in Nat /\ t.given <= n /\ t.mask[n] = 1 /\ IsRow(s, t)
      /\ \A i \in 1..n : t.ids[i] \in Token
    BY RowIs DEF Sound, Calling
<1>2. /\ w \in Seq(Token) /\ Len(w) = 2 /\ w[1] \in Token /\ w[2] \in Token
      /\ IsHead(w[1]) /\ w[1].src = "result" /\ w[1].query = q
      /\ IsTail(w[2]) /\ w[2].src = "result" /\ w[2].query = q
    <2>1. w \in Seq(Token) /\ Len(w) = 2
        BY DEF IsPair
    <2>2. w[1] \in Token /\ w[2] \in Token
        BY <2>1
    <2> QED BY <2>1, <2>2 DEF IsPair
<1>3. IsRow(s, a) /\ Extends(t, a, w, 0)
    <2>1. bit \in {0, 1} /\ a = Extend(t, w, bit)
        OBVIOUS
    <2> HIDE DEF bit, a
    <2>2. IsRow(s, a) /\ Extends(t, a, w, bit)
        BY <1>1, <1>2, <2>1, ExtendIs
    <2> QED BY <2>2 DEF bit
<1> HIDE DEF a, n, s, m, l, bit
<1>4. /\ a.given = t.given /\ Len(a.ids) = l
      /\ \A i \in 1..n : a.ids[i] = t.ids[i] /\ a.mask[i] = t.mask[i]
      /\ a.ids[m] = w[1] /\ a.mask[m] = 0 /\ a.ids[l] = w[2] /\ a.mask[l] = 0
    <2>1. 1 \in 1..Len(w) /\ 2 \in 1..Len(w)
        BY <1>2
    <2> QED BY <1>2, <1>3, <2>1 DEF Extends, SameUpTo, n, m, l
<1>5. /\ m \in Nat /\ l \in Nat /\ m > 1 /\ m = n + 1 /\ l = n + 2 /\ m - 1 = n /\ l - 1 = m
      /\ n \in 1..n
    BY <1>1 DEF m, l
<1>6. /\ a.mask[n] = 1 /\ ~HeadAt(a, n) /\ ~TailAt(a, n)
      /\ HeadAt(a, m) /\ ~TailAt(a, m) /\ TailAt(a, l) /\ ~HeadAt(a, l)
    BY <1>1, <1>2, <1>4, <1>5, TokenKinds DEF HeadAt, TailAt
<1>7. /\ ~Generated(w[1]) /\ ~Generated(w[2])
      /\ \A i \in 1..m : a.ids[i].src # "prefix"
    <2>1. IsMemory(w[1]) /\ IsMemory(w[2])
        BY <1>2 DEF IsMemory
    <2>2. \A i \in 1..m : i \in 1..n \/ i = m
        BY <1>1, <1>5
    <2> QED BY <1>2, <1>4, <2>1, <2>2, TokenKinds DEF NotForced, n
<1>8. PlaceOk(s, a, m)
    <2>1. ToldOk(a, m)
        BY <1>4, <1>7 DEF ToldOk
    <2>2. TailOk(a, m)
        BY <1>5, <1>6 DEF TailOk
    <2>3. EndOk(a, m)
        <3>1. \A j \in 1..(m - 1) : j \in 1..m
            BY <1>5
        <3> QED BY <1>2, <1>4, <1>5, <1>7, <3>1 DEF EndOk
    <2>4. HeadOk(s, a, m)
        <3>1. m > 1 /\ a.mask[m - 1] = 1
            BY <1>5, <1>6
        <3>2. PICK o \in 1..n : LastOpen(t.ids, n + 1, o) /\ t.ids[o].query = q
            BY DEF Calling, n
        <3>3. o \in 1..(m - 1) /\ LastOpen(a.ids, m, o) /\ a.ids[o].query = a.ids[m].query
            <4>1. \A k \in (o + 1)..(m - 1) : k \in 1..n /\ k \in (o + 1)..((n + 1) - 1)
                BY <1>1, <1>5
            <4>2. o \in 1..(m - 1)
                BY <1>5
            <4>3. LastOpen(a.ids, m, o)
                BY <1>4, <3>2, <4>1, <4>2 DEF LastOpen
            <4> QED BY <1>2, <1>4, <3>2, <4>2, <4>3
        <3>4. a.given = 0 => m > 2 /\ IsOpen(a.ids[m - 2])
            <4> SUFFICES ASSUME a.given = 0 PROVE m > 2 /\ IsOpen(a.ids[m - 2])
                OBVIOUS
            <4>1. n > 1 /\ IsOpen(t.ids[n - 1])
                BY <1>4 DEF Calling, n
            <4>2. m - 2 = n - 1 /\ m > 2 /\ n - 1 \in 1..n
                BY <1>1, <1>5, <4>1
            <4> QED BY <1>4, <4>1, <4>2
        <3>5. s.mode # "none" /\ a.given = 0 =>
                  \A j \in 1..(m - 1) : HeadAt(a, j) => a.ids[j].src = "summary"
            BY <1>4, <1>5 DEF Latest, HeadAt, n, s
        <3>6. ~(m <= a.given)
            BY <1>1, <1>4, <1>5
        <3> QED BY <3>1, <3>3, <3>4, <3>5, <3>6 DEF HeadOk
    <2> QED BY <2>1, <2>2, <2>3, <2>4 DEF PlaceOk
<1>9. PlaceOk(s, a, l)
    <2>1. ToldOk(a, l)
        BY <1>4, <1>7 DEF ToldOk
    <2>2. TailOk(a, l)
        <3>1. l > 1
            BY <1>1, <1>5
        <3> QED BY <1>2, <1>4, <1>5, <1>6, <3>1 DEF TailOk
    <2>3. EndOk(a, l)
        BY <1>2, <1>4, <1>5, <1>7 DEF EndOk
    <2>4. HeadOk(s, a, l)
        BY <1>6 DEF HeadOk
    <2> QED BY <2>1, <2>2, <2>3, <2>4 DEF PlaceOk
<1>10. \A y \in 1..Len(w) : PlaceOk(s, a, n + y)
    <2>1. \A y \in 1..Len(w) : y = 1 \/ y = 2
        BY <1>2
    <2> QED BY <1>5, <1>8, <1>9, <2>1
<1>11. Sound(s, a)
    <2>1. Len(w) \in Nat
        BY <1>2
    <2>2. Sound(s, t)
        BY DEF s
    <2>3. \A y \in 1..Len(w) : PlaceOk(s, a, Len(t.ids) + y)
        BY <1>10 DEF n
    <2>4. Extends(t, a, w, bit)
        BY <1>3 DEF bit
    <2> QED BY <1>3, <2>1, <2>2, <2>3, <2>4, ExtendSound
<1>12. Fetched(a)
    <2>1. \A i \in 1..l : i \in 1..m \/ i = l
        BY <1>5
    <2>2. NotForced(a)
        BY <1>2, <1>4, <1>7, <2>1 DEF NotForced
    <2>3. Len(a.ids) # 0
        BY <1>4, <1>5
    <2> QED BY <1>4, <1>6, <2>2, <2>3 DEF Fetched, Complete
<1> QED BY <1>11, <1>12 DEF a, s

LEMMA CallingKept ==
    ASSUME NEW r, Sound(setting, r), NEW t, Sound(setting, t), Keeps(r, t), NEW q, Calling(r, q)
    PROVE  Calling(t, q)
<1> DEFINE n == Len(r.ids)
<1>1. /\ n \in Nat /\ n # 0 /\ Len(t.ids) = n /\ n \in 1..n
      /\ \A i \in 1..n : r.ids[i] \in Token /\ t.ids[i] \in Token
    <2>1. n \in Nat /\ \A i \in 1..n : r.ids[i] \in Token
        BY RowIs DEF Sound
    <2>2. Len(t.ids) = n /\ \A i \in 1..Len(t.ids) : t.ids[i] \in Token
        BY RowIs DEF Sound, Keeps
    <2> QED BY <2>1, <2>2 DEF Calling
<1> HIDE DEF n
<1>2. ASSUME NEW i \in 1..n
      PROVE  /\ t.mask[i] = r.mask[i] /\ (IsOpen(t.ids[i]) <=> IsOpen(r.ids[i]))
             /\ IsOpen(r.ids[i]) => t.ids[i] = r.ids[i]
    <2>1. /\ t.mask[i] = r.mask[i]
          /\ ~IsMemory(r.ids[i]) => t.ids[i] = r.ids[i]
          /\ IsMemory(t.ids[i]) <=> IsMemory(r.ids[i])
        BY DEF Keeps, n
    <2>2. /\ IsMemory(r.ids[i]) => ~IsOpen(r.ids[i])
          /\ IsMemory(t.ids[i]) => ~IsOpen(t.ids[i])
        BY <1>1, TokenKinds
    <2> QED BY <2>1, <2>2
<1>3. t.mask[n] = 1
    <2>1. r.mask[n] = 1
        BY DEF Calling, n
    <2> QED BY <1>1, <1>2, <2>1
<1>4. PICK o \in 1..n : LastOpen(r.ids, n + 1, o) /\ r.ids[o].query = q
    BY DEF Calling, n
<1>5. LastOpen(t.ids, n + 1, o) /\ t.ids[o].query = q
    <2>1. \A k \in (o + 1)..((n + 1) - 1) : k \in 1..n /\ ~IsOpen(t.ids[k])
        <3> TAKE k \in (o + 1)..((n + 1) - 1)
        <3>1. k \in 1..n
            BY <1>1
        <3> QED BY <1>2, <1>4, <3>1 DEF LastOpen
    <2>2. IsOpen(t.ids[o]) /\ t.ids[o].query = q /\ o \in 1..((n + 1) - 1)
        <3>1. IsOpen(r.ids[o]) /\ o \in 1..((n + 1) - 1)
            BY <1>4 DEF LastOpen
        <3> QED BY <1>2, <1>4, <3>1
    <2> QED BY <2>1, <2>2 DEF LastOpen
<1>6. t.given = 0 => n > 1 /\ IsOpen(t.ids[n - 1])
    <2> SUFFICES ASSUME t.given = 0 PROVE n > 1 /\ IsOpen(t.ids[n - 1])
        OBVIOUS
    <2>1. n > 1 /\ IsOpen(r.ids[n - 1])
        BY DEF Calling, n, Keeps
    <2>2. n - 1 \in 1..n
        BY <1>1, <2>1
    <2> QED BY <1>2, <2>1, <2>2
<1> QED BY <1>1, <1>3, <1>4, <1>5, <1>6 DEF Calling

\* The result of a call, appended to a row whose earlier results are summarised.
LEMMA AnsweredIs ==
    ASSUME NEW r, Sound(setting, r), NotForced(r), Complete(r), NEW q \in Query, Calling(r, q),
           NEW found \in BOOLEAN
    PROVE  LET a == Answered(r, q, found)
           IN  /\ Sound(setting, a) /\ Fetched(a) /\ a.prompt = r.prompt /\ a.given = r.given
               /\ SameUpTo(r, a, r.given)
<1> DEFINE t == SummarizePreviousResults(r)
           w == Result(q, found)
           a == Extend(t, w, 0)
           bit == 0
<1>1. Sound(setting, t) /\ NotForced(t) /\ Keeps(r, t) /\ Latest(t)
    BY SummarizeSound
<1>2. IsPair(w, "result", q)
    BY ResultIs
<1> HIDE DEF t, w
<1>3. Calling(t, q)
    BY <1>1, CallingKept
<1>4. Sound(setting, a) /\ Fetched(a)
    BY <1>1, <1>2, <1>3, AppendResult
<1>5. Extends(t, a, w, bit)
    <2>1. bit \in {0, 1} /\ a = Extend(t, w, bit) /\ w \in Seq(Token) /\ IsRow(setting, t)
        BY <1>1, <1>2 DEF IsPair, Sound
    <2> HIDE DEF bit, a
    <2> QED BY <2>1, ExtendIs
<1> HIDE DEF a, bit
<1>6. a.prompt = r.prompt /\ a.given = r.given
    BY <1>1, <1>5 DEF Extends, Keeps
<1>7. SameUpTo(r, a, r.given)
    <2>1. r.given \in Nat /\ r.given <= Len(r.ids) /\ Len(r.ids) \in Nat
        BY RowIs DEF Sound
    <2>2. \A i \in 1..r.given : i \in 1..Len(t.ids)
        BY <1>1, <2>1 DEF Keeps
    <2> QED BY <1>1, <1>5, <1>6, <2>2 DEF Extends, Keeps, SameUpTo
<1> QED BY <1>4, <1>6, <1>7 DEF Answered, a, t, w

-------------------------------------------------------------------------------
(* Rows in their rounds                                                        *)

\* What a row came from: of the same prompt, and what it was given is the same.
Follows(r, t) == t.prompt = r.prompt /\ SameUpTo(r, t, r.given)

\* The response quotes a result within a summary, or does not end in generated text and
\* padding (MaskTellsWhoWrote).
Exempt(s, parent) ==
    \/ \E j \in 1..Len(parent.ids) : parent.ids[j].says = "quote"
    \/ ~Generated(parent.ids[Len(parent.ids)])
    \/ Len(parent.ids) = s.length

\* Up to what it was given, r is its parent but for the o-th token, the refined search.
RefinedAt(r, parent, o) ==
    /\ r.ids[o].src = "refiner" /\ IsOpen(r.ids[o]) /\ IsOpen(parent.ids[o])
    /\ \A i \in 1..r.given : i # o => r.ids[i] = parent.ids[i] /\ r.ids[i].src # "refiner"
    /\ \A i \in (o + 1)..r.given : ~IsOpen(r.ids[i])

\* r was started from a refinement of a finished response.
IsChild(s, r, parent) ==
    /\ parent.given = 0 /\ r.given # 0 /\ r.given <= Len(parent.ids) /\ r.given < s.length
    /\ \E o \in 1..r.given : RefinedAt(r, parent, o)
    /\ (\E i \in 1..r.given : WrongBit(r, i)) => Exempt(s, parent)

LEMMA ChildKept ==
    ASSUME NEW s, NEW r, r.given \in Nat, NEW t, Follows(r, t), NEW parent, IsChild(s, r, parent)
    PROVE  IsChild(s, t, parent)
<1>1. /\ t.given = r.given
      /\ \A i \in 1..r.given : t.ids[i] = r.ids[i] /\ t.mask[i] = r.mask[i]
    BY DEF Follows, SameUpTo
<1>2. PICK o \in 1..r.given : RefinedAt(r, parent, o)
    BY DEF IsChild
<1>3. \A i \in (o + 1)..r.given : i \in 1..r.given
    BY <1>2
<1>4. RefinedAt(t, parent, o)
    BY <1>1, <1>2, <1>3 DEF RefinedAt
<1>5. \A i \in 1..r.given : WrongBit(t, i) => WrongBit(r, i)
    BY <1>1 DEF WrongBit
<1> QED BY <1>1, <1>2, <1>4, <1>5 DEF IsChild

\* A row in the turns of a round: an active one is new or ends in its last result.
InTurn(s, st, r) ==
    /\ Len(r.ids) <= s.length /\ NotForced(r)
    /\ r.active => Len(r.ids) < s.length /\ r.room \in 1..(s.length + s.maxNew)
    /\ ~r.active => Len(r.ids) # 0 /\ (Len(r.ids) < s.length => r.mask[Len(r.ids)] = 1)
    /\ st = 0 => /\ r.active /\ Len(r.ids) = r.given
                 /\ Len(r.ids) # 0 => r.mask[Len(r.ids)] = 1
    /\ st # 0 /\ r.active => Len(r.ids) # 0 /\ TailAt(r, Len(r.ids))

\* A row after its last turn: it breaks off only where no more room is left.
Done(s, r) ==
    /\ Len(r.ids) # 0
    /\ IsMemory(r.ids[Len(r.ids)]) /\ r.mask[Len(r.ids)] = 0 =>
           Len(r.ids) >= s.length - AnswerRoom
    /\ r.ids[Len(r.ids)].src = "prefix" => Len(r.ids) >= s.length

\* Something may follow an active row.
LEMMA ActiveIs ==
    ASSUME NEW s, NEW st, NEW r, Sound(s, r), InTurn(s, st, r), r.active
    PROVE  Complete(r) /\ (Len(r.ids) # 0 => (r.given = 0 => r.mask[Len(r.ids)] = 0))
<1> SUFFICES ASSUME Len(r.ids) # 0
             PROVE  ~HeadAt(r, Len(r.ids)) /\ (r.given = 0 => r.mask[Len(r.ids)] = 0)
    BY DEF Complete
<1>1. CASE st = 0
    BY <1>1 DEF InTurn, HeadAt
<1>2. CASE st # 0
    <2>1. TailAt(r, Len(r.ids))
        BY <1>2 DEF InTurn
    <2> QED BY <2>1 DEF TailAt, HeadAt, IsTail, IsHead
<1> QED BY <1>1, <1>2

-------------------------------------------------------------------------------
(* What the policy says                                                        *)

LEMMA ThinksIs ==
    ASSUME NEW m \in Nat \ {0}
    PROVE  LET o == [i \in 1..m |-> Think] IN o \in Seq(Token) /\ Len(o) = m
<1> DEFINE o == [i \in 1..m |-> Think]
<1>1. o \in [1..m -> Token] /\ DOMAIN o = 1..m
    BY NewTokens
<1> HIDE DEF o
<1>2. o \in Seq(Token)
    BY <1>1, SeqDef
<1>3. Len(o) = m
    BY <1>1, <1>2, LenProperties
<1> QED BY <1>2, <1>3 DEF o

\* A text of the policy is generated; a call in it is its last token but one.
SaidOk(o) ==
    /\ o \in Seq(Token) /\ Len(o) # 0
    /\ \A y \in 1..Len(o) : Generated(o[y]) /\ o[y].src # "refiner"
    /\ (\E y \in 1..Len(o) : IsOpen(o[y])) =>
           Len(o) > 1 /\ IsOpen(o[Len(o) - 1]) /\ ~IsOpen(o[Len(o)])

LEMMA SaidIs ==
    ASSUME NEW m \in Nat \ {0}, NEW o \in Output(m)
    PROVE  SaidOk(o)
<1>1. /\ Think.src = "policy" /\ Verdict.src = "policy" /\ CloseSearch.src = "policy"
      /\ CloseAnswer("policy").src = "policy"
      /\ ~IsOpen(Think) /\ ~IsOpen(Verdict) /\ ~IsOpen(CloseSearch)
      /\ ~IsOpen(CloseAnswer("policy"))
    BY DEF Think, Verdict, CloseSearch, CloseAnswer, Word, IsOpen
<1>2. \A q \in Query : Ask("policy", q).src = "policy" /\ IsOpen(Ask("policy", q))
    BY DEF Ask, IsOpen
<1>3. \A t : t.src = "policy" => Generated(t) /\ t.src # "refiner"
    BY DEF Generated
<1>4. CASE \E q \in Query : o = <<Ask("policy", q), CloseSearch>>
    <2>1. PICK q \in Query : o = <<Ask("policy", q), CloseSearch>>
        BY <1>4
    <2> DEFINE a == Ask("policy", q)
               c == CloseSearch
    <2>2. a \in Token /\ c \in Token
        BY NewTokens
    <2>3. a.src = "policy" /\ IsOpen(a) /\ c.src = "policy" /\ ~IsOpen(c)
        BY <1>1, <1>2
    <2> HIDE DEF a, c
    <2>4. o = <<a, c>>
        BY <2>1 DEF a, c
    <2>5. o \in Seq(Token) /\ Len(o) = 2 /\ o[1] = a /\ o[2] = c
        BY <2>2, <2>4
    <2>6. \A y \in 1..Len(o) : o[y].src = "policy"
        BY <2>3, <2>5
    <2> QED BY <1>3, <2>3, <2>5, <2>6 DEF SaidOk
<1>5. CASE o = <<Verdict, CloseAnswer("policy")>>
    <2> DEFINE a == Verdict
               c == CloseAnswer("policy")
    <2>2. a \in Token /\ c \in Token
        BY NewTokens
    <2>3. a.src = "policy" /\ ~IsOpen(a) /\ c.src = "policy" /\ ~IsOpen(c)
        BY <1>1
    <2>4. o = <<a, c>>
        BY <1>5
    <2> HIDE DEF a, c
    <2>5. o \in Seq(Token) /\ Len(o) = 2 /\ o[1] = a /\ o[2] = c
        BY <2>2, <2>4
    <2>6. \A y \in 1..Len(o) : o[y].src = "policy" /\ ~IsOpen(o[y])
        BY <2>3, <2>5
    <2> QED BY <1>3, <2>5, <2>6 DEF SaidOk
<1>6. CASE o = <<Think>>
    <2> DEFINE a == Think
    <2>2. a \in Token /\ a.src = "policy" /\ ~IsOpen(a)
        BY <1>1, NewTokens
    <2>4. o = <<a>>
        BY <1>6
    <2> HIDE DEF a
    <2>5. o \in Seq(Token) /\ Len(o) = 1 /\ o[1] = a
        BY <2>2, <2>4
    <2>6. \A y \in 1..Len(o) : o[y].src = "policy" /\ ~IsOpen(o[y])
        BY <2>2, <2>5
    <2> QED BY <1>3, <2>5, <2>6 DEF SaidOk
<1>7. CASE \E q \in ShortQuery : o = <<Ask("policy", q), Ask("policy", q), CloseSearch>>
    <2>1. PICK q \in ShortQuery : o = <<Ask("policy", q), Ask("policy", q), CloseSearch>>
        BY <1>7
    <2> DEFINE a == Ask("policy", q)
               c == CloseSearch
    <2>2. q \in Query /\ a \in Token /\ c \in Token
        BY NewTokens, ToolAssumption
    <2>3. a.src = "policy" /\ IsOpen(a) /\ c.src = "policy" /\ ~IsOpen(c)
        BY <1>1, <1>2, <2>2
    <2> HIDE DEF a, c
    <2>4. o = <<a, a, c>>
        BY <2>1 DEF a, c
    <2>5. o \in Seq(Token) /\ Len(o) = 3 /\ o[1] = a /\ o[2] = a /\ o[3] = c
        BY <2>2, <2>4
    <2>6. \A y \in 1..Len(o) : o[y].src = "policy"
        BY <2>3, <2>5
    <2> QED BY <1>3, <2>3, <2>5, <2>6 DEF SaidOk
<1>8. CASE o = [i \in 1..m |-> Think]
    <2>1. o \in Seq(Token) /\ Len(o) = m
        BY <1>8, ThinksIs
    <2>2. \A y \in 1..Len(o) : o[y] = Think
        BY <1>8, <2>1
    <2>3. \A y \in 1..Len(o) : o[y].src = "policy" /\ ~IsOpen(o[y])
        BY <1>1, <2>2
    <2> QED BY <1>3, <2>1, <2>3 DEF SaidOk
<1> QED BY <1>4, <1>5, <1>6, <1>7, <1>8 DEF Output

-------------------------------------------------------------------------------
(* The turn loop, row by row                                                   *)

\* A row with generated text, or with a result, at its end.
Spoken(s, r) == Sound(s, r) /\ NotForced(r) /\ Complete(r) /\ Len(r.ids) # 0

LEMMA LastCall ==
    ASSUME NEW o, SaidOk(o), Calls(o)
    PROVE  Len(o) > 1 /\ IsOpen(o[Len(o) - 1]) /\ ~IsOpen(o[Len(o)])
           /\ LastQuery(o) = o[Len(o) - 1].query /\ LastQuery(o) \in Query
<1>1. o \in Seq(Token) /\ Len(o) \in Nat
    BY DEF SaidOk
<1>2. PICK y \in 1..Len(o) : IsOpen(o[y])
    <2>1. Opens(o) # {} /\ Opens(o) \in SUBSET (1..Len(o))
        BY <1>1, OpensUpTo DEF Calls
    <2> QED BY <1>1, <2>1, OpensAre
<1>3. Len(o) > 1 /\ IsOpen(o[Len(o) - 1]) /\ ~IsOpen(o[Len(o)])
    BY <1>2 DEF SaidOk
<1> DEFINE n == Len(o)
           i == n + 1
           k == n - 1
<1>4. LastOpen(o, i, k)
    <2>1. k \in 1..(i - 1) /\ \A j \in (k + 1)..(i - 1) : j = n
        BY <1>1, <1>3
    <2> QED BY <1>3, <2>1 DEF LastOpen
<1>5. i \in Nat /\ i <= Len(o) + 1 /\ i - 1 = Len(o) /\ k \in 1..Len(o)
    BY <1>1, <1>3
<1> HIDE DEF i, n, k
<1>6. LastQuery(SubSeq(o, 1, i - 1)) = o[k].query
    BY <1>1, <1>4, <1>5, LastQueryIs
<1>7. SubSeq(o, 1, i - 1) = o
    BY <1>1, <1>5, SubSeqFull
<1>8. o[k].query \in Query
    <2>1. o[k] \in Token /\ IsOpen(o[k])
        BY <1>1, <1>3, <1>5, ElementOfSeq DEF k, n
    <2> QED BY <2>1, TokenKinds
<1> QED BY <1>3, <1>6, <1>7, <1>8 DEF k, n

LEMMA TurnSays ==
    ASSUME NEW s, NEW st, NEW r, Sound(s, r), InTurn(s, st, r), r.active, NEW o, SaidOk(o)
    PROVE  LET x == Extend(r, o, 1)
           IN  /\ Spoken(s, x) /\ Follows(r, x) /\ x.mask[Len(x.ids)] = 1
               /\ Calls(o) => LastQuery(o) \in Query /\ Calling(x, LastQuery(o))
<1> DEFINE x == Extend(r, o, 1)
           n == Len(r.ids)
           l == Len(o)
           bit == 1
<1>1. /\ n \in Nat /\ r.given \in Nat /\ r.given <= n /\ l \in Nat /\ l # 0 /\ o \in Seq(Token)
      /\ IsRow(s, r)
      /\ \A y \in 1..l : Generated(o[y]) /\ o[y].src # "refiner"
    BY RowIs DEF Sound, SaidOk
<1>2. Complete(r)
    BY ActiveIs
<1>3. Sound(s, x) /\ Complete(x)
    BY <1>1, <1>2, SaySound
<1>4. Extends(r, x, o, bit)
    <2>1. x = Extend(r, o, bit) /\ bit \in {0, 1}
        OBVIOUS
    <2> HIDE DEF x, bit
    <2> QED BY <1>1, <2>1, ExtendIs
<1>5. /\ Len(x.ids) = n + l /\ x.prompt = r.prompt /\ x.given = r.given
      /\ \A i \in 1..n : x.ids[i] = r.ids[i] /\ x.mask[i] = r.mask[i]
      /\ \A y \in 1..l : x.ids[n + y] = o[y] /\ x.mask[n + y] = 1
    BY <1>4 DEF Extends, SameUpTo
<1> HIDE DEF x, bit
<1>6. Follows(r, x)
    <2>1. \A i \in 1..r.given : i \in 1..n
        BY <1>1
    <2> QED BY <1>5, <2>1 DEF Follows, SameUpTo
<1>7. NotForced(x)
    <2>1. \A i \in 1..n : r.ids[i].src # "prefix"
        BY DEF InTurn, NotForced
    <2>2. \A y \in 1..l : o[y].src # "prefix"
        BY <1>1 DEF Generated
    <2>3. ASSUME NEW i \in 1..(n + l) PROVE x.ids[i].src # "prefix"
        <3>1. CASE i \in 1..n
            BY <1>5, <2>1, <3>1
        <3>2. CASE i \notin 1..n
            <4> DEFINE y == i - n
            <4>1. y \in 1..l /\ i = n + y
                BY <1>1, <3>2
            <4> HIDE DEF y
            <4>2. x.ids[i] = o[y]
                BY <1>5, <4>1
            <4> QED BY <2>2, <4>1, <4>2
        <3> QED BY <3>1, <3>2
    <2> QED BY <1>5, <2>3 DEF NotForced
<1>8. l \in 1..l /\ Len(x.ids) # 0
    BY <1>1, <1>5
<1>9. x.mask[Len(x.ids)] = 1 /\ x.ids[Len(x.ids)] = o[l]
    BY <1>5, <1>8
<1>10. ASSUME Calls(o) PROVE LastQuery(o) \in Query /\ Calling(x, LastQuery(o))
    <2>1. /\ l > 1 /\ IsOpen(o[l - 1]) /\ ~IsOpen(o[l])
          /\ LastQuery(o) = o[l - 1].query /\ LastQuery(o) \in Query
        BY <1>10, LastCall
    <2>2. l - 1 \in 1..l /\ Len(x.ids) - 1 = n + (l - 1) /\ Len(x.ids) > 1
        BY <1>1, <1>5, <2>1
    <2> DEFINE k == Len(x.ids) - 1
    <2>3. x.ids[k] = o[l - 1]
        BY <1>5, <2>2
    <2>4. k \in 1..Len(x.ids) /\ LastOpen(x.ids, Len(x.ids) + 1, k)
        <3>1. k \in 1..Len(x.ids) /\ Len(x.ids) + 1 - 1 = Len(x.ids) /\ k + 1 = Len(x.ids)
            BY <1>1, <1>5, <2>2
        <3>2. \A j \in (k + 1)..(Len(x.ids) + 1 - 1) : j = Len(x.ids)
            BY <1>1, <1>5, <3>1
        <3> HIDE DEF k
        <3> QED BY <1>9, <2>1, <2>3, <3>1, <3>2 DEF LastOpen
    <2> HIDE DEF k
    <2> QED BY <1>8, <1>9, <2>1, <2>2, <2>3, <2>4 DEF Calling, k
<1> QED BY <1>3, <1>6, <1>7, <1>8, <1>9, <1>10 DEF Spoken, x

\* The length check: the row stays in the loop with a result at its end, or leaves it.
LEMMA TurnChecks ==
    ASSUME setting \in Setting, NEW x, Spoken(setting, x), x.given <= setting.length,
           NEW stays \in BOOLEAN, NEW st \in Nat,
           stays => TailAt(x, Len(x.ids)), ~stays => x.mask[Len(x.ids)] = 1
    PROVE  LET t == CheckLength(x, stays)
           IN  Sound(setting, t) /\ InTurn(setting, st + 1, t) /\ Follows(x, t)
<1> DEFINE t == CheckLength(x, stays)
           n == Len(x.ids)
           L == setting.length
<1>1. /\ n \in Nat /\ n # 0 /\ L \in Nat /\ L # 0 /\ x.given \in Nat /\ x.given <= n
      /\ x.given <= L /\ setting.maxNew \in Nat /\ st + 1 # 0
    BY RowIs, SettingIs DEF Spoken, Sound
<1>2. /\ Sound(setting, t) /\ IsCut(x, t)
      /\ t.active <=> stays /\ n < L
      /\ n < L => t.room = L - n /\ SameText(x, t)
    BY CheckIs DEF Spoken
<1>3. t.active \in BOOLEAN
    BY <1>2, RowIs DEF Sound
<1> HIDE DEF t
<1>4. /\ t.prompt = x.prompt /\ t.given = x.given
      /\ \A i \in 1..Len(t.ids) : t.ids[i] = x.ids[i] /\ t.mask[i] = x.mask[i]
      /\ Len(t.ids) = IF n <= L THEN n ELSE L
    BY <1>2 DEF IsCut, SameUpTo
<1>5. Follows(x, t)
    <2>1. \A i \in 1..x.given : i \in 1..Len(t.ids)
        BY <1>1, <1>4
    <2> QED BY <1>4, <2>1 DEF Follows, SameUpTo
<1>6. NotForced(t)
    <2>1. \A i \in 1..Len(t.ids) : i \in 1..n
        BY <1>1, <1>4
    <2> QED BY <1>4, <2>1 DEF Spoken, NotForced
<1>7. CASE n < L
    <2>1. Len(t.ids) = n /\ t.ids[n] = x.ids[n] /\ t.mask[n] = x.mask[n] /\ t.room = L - n
        BY <1>2, <1>4, <1>7 DEF SameText
    <2>2. L - n \in 1..(L + setting.maxNew) /\ n <= L
        BY <1>1, <1>7
    <2>3. TailAt(x, n) => TailAt(t, n)
        BY <2>1 DEF TailAt
    <2> QED BY <1>1, <1>2, <1>5, <1>6, <1>7, <2>1, <2>2, <2>3 DEF InTurn, t
<1>8. CASE ~(n < L)
    <2>1. Len(t.ids) = L /\ ~t.active /\ ~(L < L) /\ L <= L
        BY <1>1, <1>2, <1>4, <1>8
    <2> QED BY <1>1, <1>2, <1>5, <1>6, <2>1 DEF InTurn, t
<1> QED BY <1>7, <1>8

LEMMA FollowsOn ==
    ASSUME NEW r, NEW x, NEW t, Follows(r, x), Follows(x, t)
    PROVE  Follows(r, t)
BY DEF Follows, SameUpTo

LEMMA TurnAnswers ==
    ASSUME setting \in Setting, NEW x, Spoken(setting, x), x.given <= setting.length,
           NEW q \in Query, Calling(x, q), NEW found \in BOOLEAN, NEW st \in Nat
    PROVE  LET t == CheckLength(Answered(x, q, found), TRUE)
           IN  Sound(setting, t) /\ InTurn(setting, st + 1, t) /\ Follows(x, t)
<1> DEFINE a == Answered(x, q, found)
           stays == TRUE
           t == CheckLength(a, stays)
<1>1. /\ Sound(setting, a) /\ Fetched(a) /\ a.prompt = x.prompt /\ a.given = x.given
      /\ SameUpTo(x, a, x.given)
    BY AnsweredIs DEF Spoken
<1> HIDE DEF a
<1>2. Spoken(setting, a) /\ TailAt(a, Len(a.ids)) /\ a.given <= setting.length /\ Follows(x, a)
    BY <1>1 DEF Fetched, Spoken, Follows
<1>3. stays \in BOOLEAN /\ stays
    OBVIOUS
<1> HIDE DEF stays
<1>4. Sound(setting, t) /\ InTurn(setting, st + 1, t) /\ Follows(a, t)
    BY <1>2, <1>3, TurnChecks
<1> HIDE DEF t
<1>5. Follows(x, t)
    BY <1>2, <1>4, FollowsOn
<1> QED BY <1>4, <1>5 DEF t, a, stays

LEMMA TurnStops ==
    ASSUME setting \in Setting, NEW x, Spoken(setting, x), x.given <= setting.length,
           x.mask[Len(x.ids)] = 1, NEW st \in Nat
    PROVE  LET t == CheckLength(x, FALSE)
           IN  Sound(setting, t) /\ InTurn(setting, st + 1, t) /\ Follows(x, t)
<1> DEFINE stays == FALSE
           t == CheckLength(x, stays)
<1>3. stays \in BOOLEAN /\ ~stays
    OBVIOUS
<1> HIDE DEF stays
<1>4. Sound(setting, t) /\ InTurn(setting, st + 1, t) /\ Follows(x, t)
    BY <1>3, TurnChecks
<1> QED BY <1>4 DEF stays

\* The call of a refined prefix is the refined search.
LEMMA PrefixSays ==
    ASSUME NEW s, NEW r, Sound(s, r), InTurn(s, 0, r), r.given # 0, NEW parent, IsChild(s, r, parent)
    PROVE  /\ Spoken(s, r) /\ r.mask[Len(r.ids)] = 1
           /\ LastQuery(r.ids) \in Query /\ Calling(r, LastQuery(r.ids))
<1> DEFINE n == Len(r.ids)
<1>1. /\ n \in Nat /\ r.given = n /\ n # 0 /\ r.ids \in Seq(Token) /\ r.mask[n] = 1
      /\ NotForced(r)
    BY RowIs DEF Sound, InTurn
<1>2. Spoken(s, r)
    BY <1>1, ActiveIs DEF Spoken, Complete, HeadAt
<1>3. PICK o \in 1..n : RefinedAt(r, parent, o)
    BY <1>1 DEF IsChild
<1> DEFINE i == n + 1
<1>4. LastOpen(r.ids, i, o)
    <2>1. i - 1 = n /\ o \in 1..n
        BY <1>1
    <2>2. IsOpen(r.ids[o]) /\ \A k \in (o + 1)..n : ~IsOpen(r.ids[k])
        BY <1>1, <1>3 DEF RefinedAt
    <2> HIDE DEF i, n
    <2> QED BY <2>1, <2>2 DEF LastOpen
<1>5. i \in Nat /\ i <= Len(r.ids) + 1 /\ i - 1 = Len(r.ids)
    BY <1>1
<1> HIDE DEF i
<1>6. LastQuery(SubSeq(r.ids, 1, i - 1)) = r.ids[o].query
    BY <1>1, <1>4, <1>5, LastQueryIs
<1>7. SubSeq(r.ids, 1, i - 1) = r.ids
    BY <1>1, <1>5, SubSeqFull
<1>8. r.ids[o].query \in Query
    <2>1. r.ids[o] \in Token /\ IsOpen(r.ids[o])
        BY <1>1, <1>3, ElementOfSeq DEF RefinedAt
    <2> QED BY <2>1, TokenKinds
<1>9. Calling(r, r.ids[o].query)
    BY <1>1, <1>4 DEF Calling, i
<1> QED BY <1>1, <1>2, <1>6, <1>7, <1>8, <1>9

-------------------------------------------------------------------------------
(* The end of a round, row by row                                              *)

\* A row that no answer is forced of.
LEMMA UnforcedDone ==
    ASSUME setting \in Setting, NEW st \in Nat, NEW r, Sound(setting, r), InTurn(setting, st, r),
           r.active => st = setting.turns /\ ~(Remaining(r) > AnswerRoom)
    PROVE  Done(setting, r)
<1> DEFINE n == Len(r.ids)
           L == setting.length
<1>1. /\ n \in Nat /\ L \in Nat /\ AnswerRoom \in Nat /\ setting.turns \in Nat /\ n <= L
      /\ setting.turns # 0 \/ L > AnswerRoom
      /\ NotForced(r) /\ r.active \in BOOLEAN
    BY RowIs, SettingIs DEF Sound, InTurn
<1>2. Remaining(r) = L - n
    BY DEF Remaining
<1> HIDE DEF n, L
<1>3. CASE r.active
    <2>1. n >= L - AnswerRoom
        BY <1>1, <1>2, <1>3
    <2>2. n # 0
        <3>1. CASE st = 0
            BY <1>1, <1>3, <2>1, <3>1
        <3>2. CASE st # 0
            BY <1>3, <3>2 DEF InTurn, n
        <3> QED BY <3>1, <3>2
    <2>3. n \in 1..n
        BY <1>1, <2>2
    <2> QED BY <1>1, <2>1, <2>2, <2>3 DEF Done, NotForced, n, L
<1>4. CASE ~r.active
    <2>1. n # 0 /\ (n < L => r.mask[n] = 1)
        BY <1>4 DEF InTurn, n, L
    <2>2. n \in 1..n /\ (~(n < L) => n >= L - AnswerRoom)
        BY <1>1, <2>1
    <2> QED BY <1>1, <2>1, <2>2 DEF Done, NotForced, n, L
<1> QED BY <1>3, <1>4

LEMMA PrefixIs ==
    /\ FinalAnswerPrefix \in Seq(Token) /\ Len(FinalAnswerPrefix) \in Nat \ {0}
    /\ \A y \in 1..Len(FinalAnswerPrefix) :
           FinalAnswerPrefix[y].src = "prefix" /\ FinalAnswerPrefix[y].says = "budget reached"
<1> DEFINE w == FinalAnswerPrefix
           t == Word("prefix", "budget reached")
<1>1. w = [i \in 1..PrefixLength |-> t] /\ PrefixLength \in Nat \ {0}
    BY ToolAssumption DEF FinalAnswerPrefix
<1>2. t \in Token /\ t.src = "prefix" /\ t.says = "budget reached"
    BY NewTokens DEF Word
<1> HIDE DEF w, t
<1>3. w \in [1..PrefixLength -> Token] /\ DOMAIN w = 1..PrefixLength
    BY <1>1, <1>2
<1>4. w \in Seq(Token)
    BY <1>1, <1>3, SeqDef
<1>5. Len(w) = PrefixLength
    BY <1>1, <1>3, <1>4, LenProperties
<1> QED BY <1>1, <1>2, <1>4, <1>5 DEF w

\* The prefix of a forced answer at the end of an active row.
LEMMA PrefixSound ==
    ASSUME NEW s, NEW st, NEW r, Sound(s, r), InTurn(s, st, r), r.active
    PROVE  LET t == Extend(r, FinalAnswerPrefix, 0)
           IN  Sound(s, t) /\ Complete(t) /\ Follows(r, t)
<1> DEFINE w == FinalAnswerPrefix
           bit == 0
           t == Extend(r, w, bit)
           n == Len(r.ids)
           l == Len(w)
<1>1. /\ n \in Nat /\ r.given \in Nat /\ r.given <= n /\ IsRow(s, r) /\ NotForced(r)
      /\ w \in Seq(Token) /\ l \in Nat /\ l # 0
    BY RowIs, PrefixIs DEF Sound, InTurn
<1>0. \A y \in 1..l : w[y].src = "prefix" /\ w[y].says = "budget reached"
    BY PrefixIs
<1>2. Complete(r) /\ (n # 0 /\ r.given = 0 => r.mask[n] = 0)
    BY ActiveIs
<1> HIDE DEF w
<1>3. IsRow(s, t) /\ Extends(r, t, w, bit)
    <2>1. bit \in {0, 1}
        OBVIOUS
    <2> HIDE DEF bit
    <2> QED BY <1>1, <2>1, ExtendIs
<1> HIDE DEF t
<1>4. /\ Len(t.ids) = n + l /\ t.prompt = r.prompt /\ t.given = r.given
      /\ \A i \in 1..n : t.ids[i] = r.ids[i] /\ t.mask[i] = r.mask[i]
      /\ \A y \in 1..l : t.ids[n + y] = w[y] /\ t.mask[n + y] = 0
    BY <1>3 DEF Extends, SameUpTo
<1>5. Follows(r, t)
    <2>1. \A i \in 1..r.given : i \in 1..n
        BY <1>1
    <2> QED BY <1>4, <2>1 DEF Follows, SameUpTo
<1>6. \A k : t.ids[k].says = "budget reached" => ~HeadAt(t, k) /\ ~TailAt(t, k)
    BY DEF HeadAt, TailAt, IsHead, IsTail
<1>7. ASSUME NEW y \in 1..l PROVE PlaceOk(s, t, n + y)
    <2> DEFINE i == n + y
    <2>1. t.ids[i] = w[y] /\ t.mask[i] = 0 /\ i \in Nat \ {0} /\ i > r.given
        BY <1>1, <1>4
    <2>2. t.ids[i].src = "prefix" /\ ~HeadAt(t, i) /\ ~TailAt(t, i)
        BY <1>0, <1>6, <2>1
    <2>3. i > 1 => ~HeadAt(t, i - 1) /\ (r.given = 0 => t.mask[i - 1] = 0)
        <3>1. CASE y = 1
            <4>1. i - 1 = n
                BY <1>1, <3>1
            <4> SUFFICES ASSUME n # 0
                         PROVE  ~HeadAt(t, n) /\ (r.given = 0 => t.mask[n] = 0)
                <5>1. i > 1 => n # 0
                    BY <1>1, <4>1
                <5> HIDE DEF i
                <5> QED BY <4>1, <5>1
            <4>2. n \in 1..n
                BY <1>1
            <4>3. t.ids[n] = r.ids[n] /\ t.mask[n] = r.mask[n]
                BY <1>4, <4>2
            <4> QED BY <1>2, <4>3 DEF Complete, HeadAt
        <3>2. CASE y # 1
            <4>1. y - 1 \in 1..l /\ i - 1 = n + (y - 1)
                BY <1>1, <3>2
            <4> DEFINE x == y - 1
            <4>2. t.mask[n + x] = 0 /\ t.ids[n + x] = w[x] /\ w[x].says = "budget reached"
                BY <1>0, <1>4, <4>1
            <4>3. ~HeadAt(t, n + x)
                BY <1>6, <4>2
            <4> HIDE DEF x, i
            <4> QED BY <4>1, <4>2, <4>3 DEF x
        <3> QED BY <3>1, <3>2
    <2> HIDE DEF i
    <2>4. ToldOk(t, i)
        BY <1>4, <2>1, <2>2 DEF ToldOk, Generated
    <2>5. HeadOk(s, t, i)
        BY <2>2 DEF HeadOk
    <2>6. TailOk(t, i)
        BY <2>1, <2>2, <2>3 DEF TailOk
    <2>7. EndOk(t, i)
        <3>1. ~IsMemory(t.ids[i]) /\ t.ids[i].src # "refiner"
            BY <2>2 DEF IsMemory
        <3>2. i > 1 \/ i = 1
            BY <2>1
        <3> QED BY <1>4, <2>2, <2>3, <3>1, <3>2 DEF EndOk
    <2> QED BY <2>4, <2>5, <2>6, <2>7 DEF PlaceOk, i
<1>8. Sound(s, t)
    BY <1>1, <1>3, <1>7, ExtendSound
<1>9. Complete(t)
    <2>1. l \in 1..l
        BY <1>1
    <2> DEFINE x == t.ids[Len(t.ids)]
    <2>2. x = w[l]
        BY <1>4, <2>1
    <2>3. x.says = "budget reached"
        BY <1>0, <2>1, <2>2
    <2> QED BY <1>6, <2>3 DEF Complete
<1> QED BY <1>5, <1>8, <1>9 DEF t, w


\* A short text of tokens of S.
IsText(w, S, K) == w \in Seq(S) /\ Len(w) # 0 /\ \A y \in 1..Len(w) : w[y] \in K

LEMMA ShortTexts ==
    ASSUME NEW S, NEW a \in S, NEW b \in S, NEW c \in S, NEW K, {a, b, c} \subseteq K
    PROVE  /\ IsText(<<a, b>>, S, K) /\ IsText(Append(<<a>>, c), S, K)
           /\ IsText(Append(<<a, b>>, c), S, K)
<1>1. IsText(<<a, b>>, S, K)
    <2> DEFINE w == <<a, b>>
    <2>1. w \in Seq(S) /\ Len(w) = 2 /\ w[1] = a /\ w[2] = b
        OBVIOUS
    <2> HIDE DEF w
    <2>2. \A y \in 1..Len(w) : y = 1 \/ y = 2
        BY <2>1
    <2> QED BY <2>1, <2>2 DEF IsText
<1>2. IsText(Append(<<a>>, c), S, K)
    <2> DEFINE w == Append(<<a>>, c)
    <2>1. w \in Seq(S) /\ Len(w) = 2 /\ w[1] = a /\ w[2] = c
        OBVIOUS
    <2> HIDE DEF w
    <2>2. \A y \in 1..Len(w) : y = 1 \/ y = 2
        BY <2>1
    <2> QED BY <2>1, <2>2 DEF IsText
<1>3. IsText(Append(<<a, b>>, c), S, K)
    <2> DEFINE w == Append(<<a, b>>, c)
    <2>1. w \in Seq(S) /\ Len(w) = 3 /\ w[1] = a /\ w[2] = b /\ w[3] = c
        OBVIOUS
    <2> HIDE DEF w
    <2>2. \A y \in 1..Len(w) : y = 1 \/ y = 2 \/ y = 3
        BY <2>1
    <2> QED BY <2>1, <2>2 DEF IsText
<1> QED BY <1>1, <1>2, <1>3

\* A forced answer, with its closing tag.
LEMMA AnswerIs ==
    ASSUME NEW o, o \in {<<Verdict, CloseAnswer("policy")>>, <<Verdict>>}, NEW w,
           w = IF CloseAnswer("policy") \in Range(o) THEN o ELSE Append(o, CloseAnswer("closing"))
    PROVE  /\ w \in Seq(Token) /\ Len(w) # 0
           /\ \A y \in 1..Len(w) : Generated(w[y]) /\ w[y].src # "refiner"
<1> DEFINE a == Verdict
           b == CloseAnswer("policy")
           c == CloseAnswer("closing")
<1>1. a \in Token /\ b \in Token /\ c \in Token
    BY NewTokens
<1>2. \A t \in {a, b, c} : Generated(t) /\ t.src # "refiner"
    BY DEF Verdict, CloseAnswer, Word, Generated
<1>3. w \in {<<a, b>>, Append(<<a>>, c), Append(<<a, b>>, c)}
    <2>1. CASE o = <<a, b>>
        BY <2>1
    <2>2. CASE o = <<a>>
        <3>1. b \notin Range(o)
            BY <2>2 DEF Range, Verdict, CloseAnswer, Word
        <3> QED BY <2>2, <3>1
    <2> QED BY <2>1, <2>2
<1> HIDE DEF a, b, c
<1>4. IsText(w, Token, {a, b, c})
    <2> DEFINE K == {a, b, c}
    <2>1. {a, b, c} \subseteq K
        OBVIOUS
    <2> HIDE DEF K
    <2>2. /\ IsText(<<a, b>>, Token, K) /\ IsText(Append(<<a>>, c), Token, K)
          /\ IsText(Append(<<a, b>>, c), Token, K)
        BY <1>1, <2>1, ShortTexts
    <2> QED BY <1>3, <2>2 DEF K
<1> QED BY <1>2, <1>4 DEF IsText

LEMMA ForcedDone ==
    ASSUME setting \in Setting, NEW st, NEW r, Sound(setting, r), InTurn(setting, st, r), r.active,
           NEW w \in Seq(Token), Len(w) # 0,
           \A y \in 1..Len(w) : Generated(w[y]) /\ w[y].src # "refiner"
    PROVE  LET t == Extend(Extend(r, FinalAnswerPrefix, 0), w, 1)
           IN  Sound(setting, t) /\ Done(setting, t) /\ Follows(r, t)
<1> DEFINE x == Extend(r, FinalAnswerPrefix, 0)
           bit == 1
           t == Extend(x, w, bit)
           n == Len(x.ids)
           l == Len(w)
<1>1. Sound(setting, x) /\ Complete(x) /\ Follows(r, x)
    BY PrefixSound
<1> HIDE DEF x
<1>2. Sound(setting, t)
    BY <1>1, SaySound
<1>3. Extends(x, t, w, bit)
    <2>1. bit \in {0, 1} /\ IsRow(setting, x)
        BY <1>1 DEF Sound
    <2> HIDE DEF bit
    <2> QED BY <2>1, ExtendIs
<1>4. n \in Nat /\ x.given \in Nat /\ x.given <= n /\ l \in Nat /\ l # 0 /\ l \in 1..l
    BY <1>1, RowIs DEF Sound
<1> HIDE DEF t
<1>5. Len(t.ids) = n + l /\ t.ids[Len(t.ids)] = w[l]
    BY <1>3, <1>4 DEF Extends
<1>6. Done(setting, t)
    <2>1. Len(t.ids) # 0
        BY <1>4, <1>5
    <2>2. Generated(t.ids[Len(t.ids)])
        BY <1>4, <1>5
    <2> QED BY <2>1, <2>2 DEF Done, Generated, IsMemory
<1>7. Follows(x, t)
    <2>1. \A i \in 1..x.given : i \in 1..n
        BY <1>4
    <2> QED BY <1>3, <2>1 DEF Extends, Follows, SameUpTo
<1>8. Follows(r, t)
    BY <1>1, <1>7, FollowsOn
<1> QED BY <1>2, <1>6, <1>8 DEF t, x, bit

-------------------------------------------------------------------------------
(* Results and the pieces of the mask                                          *)

\* E lists the numbers of K, up to n, in ascending order.
Ascending(E, K, n) ==
    /\ E \in Seq(1..n)
    /\ \A j \in 1..Len(E) : E[j] \in K
    /\ \A i, j \in 1..Len(E) : i < j => E[i] < E[j]
    /\ \A x \in K : \E j \in 1..Len(E) : E[j] = x

LEMMA PlacesAre ==
    ASSUME NEW S, NEW q \in Seq(S), NEW K \in SUBSET (1..Len(q))
    PROVE  Ascending(Places(q, K), K, Len(q))
<1> DEFINE n == Len(q)
           u == [i \in DOMAIN q |-> i]
           E == Places(q, K)
<1>1. n \in Nat /\ u \in [1..n -> 1..n] /\ \A i \in 1..n : u[i] = i
    BY LenProperties
<1>2. u \in Seq(1..n) /\ Len(u) = n
    <2> HIDE DEF u
    <2>1. DOMAIN u = 1..n
        BY <1>1
    <2>2. u \in Seq(1..n)
        BY <1>1, SeqDef
    <2> QED BY <1>1, <2>1, <2>2, LenProperties
<1>3. E = Pick(u, K)
    BY DEF Places
<1> HIDE DEF u, E, n
<1>4. PICK pos \in [1..Len(Pick(u, K)) -> 1..Len(u)] : PickedFrom(pos, u, K)
    BY <1>2, PickPlaces
<1>5. E \in Seq(1..n)
    BY <1>2, <1>3, PickType
<1>6. \A j \in 1..Len(E) : E[j] = pos[j] /\ pos[j] \in K
    BY <1>1, <1>2, <1>3, <1>4 DEF PickedFrom
<1>7. \A i, j \in 1..Len(E) : i < j => E[i] < E[j]
    BY <1>3, <1>4, <1>6 DEF PickedFrom
<1>8. \A x \in K : \E j \in 1..Len(E) : E[j] = x
    <2>1. \A x \in K : x \in 1..Len(u)
        BY <1>2 DEF n
    <2> QED BY <1>3, <1>4, <1>6, <2>1 DEF PickedFrom
<1> QED BY <1>5, <1>6, <1>7, <1>8 DEF Ascending, E, n

\* Numbers that rise.
Rises(g, n) == \A i, j \in 1..n : i < j => g[i] < g[j]

LEMMA RisesFromBelow ==
    ASSUME NEW n \in Nat, NEW g \in [1..n -> Nat \ {0}], Rises(g, n)
    PROVE  \A j \in 1..n : j <= g[j]
<1> DEFINE T == {k \in Nat : \A j \in 1..n : j <= k => j <= g[j]}
<1>1. T \in SUBSET Nat /\ 0 \in T
    OBVIOUS
<1>2. ASSUME NEW k \in Nat, k \in T PROVE k + 1 \in T
    <2>1. ASSUME NEW j \in 1..n, j <= k + 1 PROVE j <= g[j]
        <3>1. CASE j <= k
            BY <1>2, <3>1
        <3>2. CASE ~(j <= k) /\ j = 1
            BY <3>2
        <3>3. CASE ~(j <= k) /\ j # 1
            <4> DEFINE i == j - 1
            <4>1. i \in 1..n /\ i <= k /\ i < j
                BY <2>1, <3>3
            <4>2. i <= g[i] /\ g[i] < g[j] /\ g[i] \in Nat /\ g[j] \in Nat
                BY <1>2, <4>1 DEF Rises
            <4> QED BY <4>2
        <3> QED BY <3>1, <3>2, <3>3
    <2> QED BY <2>1
<1> HIDE DEF T
<1>3. \A k \in Nat : k \in T
    BY <1>1, <1>2, InductionOnNat
<1>4. \A j \in 1..n : j \in Nat /\ j <= j
    OBVIOUS
<1> QED BY <1>3, <1>4 DEF T

LEMMA RisesWithin ==
    ASSUME NEW n \in Nat, NEW g \in [1..n -> 1..n], Rises(g, n)
    PROVE  \A j \in 1..n : g[j] = j
<1> DEFINE h == [j \in 1..n |-> n + 1 - g[n + 1 - j]]
<1>1. \A j \in 1..n : n + 1 - j \in 1..n /\ g[n + 1 - j] \in 1..n
    OBVIOUS
<1>2. h \in [1..n -> Nat \ {0}]
    BY <1>1
<1>3. ASSUME NEW i \in 1..n, NEW j \in 1..n, i < j PROVE h[i] < h[j]
    <2> DEFINE a == n + 1 - i
               b == n + 1 - j
    <2>1. a \in 1..n /\ b \in 1..n /\ b < a
        BY <1>3
    <2>2. g[b] < g[a] /\ g[a] \in 1..n /\ g[b] \in 1..n
        BY <2>1 DEF Rises
    <2>3. h[i] = n + 1 - g[a] /\ h[j] = n + 1 - g[b]
        OBVIOUS
    <2> QED BY <2>2, <2>3
<1> HIDE DEF h
<1>4. \A j \in 1..n : j <= h[j]
    BY <1>2, <1>3, RisesFromBelow DEF Rises
<1>5. \A j \in 1..n : j <= g[j]
    BY RisesFromBelow
<1>6. ASSUME NEW j \in 1..n PROVE g[j] = j
    <2> DEFINE i == n + 1 - j
    <2>1. i \in 1..n /\ n + 1 - i = j
        OBVIOUS
    <2>2. h[i] = n + 1 - g[n + 1 - i]
        BY <2>1 DEF h
    <2>3. i <= h[i] /\ j <= g[j] /\ g[j] \in 1..n
        BY <1>4, <1>5, <2>1
    <2> QED BY <2>1, <2>2, <2>3
<1> QED BY <1>6

\* The tokens behind which the mask falls to zero: retrieved text or padding follows.
Falls(r) ==
    {i \in 1..Len(r.ids) : i < setting.length /\ r.mask[i] = 1
                           /\ (i < Len(r.ids) => r.mask[i + 1] = 0)}

LEMMA MaskEndsAre ==
    ASSUME setting \in Setting, NEW s, NEW r, IsRow(s, r), Len(r.ids) <= setting.length
    PROVE  \E F : /\ Ascending(F, Falls(r), setting.length)
                  /\ Len(MaskEnds(r)) = IF Len(F) = 0 THEN 0 ELSE Len(F) - 1
                  /\ \A j \in 1..Len(MaskEnds(r)) : MaskEnds(r)[j] = F[j]
<1> DEFINE n == Len(r.ids)
           L == setting.length
           z == Zeros(L - Len(r.mask))
           bits == r.mask \o z
           K == {i \in 1..(Len(bits) - 1) : bits[i] = 1 /\ bits[i + 1] = 0}
           F == Places(bits, K)
           B == {0, 1}
<1>1. n \in Nat /\ L \in Nat /\ n <= L /\ r.mask \in Seq(B) /\ Len(r.mask) = n
      /\ \A i \in 1..n : r.mask[i] \in B
    BY RowIs, SettingIs
<1>2. z \in Seq(B) /\ Len(z) = L - n /\ \A y \in 1..(L - n) : z[y] = 0
    <2>1. z = [i \in 1..(L - n) |-> 0] /\ L - n \in Nat
        BY <1>1 DEF Zeros
    <2> HIDE DEF z
    <2>2. z \in [1..(L - n) -> B] /\ DOMAIN z = 1..(L - n) /\ \A y \in 1..(L - n) : z[y] = 0
        BY <2>1
    <2> HIDE DEF B
    <2>3. z \in Seq(B)
        BY <2>1, <2>2, SeqDef
    <2> QED BY <2>1, <2>2, <2>3, LenProperties
<1> HIDE DEF z, B
<1>3. /\ bits \in Seq(B) /\ Len(bits) = L
      /\ \A i \in 1..n : bits[i] = r.mask[i]
      /\ \A y \in 1..(L - n) : bits[n + y] = 0
    <2>1. /\ bits \in Seq(B) /\ Len(bits) = Len(r.mask) + Len(z)
          /\ \A i \in 1..Len(r.mask) : bits[i] = r.mask[i]
          /\ \A y \in 1..Len(z) : bits[Len(r.mask) + y] = z[y]
        <3>1. r.mask \in Seq(B) /\ z \in Seq(B)
            BY <1>1, <1>2
        <3> DEFINE u == r.mask
        <3> HIDE DEF n, L
        <3> QED BY <3>1, JoinIs
    <2>2. n + (L - n) = L
        BY <1>1
    <2> HIDE DEF bits, n, L
    <2> QED BY <1>1, <1>2, <2>1, <2>2
<1> HIDE DEF bits
<1>4. K = Falls(r)
    <2>1. ASSUME NEW i \in 1..L PROVE i \in K <=> i \in Falls(r)
        <3>1. CASE i < n
            <4>1. i \in 1..n /\ i + 1 \in 1..n /\ i \in 1..(L - 1) /\ i < L
                BY <1>1, <3>1
            <4>2. bits[i] = r.mask[i] /\ bits[i + 1] = r.mask[i + 1]
                BY <1>3, <4>1
            <4> QED BY <1>3, <3>1, <4>1, <4>2 DEF Falls
        <3>2. CASE i = n
            <4>1. i \in 1..n /\ ~(i < n) /\ (i \in 1..(L - 1) <=> i < L)
                BY <1>1, <3>2
            <4>2. bits[i] = r.mask[i]
                BY <1>3, <4>1
            <4>3. i < L => bits[i + 1] = 0
                <5>1. i < L => 1 \in 1..(L - n)
                    BY <1>1, <3>2
                <5> QED BY <1>3, <3>2, <5>1
            <4> QED BY <1>3, <4>1, <4>2, <4>3 DEF Falls
        <3>3. CASE i > n
            <4> DEFINE y == i - n
            <4>1. y \in 1..(L - n) /\ i = n + y /\ i \notin 1..n
                BY <1>1, <3>3
            <4>2. bits[i] = 0
                BY <1>3, <4>1
            <4> QED BY <4>1, <4>2 DEF Falls
        <3> QED BY <1>1, <3>1, <3>2, <3>3
    <2>2. K \subseteq 1..L /\ Falls(r) \subseteq 1..L
        BY <1>1, <1>3 DEF Falls
    <2> QED BY <2>1, <2>2
<1>5. K \in SUBSET (1..Len(bits))
    BY <1>1, <1>3
<1>6. MaskEnds(r) = IF F = <<>> THEN <<>> ELSE Front(F)
    BY DEF MaskEnds, bits, z
<1> HIDE DEF K
<1>7. Ascending(F, Falls(r), L)
    <2>1. Ascending(F, K, Len(bits))
        BY <1>3, <1>5, PlacesAre
    <2> HIDE DEF F
    <2> QED BY <1>3, <1>4, <2>1
<1> HIDE DEF F, L
<1>8. F \in Seq(1..L) /\ Len(F) \in Nat
    BY <1>7 DEF Ascending
<1>9. CASE Len(F) = 0
    <2>1. F = <<>>
        BY <1>8, <1>9, EmptySeq
    <2>2. Len(MaskEnds(r)) = 0
        BY <1>6, <2>1, EmptySeq
    <2>3. \A j \in 1..Len(MaskEnds(r)) : MaskEnds(r)[j] = F[j]
        BY <2>2
    <2> QED BY <1>7, <1>9, <2>2, <2>3 DEF L
<1>10. CASE Len(F) # 0
    <2>1. MaskEnds(r) = Front(F)
        BY <1>6, <1>8, <1>10, EmptySeq
    <2>2. Front(F) = SubSeq(F, 0 + 1, Len(F) - 1)
        BY DEF Front
    <2> DEFINE a == 0
               b == Len(F) - 1
    <2>3. a \in Nat /\ b \in Nat /\ a <= b /\ b <= Len(F) /\ b - a = b
        BY <1>8, <1>10
    <2>4. Len(SubSeq(F, a + 1, b)) = b - a /\ \A j \in 1..(b - a) : SubSeq(F, a + 1, b)[j] = F[a + j]
        <3> HIDE DEF a, b
        <3> QED BY <1>8, <2>3, SliceIs
    <2>5. \A j \in 1..b : a + j = j
        OBVIOUS
    <2>6. Len(MaskEnds(r)) = b /\ \A j \in 1..b : MaskEnds(r)[j] = F[j]
        BY <2>1, <2>2, <2>3, <2>4, <2>5
    <2> QED BY <1>7, <1>10, <2>6 DEF L
<1> QED BY <1>9, <1>10

LEMMA ResultEndsAre ==
    ASSUME NEW s, NEW r, IsRow(s, r)
    PROVE  Ascending(ResultEnds(r), {c \in 1..Len(r.ids) : HasResultClose(r.ids[c])}, Len(r.ids))
<1> DEFINE K == {c \in 1..Len(r.ids) : HasResultClose(r.ids[c])}
<1>1. r.ids \in Seq(Token) /\ DOMAIN r.ids = 1..Len(r.ids)
    BY RowIs, LenProperties
<1>2. ResultEnds(r) = Places(r.ids, K)
    BY <1>1 DEF ResultEnds, Positions
<1>3. K \in SUBSET (1..Len(r.ids))
    OBVIOUS
<1> HIDE DEF K
<1>4. Ascending(ResultEnds(r), K, Len(r.ids))
    BY <1>1, <1>2, <1>3, PlacesAre
<1> QED BY <1>4 DEF K

\* The end of a result in a response that was given nothing: a result or summary ends there,
\* and before its two tokens the mask falls.
LEMMA ResultEndIs ==
    ASSUME setting \in Setting, NEW s, NEW r, Sound(s, r), r.given = 0,
           Len(r.ids) <= setting.length,
           NEW c \in 1..Len(r.ids), HasResultClose(r.ids[c])
    PROVE  c > 2 /\ TailAt(r, c) /\ HeadAt(r, c - 1) /\ r.ids[c - 1].src = r.ids[c].src
           /\ c - 2 \in Falls(r) /\ c - 2 < Len(r.ids)
<1>1. /\ r.ids[c] \in Token /\ r.mask[c] \in {0, 1} /\ PlaceOk(s, r, c) /\ c > r.given
      /\ Len(r.ids) \in Nat /\ setting.length \in Nat
    BY RowIs, SettingIs DEF Sound
<1>2. IsTail(r.ids[c]) /\ ~Generated(r.ids[c])
    BY <1>1, ResultKinds, TokenKinds
<1>3. TailAt(r, c)
    BY <1>1, <1>2 DEF TailAt, PlaceOk, ToldOk
<1>4. c > 1 /\ HeadAt(r, c - 1) /\ r.ids[c - 1].src = r.ids[c].src
    BY <1>1, <1>3 DEF PlaceOk, TailOk
<1> DEFINE h == c - 1
<1>5. h \in 1..Len(r.ids) /\ h - 1 = c - 2
    BY <1>4
<1>6. HeadOk(s, r, h)
    BY <1>5 DEF Sound, PlaceOk
<1>7. h > 1 /\ r.mask[h - 1] = 1
    BY <1>4, <1>6 DEF HeadOk
<1> DEFINE e == c - 2
<1>8. /\ e \in 1..Len(r.ids) /\ e < setting.length /\ e < Len(r.ids) /\ r.mask[e] = 1 /\ e + 1 = h
      /\ c > 2
    BY <1>1, <1>5, <1>7
<1>9. r.mask[h] = 0
    BY <1>4 DEF HeadAt
<1> HIDE DEF e, h
<1>10. e \in Falls(r)
    BY <1>8, <1>9 DEF Falls
<1> QED BY <1>3, <1>4, <1>8, <1>10 DEF e

\* Where the mask falls within such a response, a result or summary follows, behind the text
\* that called for it.
LEMMA FallIs ==
    ASSUME setting \in Setting, NEW s, NEW r, Sound(s, r), r.given = 0,
           NEW e \in Falls(r), e < Len(r.ids)
    PROVE  e > 1 /\ HeadAt(r, e + 1) /\ IsOpen(r.ids[e - 1])
<1> DEFINE h == e + 1
<1>1. e \in 1..Len(r.ids) /\ r.mask[e] = 1 /\ r.mask[h] = 0 /\ Len(r.ids) \in Nat
    BY RowIs DEF Falls, Sound
<1>2. h \in 1..Len(r.ids) /\ h - 1 = e /\ h > 1
    BY <1>1
<1> HIDE DEF h
<1>3. r.ids[h] \in Token /\ PlaceOk(s, r, h)
    BY <1>2, RowIs DEF Sound
<1>4. ~Generated(r.ids[h])
    BY <1>1, <1>3 DEF PlaceOk, ToldOk
<1>5. r.ids[h].src # "prefix"
    BY <1>1, <1>2, <1>3 DEF PlaceOk, EndOk
<1>6. IsHead(r.ids[h]) \/ IsTail(r.ids[h])
    BY <1>3, <1>4, <1>5, TokenKinds
<1>7. ~TailAt(r, h)
    BY <1>1, <1>2, <1>3 DEF PlaceOk, TailOk, HeadAt
<1>8. HeadAt(r, h)
    BY <1>1, <1>6, <1>7 DEF HeadAt, TailAt
<1>9. h > 2 /\ IsOpen(r.ids[h - 2])
    BY <1>3, <1>8 DEF PlaceOk, HeadOk
<1>10. h - 2 = e - 1 /\ e > 1
    BY <1>1, <1>9 DEF h
<1> QED BY <1>8, <1>9, <1>10 DEF h

\* The j-th result and the j-th piece of the mask: the piece ends before that result, and right
\* there if the response ends in generated text and padding.
PairOk(r, e, c) ==
    /\ c \in 1..Len(r.ids) /\ HasResultClose(r.ids[c]) /\ c > 2
    /\ e \in Falls(r) /\ e <= c - 2
    /\ ~Exempt(setting, r) => e = c - 2

LEMMA Paired ==
    ASSUME setting \in Setting, NEW s, NEW r, Sound(s, r), r.given = 0, Len(r.ids) # 0,
           Len(r.ids) <= setting.length, Len(ResultEnds(r)) = Len(MaskEnds(r)),
           NEW j \in 1..Len(ResultEnds(r))
    PROVE  PairOk(r, MaskEnds(r)[j], ResultEnds(r)[j])
<1> DEFINE n == Len(r.ids)
           C == ResultEnds(r)
           m == Len(C)
<1>1. n \in Nat /\ n # 0 /\ IsRow(s, r) /\ setting.length \in Nat
    BY RowIs, SettingIs DEF Sound
<1>2. PICK F : /\ Ascending(F, Falls(r), setting.length)
               /\ Len(MaskEnds(r)) = IF Len(F) = 0 THEN 0 ELSE Len(F) - 1
               /\ \A i \in 1..Len(MaskEnds(r)) : MaskEnds(r)[i] = F[i]
    BY <1>1, MaskEndsAre
<1>3. Ascending(C, {c \in 1..n : HasResultClose(r.ids[c])}, n)
    BY <1>1, ResultEndsAre
<1> HIDE DEF C
<1>4. m \in Nat /\ Len(F) \in Nat /\ m # 0 /\ j \in 1..m
    <2>1. C \in Seq(1..n) /\ F \in Seq(1..setting.length)
        BY <1>2, <1>3 DEF Ascending
    <2>2. j \in 1..m
        BY DEF C
    <2> QED BY <2>1, <2>2
<1>5. /\ Len(F) = m + 1 /\ \A i \in 1..m : MaskEnds(r)[i] = F[i] /\ i \in 1..Len(F)
    BY <1>2, <1>4 DEF C
<1>6. \A i \in 1..m : C[i] \in 1..n /\ HasResultClose(r.ids[C[i]])
    BY <1>3 DEF Ascending
<1>7. \A i \in 1..m : C[i] > 2 /\ C[i] - 2 \in Falls(r) /\ C[i] - 2 < n
    BY <1>6, ResultEndIs
<1> DEFINE g == [i \in 1..m |-> CHOOSE k \in 1..Len(F) : F[k] = C[i] - 2]
<1>8. \A i \in 1..m : g[i] \in 1..Len(F) /\ F[g[i]] = C[i] - 2
    <2>1. \A i \in 1..m : \E k \in 1..Len(F) : F[k] = C[i] - 2
        BY <1>2, <1>7 DEF Ascending
    <2> QED BY <2>1
<1>9. g \in [1..m -> 1..Len(F)]
    BY <1>8
<1> HIDE DEF g
<1>10. \A k \in 1..Len(F) : F[k] \in Falls(r) /\ F[k] \in 1..n
    BY <1>2 DEF Ascending, Falls
<1>11. Rises(F, Len(F)) /\ Rises(C, m)
    BY <1>2, <1>3 DEF Ascending, Rises
<1>12. \A i, k \in 1..Len(F) : i <= k => F[i] <= F[k]
    <2> SUFFICES ASSUME NEW i \in 1..Len(F), NEW k \in 1..Len(F), i <= k PROVE F[i] <= F[k]
        OBVIOUS
    <2>1. F[i] \in 1..n /\ F[k] \in 1..n
        BY <1>10
    <2>2. CASE i = k
        BY <2>1, <2>2
    <2>3. CASE i < k
        BY <1>11, <2>1, <2>3 DEF Rises
    <2> QED BY <2>2, <2>3
<1>13. Rises(g, m)
    <2> SUFFICES ASSUME NEW i \in 1..m, NEW k \in 1..m, i < k PROVE g[i] < g[k]
        BY DEF Rises
    <2>1. C[i] < C[k] /\ C[i] \in 1..n /\ C[k] \in 1..n
        BY <1>6, <1>11 DEF Rises
    <2>2. g[i] \in 1..Len(F) /\ g[k] \in 1..Len(F) /\ F[g[i]] = C[i] - 2 /\ F[g[k]] = C[k] - 2
        BY <1>8
    <2>3. CASE g[k] <= g[i]
        <3>1. F[g[k]] <= F[g[i]]
            BY <1>12, <2>2, <2>3
        <3> QED BY <2>1, <2>2, <3>1
    <2>4. g[k] <= g[i] \/ g[i] < g[k]
        BY <2>2
    <2> QED BY <2>3, <2>4
<1>14. F[j] <= C[j] - 2
    <2>1. g \in [1..m -> Nat \ {0}]
        BY <1>9
    <2>2. j <= g[j]
        BY <1>4, <1>13, <2>1, RisesFromBelow
    <2> QED BY <1>4, <1>5, <1>8, <1>12, <2>2
<1>15. ASSUME ~Exempt(setting, r) PROVE F[j] = C[j] - 2
    <2>1. Generated(r.ids[n]) /\ n # setting.length
        BY <1>15 DEF Exempt
    <2>2. n \in 1..n /\ n < setting.length /\ ~(n < n)
        BY <1>1, <2>1
    <2>3. r.mask[n] = 1
        BY <2>1, <2>2 DEF Sound, PlaceOk, ToldOk
    <2>4. n \in Falls(r)
        BY <2>2, <2>3 DEF Falls
    <2>5. PICK k \in 1..Len(F) : F[k] = n
        BY <1>2, <2>4 DEF Ascending
    <2>6. \A i \in 1..m : g[i] \in 1..m
        <3> SUFFICES ASSUME NEW i \in 1..m, g[i] \notin 1..m PROVE FALSE
            OBVIOUS
        <3>1. g[i] \in 1..(m + 1) /\ F[g[i]] < n
            BY <1>5, <1>7, <1>8
        <3>2. g[i] = m + 1 /\ k <= g[i]
            BY <1>4, <1>5, <2>5, <3>1
        <3>3. F[k] <= F[g[i]]
            BY <1>5, <1>12, <3>1, <3>2
        <3>4. F[g[i]] \in 1..n
            BY <1>5, <1>10, <3>1
        <3> QED BY <1>1, <2>5, <3>1, <3>3, <3>4
    <2>7. g \in [1..m -> 1..m]
        BY <1>9, <2>6
    <2>8. g[j] = j
        BY <1>4, <1>13, <2>7, RisesWithin
    <2> QED BY <1>4, <1>8, <2>8
<1> QED BY <1>4, <1>5, <1>6, <1>7, <1>10, <1>14, <1>15 DEF PairOk, C

-------------------------------------------------------------------------------
(* Refined prefixes                                                            *)

LEMMA MaxIs ==
    ASSUME NEW n \in Nat, NEW P \in SUBSET (1..n), NEW x \in P, \A y \in P : y <= x
    PROVE  Max(P) = x
<1>1. Max(P) \in P /\ x <= Max(P)
    BY MaxIsLargest
<1> DEFINE m == Max(P)
<1> HIDE DEF m
<1>2. m \in P /\ x <= m
    BY <1>1 DEF m
<1>3. m <= x /\ m \in 1..n /\ x \in 1..n
    BY <1>2
<1>4. m = x
    BY <1>2, <1>3
<1> QED BY <1>4 DEF m

\* t is what the refinement of r at a result, which ends at c, comes to; the mask of r is
\* taken up to e, and the text up to k.
RefinedTo(r, t, e, c, k) ==
    /\ k \in {c - 1, c - 2} /\ (k = c - 1 => r.ids[c].says = "quote")
    /\ IsRow(setting, t)
    /\ t.prompt = r.prompt /\ t.given = k /\ t.active /\ t.room = setting.maxNew
    /\ Len(t.ids) = k
    /\ \E o \in 1..k : e - 1 <= o /\ RefinedAt(t, r, o)
    /\ \A i \in 1..k : t.mask[i] = IF i <= e THEN r.mask[i] ELSE 1

\* The text of a context that ends with a result or a quoting summary.
TextOf(r, c) ==
    LET context == SubSeq(r.ids, 1, c)
    IN  SubSeq(context, 1, Max(Positions(context, HasResultOpen)) - 1)

LEMMA TextIs ==
    ASSUME setting \in Setting, NEW s, NEW r, Sound(s, r), r.given = 0,
           Len(r.ids) <= setting.length,
           NEW c \in 1..Len(r.ids), HasResultClose(r.ids[c])
    PROVE  LET k == Len(TextOf(r, c))
           IN  /\ c > 2 /\ k \in {c - 1, c - 2} /\ (k = c - 1 => r.ids[c].says = "quote")
               /\ TextOf(r, c) \in Seq(Token) /\ \A i \in 1..k : TextOf(r, c)[i] = r.ids[i]
<1> DEFINE n == Len(r.ids)
           context == SubSeq(r.ids, 1, c)
           P == Positions(context, HasResultOpen)
           one == 1
<1>1. n \in Nat /\ r.ids \in Seq(Token) /\ \A i \in 1..n : r.ids[i] \in Token
    BY RowIs DEF Sound
<1>2. c > 2 /\ TailAt(r, c) /\ HeadAt(r, c - 1) /\ r.ids[c - 1].src = r.ids[c].src
    BY ResultEndIs
<1>3. context \in Seq(Token) /\ Len(context) = c /\ \A i \in 1..c : context[i] = r.ids[i]
    <2> DEFINE a == 0
    <2>1. a \in Nat /\ c \in Nat /\ a <= c /\ c <= n /\ c - a = c /\ \A i \in 1..c : a + i = i
        BY <1>1
    <2>2. /\ SubSeq(r.ids, a + 1, c) \in Seq(Token) /\ Len(SubSeq(r.ids, a + 1, c)) = c - a
          /\ \A j \in 1..(c - a) : SubSeq(r.ids, a + 1, c)[j] = r.ids[a + j]
        <3> HIDE DEF a, n
        <3> QED BY <1>1, <2>1, SliceIs DEF n
    <2>3. context = SubSeq(r.ids, a + 1, c)
        OBVIOUS
    <2> HIDE DEF context, a
    <2> QED BY <2>1, <2>2, <2>3
<1> HIDE DEF context
<1>4. DOMAIN context = 1..c
    BY <1>3, LenProperties
<1>5. P = {i \in 1..c : HasResultOpen(context[i])}
    BY <1>4 DEF Positions
<1>6. \A i \in 1..c : i \in P <=> HasResultOpen(r.ids[i])
    BY <1>3, <1>5
<1>7. P \in SUBSET (1..c) /\ c \in Nat /\ c - 1 \in 1..c /\ c - 1 \in 1..n /\ c \in 1..c
    BY <1>1, <1>2, <1>5
<1> HIDE DEF P
<1>8. PICK x \in {c, c - 1} : Max(P) = x /\ (x = c => r.ids[c].says = "quote")
    <2>1. r.ids[c] \in Token /\ r.ids[c - 1] \in Token /\ IsTail(r.ids[c]) /\ IsHead(r.ids[c - 1])
        BY <1>1, <1>2, <1>7 DEF TailAt, HeadAt
    <2>2. IsMemory(r.ids[c])
        BY <2>1, TokenKinds
    <2>3. CASE r.ids[c].src = "result"
        <3>1. c \notin P /\ c - 1 \in P
            BY <1>2, <1>6, <1>7, <2>1, <2>3, ResultKinds
        <3>2. \A y \in P : y <= c - 1
            BY <1>7, <3>1
        <3>3. Max(P) = c - 1
            BY <1>7, <3>1, <3>2, MaxIs
        <3>4. c - 1 # c
            BY <1>7
        <3> QED BY <3>3, <3>4
    <2>4. CASE r.ids[c].src = "summary"
        <3>1. c \in P /\ r.ids[c].says = "quote"
            BY <1>6, <1>7, <2>1, <2>4, ResultKinds
        <3>2. \A y \in P : y <= c
            BY <1>7
        <3>3. Max(P) = c
            BY <1>7, <3>1, <3>2, MaxIs
        <3> QED BY <3>1, <3>3
    <2> QED BY <2>1, <2>2, <2>3, <2>4, TokenKinds
<1>9. TextOf(r, c) = SubSeq(context, one, x - 1)
    BY <1>8 DEF TextOf, context, P
<1> DEFINE k == x - 1
<1>10. /\ k \in {c - 1, c - 2} /\ (k = c - 1 => r.ids[c].says = "quote")
       /\ k \in Nat /\ k <= c
    BY <1>2, <1>7, <1>8
<1>11. /\ SubSeq(context, 1, k) \in Seq(Token) /\ Len(SubSeq(context, 1, k)) = k
       /\ \A i \in 1..k : SubSeq(context, 1, k)[i] = context[i]
    <2> DEFINE a == 0
    <2>1. a \in Nat /\ a <= k /\ k - a = k /\ a + 1 = 1 /\ \A i \in 1..k : a + i = i
        BY <1>10
    <2> HIDE DEF a, k
    <2>2. /\ SubSeq(context, a + 1, k) \in Seq(Token) /\ Len(SubSeq(context, a + 1, k)) = k - a
          /\ \A j \in 1..(k - a) : SubSeq(context, a + 1, k)[j] = context[a + j]
        BY <1>3, <1>10, <2>1, SliceIs
    <2> QED BY <2>1, <2>2
<1> HIDE DEF k
<1>12. \A i \in 1..k : i \in 1..c
    BY <1>7, <1>10
<1> QED BY <1>2, <1>3, <1>9, <1>10, <1>11, <1>12 DEF k

\* t is the first k tokens of r with their last search, no more than a token before e, replaced.
Replaced(r, t, e, c, k, q) ==
    /\ t \in Seq(Token) /\ Len(t) = k /\ k \in {c - 1, c - 2}
    /\ k = c - 1 => r.ids[c].says = "quote"
    /\ \E o \in 1..k : /\ e - 1 <= o /\ t[o] = Ask("refiner", q) /\ IsOpen(r.ids[o])
                       /\ \A i \in 1..k : i # o => t[i] = r.ids[i]
                       /\ \A i \in (o + 1)..k : ~IsOpen(r.ids[i])

LEMMA ReplacedIs ==
    ASSUME setting \in Setting, NEW s, NEW r, Sound(s, r), r.given = 0,
           Len(r.ids) <= setting.length, NEW j, NEW e, NEW c, PairOk(r, e, c),
           ResultEnds(r)[j] = c, NEW q \in Query
    PROVE  Replaced(r, RefinedText(r, j, q), e, c, Len(TextOf(r, c)), q)
<1> DEFINE x == TextOf(r, c)
           k == Len(x)
           ask == Ask("refiner", q)
           t == RefinedText(r, j, q)
           o == Max(Opens(x))
<1>1. c \in 1..Len(r.ids) /\ HasResultClose(r.ids[c]) /\ e \in Falls(r) /\ e <= c - 2
    BY DEF PairOk
<1>2. /\ c > 2 /\ k \in {c - 1, c - 2} /\ (k = c - 1 => r.ids[c].says = "quote")
      /\ x \in Seq(Token) /\ \A i \in 1..k : x[i] = r.ids[i]
    BY <1>1, TextIs
<1>3. t = [x EXCEPT ![o] = ask]
    BY DEF RefinedText, TextOf
<1>4. ask \in Token
    BY NewTokens
<1> HIDE DEF x, ask, t
<1>5. e \in 1..Len(r.ids) /\ k \in Nat /\ c \in Nat /\ Len(r.ids) \in Nat
    BY <1>1, <1>2, RowIs DEF Falls, Sound
<1>6. e > 1 /\ IsOpen(r.ids[e - 1])
    <2>1. e < Len(r.ids)
        BY <1>1, <1>5
    <2> QED BY <1>1, <2>1, FallIs
<1> DEFINE b == e - 1
<1>7. b \in 1..k /\ x[b] = r.ids[b] /\ IsOpen(r.ids[b])
    <2>1. b \in 1..k
        BY <1>1, <1>2, <1>5, <1>6
    <2> QED BY <1>2, <1>6, <2>1
<1>8. Opens(x) \in SUBSET (1..k) /\ b \in Opens(x)
    BY <1>2, <1>7, OpensUpTo, OpensAre
<1>9. o \in Opens(x) /\ \A i \in Opens(x) : i <= o
    BY <1>5, <1>8, MaxIsLargest
<1> HIDE DEF o, b
<1>10. o \in 1..k /\ b <= o /\ IsOpen(r.ids[o])
    BY <1>2, <1>8, <1>9, OpensAre
<1>11. \A i \in (o + 1)..k : ~IsOpen(r.ids[i])
    <2> SUFFICES ASSUME NEW i \in (o + 1)..k, IsOpen(r.ids[i]) PROVE FALSE
        OBVIOUS
    <2>1. i \in 1..k /\ ~(i <= o)
        BY <1>5, <1>10
    <2>2. i \in Opens(x)
        BY <1>2, <2>1, OpensAre
    <2> QED BY <1>9, <2>1, <2>2
<1>12. /\ t \in Seq(Token) /\ Len(t) = k /\ t[o] = ask
       /\ \A i \in 1..k : i # o => t[i] = x[i]
    BY <1>2, <1>3, <1>4, <1>10, ExceptSeq
<1>13. \A i \in 1..k : i # o => t[i] = r.ids[i]
    BY <1>2, <1>12
<1> QED BY <1>2, <1>10, <1>11, <1>12, <1>13 DEF Replaced, t, x, ask, b

LEMMA RefinedIs ==
    ASSUME setting \in Setting, NEW r, Sound(setting, r), r.given = 0, Len(r.ids) # 0,
           Len(r.ids) <= setting.length, Len(ResultEnds(r)) = Len(MaskEnds(r)),
           NEW j \in 1..Len(ResultEnds(r)), NEW q \in Query
    PROVE  LET c == ResultEnds(r)[j]
           IN  RefinedTo(r, RefinedPrefix(r, j, q), MaskEnds(r)[j], c, Len(TextOf(r, c)))
<1> DEFINE c == ResultEnds(r)[j]
           e == MaskEnds(r)[j]
           k == Len(TextOf(r, c))
           ids == RefinedText(r, j, q)
           bits == SubSeq(r.mask, 1, e)
           fill == Ones(Max({0, Len(ids) - Len(bits)}))
           mask == Take(bits, Len(ids)) \o fill
           t == RefinedPrefix(r, j, q)
           B == {0, 1}
<1>1. PairOk(r, e, c)
    BY Paired
<1>2. t = Row(r.prompt, ids, mask)
    BY DEF RefinedPrefix
<1>3. /\ ids \in Seq(Token) /\ Len(ids) = k /\ k \in {c - 1, c - 2}
      /\ k = c - 1 => r.ids[c].says = "quote"
      /\ \E o \in 1..k : /\ e - 1 <= o /\ ids[o] = Ask("refiner", q) /\ IsOpen(r.ids[o])
                         /\ \A i \in 1..k : i # o => ids[i] = r.ids[i]
                         /\ \A i \in (o + 1)..k : ~IsOpen(r.ids[i])
    <2>1. ResultEnds(r)[j] = c
        OBVIOUS
    <2> HIDE DEF c, e
    <2>2. Replaced(r, ids, e, c, k, q)
        BY <1>1, <2>1, ReplacedIs
    <2> HIDE DEF k, ids
    <2> QED BY <2>2 DEF Replaced
<1>4. /\ Len(r.ids) \in Nat /\ r.mask \in Seq(B) /\ Len(r.mask) = Len(r.ids)
      /\ \A i \in 1..Len(r.ids) : r.mask[i] \in B
      /\ r.prompt \in DOMAIN setting.prompts /\ setting.maxNew \in Int
    BY RowIs, SettingIs DEF Sound
<1>5. c \in 1..Len(r.ids) /\ c > 2 /\ e \in 1..Len(r.ids) /\ e <= c - 2
    BY <1>1 DEF PairOk, Falls
<1> HIDE DEF ids, c, e, t
<1>6. k \in Nat /\ e \in Nat /\ e <= k /\ k \in 1..Len(r.ids) /\ c \in Nat
    BY <1>3, <1>4, <1>5
<1> HIDE DEF k, B
<1>7. bits \in Seq(B) /\ Len(bits) = e /\ \A i \in 1..e : bits[i] = r.mask[i]
    <2> DEFINE a == 0
    <2>1. a \in Nat /\ a <= e /\ e <= Len(r.mask) /\ e - a = e /\ a + 1 = 1 /\ \A i \in 1..e : a + i = i
        BY <1>4, <1>5
    <2> HIDE DEF a
    <2>2. /\ SubSeq(r.mask, a + 1, e) \in Seq(B) /\ Len(SubSeq(r.mask, a + 1, e)) = e - a
          /\ \A i \in 1..(e - a) : SubSeq(r.mask, a + 1, e)[i] = r.mask[a + i]
        BY <1>4, <1>6, <2>1, SliceIs
    <2> QED BY <2>1, <2>2
<1> HIDE DEF bits
<1>8. /\ Take(bits, k) \in Seq(B) /\ Len(Take(bits, k)) = e
      /\ \A i \in 1..e : Take(bits, k)[i] = r.mask[i]
    <2>1. /\ Take(bits, k) \in Seq(B) /\ Len(Take(bits, k)) = IF k <= Len(bits) THEN k ELSE Len(bits)
          /\ \A i \in 1..Len(Take(bits, k)) : Take(bits, k)[i] = bits[i]
        BY <1>6, <1>7, TakeIs
    <2>2. Len(Take(bits, k)) = e
        BY <1>6, <1>7, <2>1
    <2> QED BY <1>7, <2>1, <2>2
<1>9. fill \in Seq(B) /\ Len(fill) = k - e /\ \A y \in 1..(k - e) : fill[y] = 1
    <2> DEFINE d == k - e
               z == 0
    <2>1. d \in Nat /\ d \in Int /\ z \in Int /\ d >= z
        BY <1>6
    <2>2. Max({z, d}) = d
        <3>1. Max({z, d}) = IF z >= d THEN z ELSE d
            <4> HIDE DEF z, d
            <4> QED BY <2>1, GreaterIs
        <3> QED BY <2>1, <3>1
    <2>3. fill = [y \in 1..d |-> 1]
        BY <1>3, <1>7, <2>2 DEF Ones
    <2> HIDE DEF fill, d
    <2>4. fill \in [1..d -> B] /\ DOMAIN fill = 1..d /\ \A y \in 1..d : fill[y] = 1
        BY <2>3 DEF B
    <2>5. fill \in Seq(B)
        BY <2>1, <2>4, SeqDef
    <2> QED BY <2>1, <2>4, <2>5, LenProperties DEF d
<1> HIDE DEF fill
<1>10. /\ mask \in Seq(B) /\ Len(mask) = k
       /\ \A i \in 1..e : mask[i] = r.mask[i]
       /\ \A y \in 1..(k - e) : mask[e + y] = 1
    <2> DEFINE u == Take(bits, k)
    <2>1. mask = u \o fill
        BY <1>3
    <2>2. u \in Seq(B) /\ Len(u) = e /\ \A i \in 1..e : u[i] = r.mask[i]
        BY <1>8
    <2> HIDE DEF u, mask
    <2>3. /\ u \o fill \in Seq(B) /\ Len(u \o fill) = Len(u) + Len(fill)
          /\ \A i \in 1..Len(u) : (u \o fill)[i] = u[i]
          /\ \A y \in 1..Len(fill) : (u \o fill)[Len(u) + y] = fill[y]
        <3>1. u \in Seq(B) /\ fill \in Seq(B)
            BY <1>9, <2>2
        <3> QED BY <3>1, JoinIs
    <2>4. e + (k - e) = k
        BY <1>6
    <2> QED BY <1>9, <2>1, <2>2, <2>3, <2>4
<1> HIDE DEF mask
<1>11. \A i \in 1..k : mask[i] = IF i <= e THEN r.mask[i] ELSE 1
    <2> SUFFICES ASSUME NEW i \in 1..k PROVE mask[i] = IF i <= e THEN r.mask[i] ELSE 1
        OBVIOUS
    <2>1. CASE i <= e
        <3>1. i \in 1..e
            BY <1>6, <2>1
        <3> QED BY <1>10, <2>1, <3>1
    <2>2. CASE ~(i <= e)
        <3> DEFINE y == i - e
        <3>1. y \in 1..(k - e) /\ i = e + y
            BY <1>6, <2>2
        <3> HIDE DEF y
        <3> QED BY <1>10, <2>2, <3>1
    <2> QED BY <2>1, <2>2
<1>12. /\ t.prompt = r.prompt /\ t.given = k /\ t.ids = ids /\ t.mask = mask
       /\ t.room = setting.maxNew /\ t.active = TRUE
    BY <1>2, <1>3 DEF Row
<1>13. IsRow(setting, t)
    <2>1. t = [prompt |-> r.prompt, given |-> k, ids |-> ids, mask |-> mask,
               room |-> setting.maxNew, active |-> TRUE]
        BY <1>2, <1>3 DEF Row
    <2>2. t \in RowSet(setting)
        BY <1>3, <1>4, <1>6, <1>10, <2>1 DEF RowSet, B
    <2> QED BY <1>3, <1>10, <1>12, <2>2 DEF IsRow
<1>14. \E o \in 1..k : e - 1 <= o /\ RefinedAt(t, r, o)
    <2>1. PICK o \in 1..k : /\ e - 1 <= o /\ ids[o] = Ask("refiner", q) /\ IsOpen(r.ids[o])
                            /\ \A i \in 1..k : i # o => ids[i] = r.ids[i]
                            /\ \A i \in (o + 1)..k : ~IsOpen(r.ids[i])
        BY <1>3
    <2>2. ids[o].src = "refiner" /\ IsOpen(ids[o])
        BY <2>1 DEF Ask, IsOpen
    <2>3. \A i \in 1..k : i \in 1..Len(r.ids) /\ i \in Nat /\ ~(i <= 0)
        BY <1>6
    <2>4. \A i \in 1..k : r.ids[i].src # "refiner"
        BY <2>3 DEF Sound, PlaceOk, EndOk
    <2>5. \A i \in (o + 1)..k : i \in 1..k /\ i # o
        BY <1>6, <2>1
    <2>6. RefinedAt(t, r, o)
        BY <1>12, <2>1, <2>2, <2>4, <2>5 DEF RefinedAt
    <2> QED BY <2>1, <2>6
<1>15. RefinedTo(r, t, e, c, k)
    BY <1>3, <1>11, <1>12, <1>13, <1>14 DEF RefinedTo
<1> QED BY <1>15 DEF t, e, c, k

\* A refined prefix is a sound row to start from, and a child of the response.
LEMMA RefinedSound ==
    ASSUME setting \in Setting, NEW r, Sound(setting, r), r.given = 0,
           Len(r.ids) <= setting.length, NEW e, NEW c, PairOk(r, e, c),
           NEW t, NEW k, RefinedTo(r, t, e, c, k)
    PROVE  Sound(setting, t) /\ InTurn(setting, 0, t) /\ IsChild(setting, t, r)
<1> DEFINE L == setting.length
           s == setting
           n == Len(r.ids)
<1>1. /\ c \in 1..n /\ c > 2 /\ HasResultClose(r.ids[c]) /\ e \in 1..n /\ r.mask[e] = 1
      /\ e <= c - 2 /\ e \in Falls(r) /\ n \in Nat /\ L \in Nat /\ n <= L
    BY SettingIs, RowIs DEF PairOk, Falls, Sound
<1>2. k \in {c - 1, c - 2} /\ (k = c - 1 => r.ids[c].says = "quote")
    BY DEF RefinedTo
<1>3. k \in 1..n /\ e \in 1..k /\ k < n /\ k < c /\ e < n /\ k \in Nat
    BY <1>1, <1>2
<1>4. /\ IsRow(s, t) /\ t.prompt = r.prompt /\ t.given = k /\ t.active /\ t.room = setting.maxNew
      /\ Len(t.ids) = k
      /\ \A i \in 1..k : t.mask[i] = IF i <= e THEN r.mask[i] ELSE 1
    BY DEF RefinedTo
<1>5. PICK o \in 1..k : e - 1 <= o /\ RefinedAt(t, r, o)
    BY DEF RefinedTo
<1>6. /\ t.ids[o].src = "refiner" /\ IsOpen(t.ids[o]) /\ IsOpen(r.ids[o])
      /\ \A i \in 1..k : i # o => t.ids[i] = r.ids[i] /\ r.ids[i].src # "refiner"
      /\ \A i \in (o + 1)..k : ~IsOpen(t.ids[i])
    BY <1>4, <1>5 DEF RefinedAt
<1> HIDE DEF L, s, n
<1>7. \A i \in 1..k : i \in 1..n /\ i < c /\ i # 0 /\ ~(i <= r.given)
    BY <1>1, <1>3
<1>8. \A i \in 1..k : r.ids[i] \in Token /\ PlaceOk(s, r, i)
    BY <1>7, RowIs DEF Sound, s, n
<1>9. TailAt(r, c) /\ IsMemory(r.ids[c])
    <2>1. TailAt(r, c)
        BY <1>1, ResultEndIs DEF L, n
    <2>2. r.ids[c] \in Token
        BY <1>1, RowIs DEF Sound, n
    <2> QED BY <2>1, <2>2, TokenKinds DEF TailAt
<1>10. \A i \in 1..k : r.ids[i].src # "prefix" /\ t.ids[i].src # "prefix"
    <2>1. EndOk(r, c) /\ \A i \in 1..k : i \in 1..(c - 1)
        BY <1>1, <1>3 DEF Sound, PlaceOk, n
    <2>2. \A i \in 1..k : r.ids[i].src # "prefix"
        BY <1>9, <2>1 DEF EndOk
    <2> QED BY <1>6, <2>2
<1>11. \A i \in 1..k : Generated(r.ids[i]) <=> r.mask[i] = 1
    BY <1>7, <1>8 DEF PlaceOk, ToldOk
<1>12. Generated(t.ids[o]) /\ r.mask[o] = 1 /\ t.mask[o] = 1
    <2>1. Generated(r.ids[o])
        BY <1>5, <1>6, <1>8, TokenKinds
    <2> QED BY <1>4, <1>5, <1>6, <1>11, <2>1 DEF Generated
\* A memory of the prefix is one of the response, and stands before the refined search.
<1>13. ASSUME NEW i \in 1..k, HeadAt(t, i) \/ TailAt(t, i)
       PROVE  /\ i # o /\ t.ids[i] = r.ids[i] /\ i < e /\ i \in Nat
              /\ HeadAt(t, i) <=> HeadAt(r, i)
              /\ TailAt(t, i) <=> TailAt(r, i)
              /\ i < o
    <2>1. t.mask[i] = 0
        BY <1>13 DEF HeadAt, TailAt
    <2>2. i # o /\ i <= e /\ r.mask[i] = 0
        BY <1>4, <1>12, <2>1
    <2>3. i # e
        BY <1>1, <2>2
    <2>4. t.ids[i] = r.ids[i]
        BY <1>6, <2>2
    <2>5. i < e /\ i < o /\ i \in Nat
        BY <1>3, <1>5, <2>2, <2>3
    <2> QED BY <2>1, <2>2, <2>4, <2>5 DEF HeadAt, TailAt
\* And the other way round, as far as the mask was taken.
<1>14. ASSUME NEW i \in 1..k, i <= e, HeadAt(r, i) \/ TailAt(r, i)
       PROVE  (HeadAt(r, i) => HeadAt(t, i)) /\ (TailAt(r, i) => TailAt(t, i))
    <2>1. r.mask[i] = 0
        BY <1>14 DEF HeadAt, TailAt
    <2>2. i # o /\ t.mask[i] = 0
        BY <1>4, <1>12, <1>14, <2>1
    <2>3. t.ids[i] = r.ids[i]
        BY <1>6, <2>2
    <2> QED BY <2>2, <2>3 DEF HeadAt, TailAt
<1>15. ASSUME NEW i \in 1..k PROVE PlaceOk(s, t, i)
    <2>1. i \in Nat /\ i <= t.given /\ ~(i > t.given) /\ t.given # 0
        BY <1>3, <1>4
    <2>2. ToldOk(t, i)
        <3> SUFFICES ASSUME Generated(t.ids[i]) PROVE t.mask[i] = 1
            BY <2>1 DEF ToldOk
        <3>1. CASE i = o
            BY <1>12, <3>1
        <3>2. CASE i # o
            BY <1>4, <1>6, <1>11, <3>2
        <3> QED BY <3>1, <3>2
    <2>3. HeadOk(s, t, i)
        <3> SUFFICES ASSUME HeadAt(t, i)
                     PROVE  /\ i > 1 /\ t.mask[i - 1] = 1
                            /\ \E x \in 1..(i - 1) :
                                   LastOpen(t.ids, i, x) /\ t.ids[x].query = t.ids[i].query
                            /\ s.mode # "none" => t.ids[i].src = "summary"
            BY <2>1 DEF HeadOk
        <3>1. i < e /\ i < o /\ t.ids[i] = r.ids[i] /\ HeadAt(r, i)
            BY <1>13
        <3>2. HeadOk(s, r, i)
            BY <1>8 DEF PlaceOk
        <3>3. i > 1 /\ r.mask[i - 1] = 1
            BY <3>1, <3>2 DEF HeadOk
        <3>4. t.mask[i - 1] = 1
            <4>1. i - 1 \in 1..k
                BY <1>3, <2>1, <3>3
            <4> QED BY <1>4, <3>3, <4>1
        <3>5. PICK x \in 1..(i - 1) : LastOpen(r.ids, i, x) /\ r.ids[x].query = r.ids[i].query
            BY <3>1, <3>2 DEF HeadOk
        <3>6. \A y \in 1..(i - 1) : y \in 1..k /\ y # o
            BY <1>3, <2>1, <3>1, <1>5
        <3>7. \A y \in 1..(i - 1) : t.ids[y] = r.ids[y]
            BY <1>6, <3>6
        <3>8. \A y \in (x + 1)..(i - 1) : y \in 1..(i - 1)
            BY <3>5
        <3>9. LastOpen(t.ids, i, x) /\ t.ids[x].query = t.ids[i].query
            BY <3>1, <3>5, <3>7, <3>8 DEF LastOpen
        <3>10. s.mode # "none" => r.ids[i].src = "summary"
            <4> DEFINE h == e + 1
            <4>1. HeadAt(r, h)
                BY <1>1, <1>3, FallIs DEF n
            <4>2. h \in 1..n /\ i \in 1..(h - 1)
                BY <1>1, <1>3, <2>1, <3>1
            <4> HIDE DEF h
            <4>3. HeadOk(s, r, h)
                BY <4>2 DEF Sound, PlaceOk, n, s
            <4> QED BY <3>1, <4>1, <4>2, <4>3 DEF HeadOk
        <3> QED BY <3>1, <3>3, <3>4, <3>5, <3>9, <3>10
    <2>4. TailOk(t, i)
        <3> DEFINE h == i - 1
        <3>1. TailOk(r, i)
            BY <1>8 DEF PlaceOk
        <3>2. i > 1 => h \in 1..k /\ h < i
            BY <1>3, <2>1
        <3>3. ASSUME TailAt(t, i)
              PROVE  i > 1 /\ HeadAt(t, h) /\ t.ids[h].src = t.ids[i].src
                     /\ t.ids[h].query = t.ids[i].query
            <4>1. i < e /\ t.ids[i] = r.ids[i] /\ TailAt(r, i)
                BY <1>13, <3>3
            <4>2. i > 1 /\ HeadAt(r, h) /\ r.ids[h].src = r.ids[i].src
                  /\ r.ids[h].query = r.ids[i].query
                BY <3>1, <4>1 DEF TailOk
            <4>3. h \in 1..k /\ h <= e
                BY <1>3, <2>1, <3>2, <4>1, <4>2
            <4> HIDE DEF h
            <4>4. HeadAt(t, h)
                BY <1>14, <4>2, <4>3
            <4>5. t.ids[h] = r.ids[h]
                BY <1>13, <4>3, <4>4
            <4> QED BY <4>1, <4>2, <4>4, <4>5
        <3>4. ASSUME i > 1, HeadAt(t, h) PROVE TailAt(t, i)
            <4>1. HeadAt(r, h) /\ h < e
                BY <1>13, <3>2, <3>4
            <4>2. TailAt(r, i)
                BY <3>1, <3>4, <4>1 DEF TailOk
            <4>3. i <= e
                BY <1>3, <2>1, <4>1
            <4> QED BY <1>14, <4>2, <4>3
        <3>5. ASSUME i > 1, TailAt(t, h) PROVE t.mask[i] = 1
            <4>1. TailAt(r, h) /\ h < e
                BY <1>13, <3>2, <3>5
            <4>2. r.mask[i] = 1
                BY <1>10, <3>1, <3>5, <4>1 DEF TailOk
            <4>3. i <= e
                BY <1>3, <2>1, <4>1
            <4> QED BY <1>4, <4>2, <4>3
        <3> QED BY <3>3, <3>4, <3>5 DEF TailOk
    <2>5. EndOk(t, i)
        <3>1. \A y \in 1..(i - 1) : y \in 1..k
            BY <1>3
        <3> QED BY <1>10, <2>1, <3>1 DEF EndOk
    <2> QED BY <2>2, <2>3, <2>4, <2>5 DEF PlaceOk
<1>16. Sound(s, t)
    <2>1. t.given <= Len(t.ids)
        BY <1>3, <1>4
    <2> QED BY <1>4, <1>15, <2>1 DEF Sound
<1>17. InTurn(s, 0, t)
    <2>1. k < L /\ k <= L /\ setting.maxNew \in 1..(L + setting.maxNew) /\ k # 0
        BY <1>3, SettingIs DEF L, n
    <2>2. t.mask[k] = 1
        <3>1. CASE k = e
            BY <1>1, <1>3, <1>4, <3>1
        <3>2. CASE k # e
            <4>1. ~(k <= e) /\ k \in 1..k
                BY <1>3, <3>2
            <4> QED BY <1>4, <4>1
        <3> QED BY <3>1, <3>2
    <2> QED BY <1>4, <1>10, <2>1, <2>2 DEF InTurn, NotForced, L, s
<1>18. IsChild(s, t, r)
    <2>1. k < L /\ k # 0 /\ k <= n
        BY <1>1, <1>3
    <2>2. ASSUME NEW i \in 1..k, WrongBit(t, i), ~Exempt(s, r) PROVE FALSE
        <3>1. r.ids[c].says # "quote"
            BY <1>1, <2>2 DEF Exempt, n
        <3>2. e = c - 2
            BY <2>2 DEF PairOk, s
        <3>3. k = e /\ i <= e
            BY <1>2, <1>3, <3>1, <3>2
        <3>4. t.mask[i] = r.mask[i] /\ r.mask[i] \in {0, 1}
            <4>1. t.mask[i] = r.mask[i]
                BY <1>4, <3>3
            <4>2. r.mask[i] \in {0, 1}
                BY <1>7, RowIs DEF Sound, n
            <4> QED BY <4>1, <4>2
        <3>5. CASE i = o
            BY <1>12, <2>2, <3>5 DEF WrongBit
        <3>6. CASE i # o
            BY <1>6, <1>11, <2>2, <3>4, <3>6 DEF WrongBit
        <3> QED BY <3>5, <3>6
    <2> QED BY <1>4, <1>5, <2>1, <2>2 DEF IsChild, L, s, n
<1> QED BY <1>16, <1>17, <1>18 DEF s

LEMMA RefinementsAre ==
    ASSUME setting \in Setting, NEW r, Sound(setting, r), r.given = 0, Len(r.ids) # 0,
           Len(r.ids) <= setting.length, NEW t \in Refinements(r)
    PROVE  Sound(setting, t) /\ InTurn(setting, 0, t) /\ IsChild(setting, t, r)
           /\ t.prompt = r.prompt
<1>1. /\ Len(ResultEnds(r)) = Len(MaskEnds(r))
      /\ \E x \in (DOMAIN ResultEnds(r)) \X Query : t = RefinedPrefix(r, x[1], x[2])
    BY DEF Refinements
<1>2. PICK j \in DOMAIN ResultEnds(r), q \in Query : t = RefinedPrefix(r, j, q)
    BY <1>1
<1>3. DOMAIN ResultEnds(r) = 1..Len(ResultEnds(r))
    <2>1. Ascending(ResultEnds(r), {c \in 1..Len(r.ids) : HasResultClose(r.ids[c])}, Len(r.ids))
        BY ResultEndsAre DEF Sound
    <2> QED BY <2>1, LenProperties DEF Ascending
<1> DEFINE c == ResultEnds(r)[j]
           e == MaskEnds(r)[j]
           k == Len(TextOf(r, c))
<1>4. PairOk(r, e, c)
    BY <1>1, <1>3, Paired
<1>5. RefinedTo(r, t, e, c, k)
    BY <1>1, <1>2, <1>3, RefinedIs
<1> HIDE DEF c, e, k
<1>6. Sound(setting, t) /\ InTurn(setting, 0, t) /\ IsChild(setting, t, r)
    BY <1>4, <1>5, RefinedSound
<1> QED BY <1>5, <1>6 DEF RefinedTo

-------------------------------------------------------------------------------
(* The invariant                                                               *)

\* A row of the batch: finished or not, it continues what it was given.
RowIn(s, st, p, rf, res, r) ==
    /\ Sound(s, r)
    /\ rf <=> r.given # 0
    /\ p \in {"turn", "collect"} /\ rf =>
           \E m \in 1..Len(res[r.prompt]) : IsChild(s, r, res[r.prompt][m])
    /\ p = "turn" => InTurn(s, st, r)
    /\ p = "collect" => Done(s, r)

\* A finished response: it is the prompt's, and a refined one has its parent before it.
ResponseIn(s, q, p, k) ==
    /\ Sound(s, q[k]) /\ q[k].prompt = p /\ Done(s, q[k]) /\ Len(q[k].ids) <= s.length
    /\ q[k].given # 0 => \E m \in 1..(k - 1) : IsChild(s, q[k], q[m])

RowsIn(s, st, p, rf, res, batch) ==
    /\ batch \in Seq(RowSet(s))
    /\ \A i \in 1..Len(batch) : RowIn(s, st, p, rf, res, batch[i])

ResultsIn(s, res) ==
    /\ res \in [DOMAIN s.prompts -> Seq(RowSet(s))]
    /\ \A p \in DOMAIN s.prompts : \A k \in 1..Len(res[p]) : ResponseIn(s, res[p], p, k)

IndInv ==
    /\ setting \in Setting
    /\ pc \in {"turn", "collect", "done", "raised"}
    /\ refining \in BOOLEAN
    /\ step \in 0..setting.turns
    /\ RowsIn(setting, step, pc, refining, results, rows)
    /\ ResultsIn(setting, results)

LEMMA RowGiven ==
    ASSUME NEW s, s.length \in Nat, NEW st, NEW p \in {"turn", "collect"}, NEW rf, NEW res, NEW r,
           RowIn(s, st, p, rf, res, r)
    PROVE  r.given <= s.length /\ r.given \in Nat
<1>1. r.given \in Nat
    BY RowIs DEF RowIn, Sound
<1>2. CASE r.given = 0
    BY <1>2
<1>3. CASE r.given # 0
    <2>1. r.given < s.length
        BY <1>3 DEF RowIn, IsChild
    <2> QED BY <1>1, <2>1
<1> QED BY <1>1, <1>2, <1>3

\* A row that has gone on.
LEMMA FromRow ==
    ASSUME NEW s, NEW st, NEW p \in {"turn", "collect"}, NEW rf, NEW res, NEW r,
           RowIn(s, st, p, rf, res, r), NEW t, Sound(s, t), Follows(r, t), NEW x, NEW w,
           w = "turn" => InTurn(s, x, t), w = "collect" => Done(s, t)
    PROVE  RowIn(s, x, w, rf, res, t)
<1>1. t.prompt = r.prompt /\ t.given = r.given /\ r.given \in Nat
    BY RowIs DEF Follows, SameUpTo, RowIn, Sound
<1>2. \A parent : IsChild(s, r, parent) => IsChild(s, t, parent)
    BY <1>1, ChildKept
<1> QED BY <1>1, <1>2 DEF RowIn

LEMMA BatchIn ==
    ASSUME NEW s, NEW n \in Nat, NEW batch, DOMAIN batch = 1..n, batch = [i \in 1..n |-> batch[i]],
           NEW st, NEW p, NEW rf, NEW res,
           \A i \in 1..n : RowIn(s, st, p, rf, res, batch[i])
    PROVE  RowsIn(s, st, p, rf, res, batch) /\ Len(batch) = n
<1>1. \A i \in 1..n : batch[i] \in RowSet(s)
    BY DEF RowIn, Sound, IsRow
<1>2. batch \in [1..n -> RowSet(s)]
    BY <1>1
<1>3. batch \in Seq(RowSet(s))
    BY <1>2, SeqDef
<1>4. Len(batch) = n
    BY <1>3, LenProperties
<1> QED BY <1>3, <1>4 DEF RowsIn

\* The rows of a new round.
LEMMA FreshIn ==
    ASSUME setting \in Setting, NEW ps \in SUBSET Prompt, NEW p \in {"turn", "done"}, NEW res
    PROVE  RowsIn(setting, 0, p, FALSE, res, FreshRows(ps))
<1> DEFINE order == Places(setting.prompts, ps)
           e == <<>>
           z == 0
           rf == FALSE
           batch == FreshRows(ps)
<1>1. /\ setting.prompts \in Seq(1..setting.width) /\ setting.length \in Nat \ {0}
      /\ setting.maxNew \in Nat \ {0}
    BY SettingIs
<1>2. Prompt = 1..Len(setting.prompts)
    BY <1>1, LenProperties DEF Prompt
<1>3. Ascending(order, ps, Len(setting.prompts))
    BY <1>1, <1>2, PlacesAre
<1>4. e \in Seq(Token) /\ e \in Seq({0, 1}) /\ Len(e) = z /\ z \in Nat
    OBVIOUS
<1>5. batch = [i \in DOMAIN order |-> Row(order[i], e, e)]
    BY DEF FreshRows
<1> HIDE DEF order, e, batch
<1>6. DOMAIN order = 1..Len(order) /\ Len(order) \in Nat /\ \A i \in 1..Len(order) : order[i] \in Prompt
    BY <1>3, LenProperties DEF Ascending
<1> HIDE DEF z, rf
<1>7. ASSUME NEW i \in 1..Len(order) PROVE RowIn(setting, z, p, rf, res, batch[i])
    <2> DEFINE r == batch[i]
    <2>1. r = [prompt |-> order[i], given |-> Len(e), ids |-> e, mask |-> e,
               room |-> setting.maxNew, active |-> TRUE]
        BY <1>5, <1>6 DEF Row
    <2> HIDE DEF r
    <2>2. /\ r.given = 0 /\ Len(r.ids) = 0 /\ Len(r.mask) = 0 /\ r.active = TRUE
          /\ r.room = setting.maxNew
        BY <1>4, <2>1 DEF z
    <2>3. IsRow(setting, r)
        <3>1. r \in RowSet(setting)
            BY <1>1, <1>4, <1>6, <2>1, <2>2 DEF RowSet, Prompt
        <3> QED BY <2>2, <3>1 DEF IsRow
    <2>4. Sound(setting, r)
        BY <2>2, <2>3 DEF Sound
    <2>5. InTurn(setting, z, r)
        <3>1. setting.maxNew \in 1..(setting.length + setting.maxNew) /\ 0 < setting.length
              /\ 0 <= setting.length
            BY <1>1
        <3>2. NotForced(r)
            BY <2>2 DEF NotForced
        <3> QED BY <2>2, <3>1, <3>2 DEF InTurn, z
    <2> QED BY <2>2, <2>4, <2>5 DEF RowIn, r, rf
<1>8. DOMAIN batch = 1..Len(order) /\ batch = [i \in 1..Len(order) |-> batch[i]]
    BY <1>5, <1>6
<1>9. RowsIn(setting, z, p, rf, res, batch)
    BY <1>6, <1>7, <1>8, BatchIn
<1> QED BY <1>9 DEF z, rf, batch

-------------------------------------------------------------------------------
(* Collecting                                                                  *)

LEMMA ResponseDone ==
    ASSUME setting \in Setting, NEW r, Sound(setting, r), Done(setting, r),
           r.given <= setting.length
    PROVE  LET t == Response(r)
           IN  Sound(setting, t) /\ Done(setting, t) /\ Len(t.ids) <= setting.length
               /\ Follows(r, t)
<1> DEFINE t == Response(r)
           n == Len(r.ids)
           L == setting.length
<1>1. Sound(setting, t) /\ IsCut(r, t)
    BY ResponseIs
<1>2. /\ n \in Nat /\ L \in Nat /\ L # 0 /\ r.given \in Nat /\ r.given <= n /\ n # 0
      /\ AnswerRoom \in Nat
    BY RowIs, SettingIs DEF Sound, Done
<1> HIDE DEF t
<1>3. /\ t.prompt = r.prompt /\ t.given = r.given
      /\ \A i \in 1..Len(t.ids) : t.ids[i] = r.ids[i] /\ t.mask[i] = r.mask[i]
      /\ Len(t.ids) = IF n <= L THEN n ELSE L
    BY <1>1 DEF IsCut, SameUpTo
<1>4. Follows(r, t)
    <2>1. \A i \in 1..r.given : i \in 1..Len(t.ids)
        BY <1>2, <1>3
    <2> QED BY <1>3, <2>1 DEF Follows, SameUpTo
<1>5. Done(setting, t)
    <2>1. CASE n <= L
        <3>1. n \in 1..n /\ Len(t.ids) = n
            BY <1>2, <1>3, <2>1
        <3>2. t.ids[n] = r.ids[n] /\ t.mask[n] = r.mask[n]
            BY <1>3, <3>1
        <3> QED BY <3>1, <3>2 DEF Done
    <2>2. CASE ~(n <= L)
        <3>1. Len(t.ids) = L /\ L >= L /\ L >= L - AnswerRoom
            BY <1>2, <1>3, <2>2
        <3> QED BY <1>2, <3>1 DEF Done
    <2> QED BY <2>1, <2>2
<1>6. Len(t.ids) <= L
    BY <1>2, <1>3
<1> QED BY <1>1, <1>4, <1>5, <1>6 DEF t

\* What a row becomes when it is collected.
LEMMA RowCollected ==
    ASSUME setting \in Setting, NEW st, NEW rf, NEW res, NEW r,
           RowIn(setting, st, "collect", rf, res, r)
    PROVE  LET t == Response(r)
           IN  /\ RowIn(setting, st, "collect", rf, res, t)
               /\ Len(t.ids) <= setting.length /\ t.prompt = r.prompt
<1> DEFINE p == "collect"
           t == Response(r)
<1>1. r.given <= setting.length
    <2>1. setting.length \in Nat /\ p \in {"turn", "collect"}
        BY SettingIs
    <2> HIDE DEF p
    <2>2. RowIn(setting, st, p, rf, res, r)
        BY DEF p
    <2> QED BY <2>1, <2>2, RowGiven
<1>2. Sound(setting, t) /\ Done(setting, t) /\ Len(t.ids) <= setting.length /\ Follows(r, t)
    BY <1>1, ResponseDone DEF RowIn
<1> HIDE DEF t
<1>3. RowIn(setting, st, p, rf, res, t)
    <2>1. p \in {"turn", "collect"} /\ RowIn(setting, st, p, rf, res, r)
          /\ (p = "turn" => InTurn(setting, st, t))
        OBVIOUS
    <2> HIDE DEF p
    <2> QED BY <1>2, <2>1, FromRow
<1> QED BY <1>2, <1>3 DEF t, p, Follows

LEMMA CollectedIs ==
    ASSUME setting \in Setting, NEW st, NEW rf, NEW res, NEW batch, ResultsIn(setting, res),
           RowsIn(setting, st, "collect", rf, res, batch)
    PROVE  /\ ResultsIn(setting, Collected(res, batch))
           /\ \A i \in 1..Len(batch) :
                  \E m \in 1..Len(Collected(res, batch)[batch[i].prompt]) :
                      Collected(res, batch)[batch[i].prompt][m] = Response(batch[i])
<1> DEFINE s == setting
           R == RowSet(s)
           all == Collected(res, batch)
           K(p) == {i \in 1..Len(batch) : batch[i].prompt = p}
           own(p) == Pick(batch, K(p))
           new(p) == [i \in DOMAIN own(p) |-> Response(own(p)[i])]
<1>1. /\ batch \in Seq(R) /\ Len(batch) \in Nat /\ DOMAIN batch = 1..Len(batch)
      /\ \A i \in 1..Len(batch) : RowIn(s, st, "collect", rf, res, batch[i])
    BY LenProperties DEF RowsIn
<1>2. res \in [Prompt -> Seq(R)]
    BY DEF ResultsIn, Prompt
<1>3. all = [p \in Prompt |-> res[p] \o new(p)]
    BY <1>1 DEF Collected, Where
<1>4. ASSUME NEW i \in 1..Len(batch)
      PROVE  /\ RowIn(s, st, "collect", rf, res, Response(batch[i]))
             /\ Response(batch[i]) \in R /\ Response(batch[i]).prompt = batch[i].prompt
             /\ Len(Response(batch[i]).ids) <= s.length /\ batch[i].prompt \in Prompt
    <2>1. /\ RowIn(s, st, "collect", rf, res, Response(batch[i]))
          /\ Len(Response(batch[i]).ids) <= s.length
          /\ Response(batch[i]).prompt = batch[i].prompt
        BY <1>1, RowCollected
    <2>2. Response(batch[i]) \in R
        BY <2>1 DEF RowIn, Sound, IsRow
    <2>3. batch[i].prompt \in Prompt
        BY <2>1, <2>2 DEF RowSet, Prompt
    <2> QED BY <2>1, <2>2, <2>3
<1> HIDE DEF s, R, all, K
\* The new responses of a prompt, and the rows they come from.
<1>5. ASSUME NEW p \in Prompt
      PROVE  \E pos \in [1..Len(own(p)) -> 1..Len(batch)] :
                 /\ PickedFrom(pos, batch, K(p)) /\ new(p) \in Seq(R) /\ Len(new(p)) = Len(own(p))
                 /\ Len(own(p)) \in Nat
                 /\ \A y \in 1..Len(own(p)) : new(p)[y] = Response(batch[pos[y]])
    <2>1. own(p) \in Seq(R)
        BY <1>1, PickType
    <2>2. PICK pos \in [1..Len(own(p)) -> 1..Len(batch)] : PickedFrom(pos, batch, K(p))
        BY <1>1, PickPlaces
    <2> DEFINE o == own(p)
               w == new(p)
               l == Len(o)
    <2>3. DOMAIN o = 1..l /\ l \in Nat
        BY <2>1, LenProperties
    <2>4. \A y \in 1..l : o[y] = batch[pos[y]] /\ pos[y] \in 1..Len(batch)
        BY <2>2 DEF PickedFrom
    <2>5. w = [y \in 1..l |-> Response(o[y])]
        BY <2>3
    <2> HIDE DEF o, w, l
    <2>6. w \in [1..l -> R] /\ \A y \in 1..l : w[y] = Response(batch[pos[y]])
        BY <1>4, <2>4, <2>5
    <2>7. DOMAIN w = 1..l
        BY <2>5
    <2>8. w \in Seq(R)
        BY <2>3, <2>6, SeqDef
    <2>9. Len(w) = l
        BY <2>3, <2>7, <2>8, LenProperties
    <2> QED BY <2>2, <2>3, <2>6, <2>8, <2>9 DEF w, l, o
<1> HIDE DEF own, new
<1>6. ASSUME NEW p \in Prompt
      PROVE  /\ all[p] \in Seq(R) /\ Len(all[p]) = Len(res[p]) + Len(new(p))
             /\ \A k \in 1..Len(res[p]) : all[p][k] = res[p][k]
             /\ \A y \in 1..Len(new(p)) : all[p][Len(res[p]) + y] = new(p)[y]
             /\ Len(res[p]) \in Nat /\ Len(new(p)) \in Nat
    <2>1. res[p] \in Seq(R) /\ new(p) \in Seq(R) /\ Len(new(p)) \in Nat
        BY <1>2, <1>5
    <2>2. all[p] = res[p] \o new(p)
        BY <1>3
    <2>3. Len(res[p]) \in Nat
        BY <2>1, LenProperties
    <2> QED BY <2>1, <2>2, <2>3, JoinIs
<1>7. ASSUME NEW p \in Prompt, NEW k \in 1..Len(all[p]) PROVE ResponseIn(s, all[p], p, k)
    <2> DEFINE a == Len(res[p])
    <2>1. PICK pos \in [1..Len(own(p)) -> 1..Len(batch)] :
              /\ PickedFrom(pos, batch, K(p)) /\ Len(new(p)) = Len(own(p))
              /\ \A y \in 1..Len(own(p)) : new(p)[y] = Response(batch[pos[y]])
        BY <1>5
    <2>2. a \in Nat /\ Len(new(p)) \in Nat /\ Len(all[p]) = a + Len(new(p))
        BY <1>6
    <2>3. CASE k <= a
        <3>1. k \in 1..a /\ \A m \in 1..(k - 1) : m \in 1..a
            BY <2>2, <2>3
        <3>2. ResponseIn(s, res[p], p, k)
            BY <3>1 DEF ResultsIn, Prompt, s
        <3>3. all[p][k] = res[p][k] /\ \A m \in 1..(k - 1) : all[p][m] = res[p][m]
            BY <1>6, <3>1
        <3> QED BY <3>2, <3>3 DEF ResponseIn
    <2>4. CASE ~(k <= a)
        <3> DEFINE y == k - a
        <3>1. y \in 1..Len(new(p)) /\ k = a + y
            BY <2>2, <2>4
        <3> HIDE DEF y
        <3>2. y \in 1..Len(own(p)) /\ pos[y] \in 1..Len(batch) /\ pos[y] \in K(p)
            BY <2>1, <3>1 DEF PickedFrom, own
        <3> DEFINE t == Response(batch[pos[y]])
        <3>3. all[p][k] = t
            BY <1>6, <2>1, <3>1, <3>2
        <3>4. RowIn(s, st, "collect", rf, res, t) /\ t.prompt = p /\ Len(t.ids) <= s.length
            BY <1>4, <3>2 DEF K
        <3> HIDE DEF t
        <3>5. Sound(s, t) /\ Done(s, t)
            BY <3>4 DEF RowIn
        <3>6. ASSUME t.given # 0 PROVE \E m \in 1..(k - 1) : IsChild(s, t, all[p][m])
            <4>1. PICK m \in 1..a : IsChild(s, t, res[p][m])
                BY <3>4, <3>6 DEF RowIn
            <4>2. m \in 1..(k - 1) /\ all[p][m] = res[p][m]
                BY <1>6, <2>2, <2>4
            <4> QED BY <4>1, <4>2
        <3> QED BY <3>3, <3>4, <3>5, <3>6 DEF ResponseIn
    <2> QED BY <2>3, <2>4
<1>8. ResultsIn(s, all)
    <2>1. all \in [Prompt -> Seq(R)]
        BY <1>3, <1>6
    <2> QED BY <1>7, <2>1 DEF ResultsIn, Prompt, R, s
<1>9. ASSUME NEW i \in 1..Len(batch)
      PROVE  \E m \in 1..Len(all[batch[i].prompt]) : all[batch[i].prompt][m] = Response(batch[i])
    <2> DEFINE p == batch[i].prompt
    <2>1. p \in Prompt
        BY <1>4
    <2>2. i \in K(p)
        BY DEF K
    <2> HIDE DEF p
    <2>3. PICK pos \in [1..Len(own(p)) -> 1..Len(batch)] :
              /\ PickedFrom(pos, batch, K(p)) /\ Len(new(p)) = Len(own(p))
              /\ \A y \in 1..Len(own(p)) : new(p)[y] = Response(batch[pos[y]])
        BY <1>5, <2>1
    <2>4. PICK y \in 1..Len(own(p)) : pos[y] = i
        BY <2>2, <2>3 DEF PickedFrom, own
    <2> DEFINE m == Len(res[p]) + y
    <2>5. m \in 1..Len(all[p])
        BY <1>6, <2>1, <2>3
    <2>6. all[p][m] = Response(batch[i])
        BY <1>6, <2>1, <2>3, <2>4
    <2> QED BY <2>5, <2>6 DEF p
<1> QED BY <1>8, <1>9 DEF all, s

\* The next round begins with what is kept.
LEMMA NextRoundKeeps ==
    ASSUME setting \in Setting, NEW res, ResultsIn(setting, res), NextRound(res), setting' = setting
    PROVE  IndInv'
<1> DEFINE s == setting
           kept == [p \in Prompt |-> Keep(res[p])]
           z == 0
           rf == FALSE
<1>1. s.n \in Nat /\ s.turns \in Nat
    BY SettingIs
<1>2. /\ results' = kept /\ refining' = rf /\ step' = z
      /\ rows' = FreshRows({p \in Prompt : Len(kept[p]) < s.n})
      /\ pc' \in {"turn", "done"}
    BY DEF NextRound
<1>3. RowsIn(s, z, pc', rf, results', rows')
    <2> DEFINE ps == {p \in Prompt : Len(kept[p]) < s.n}
    <2>1. ps \in SUBSET Prompt
        OBVIOUS
    <2> HIDE DEF ps, kept
    <2>2. RowsIn(setting, 0, pc', FALSE, results', FreshRows(ps))
        BY <1>2, <2>1, FreshIn
    <2>3. rows' = FreshRows(ps)
        BY <1>2 DEF ps
    <2> QED BY <2>2, <2>3
<1> HIDE DEF z, rf
<1>4. ASSUME NEW p \in Prompt
      PROVE  /\ kept[p] \in Seq(RowSet(s)) /\ Len(kept[p]) <= Len(res[p])
             /\ Len(kept[p]) \in Nat /\ Len(res[p]) \in Nat
             /\ \A k \in 1..Len(kept[p]) : kept[p][k] = res[p][k]
    <2>1. res[p] \in Seq(RowSet(s))
        BY DEF ResultsIn, Prompt
    <2>2. kept[p] = Take(res[p], s.n)
        BY DEF Keep
    <2> DEFINE q == res[p]
               w == kept[p]
               R == RowSet(s)
    <2> HIDE DEF q, w, R, s
    <2>3. /\ w \in Seq(R) /\ Len(w) = IF s.n <= Len(q) THEN s.n ELSE Len(q)
          /\ \A k \in 1..Len(w) : w[k] = q[k]
        <3>1. q \in Seq(R) /\ w = Take(q, s.n)
            BY <2>1, <2>2 DEF q, w, R
        <3> QED BY <1>1, <3>1, TakeIs
    <2>4. Len(q) \in Nat
        BY <2>1, LenProperties DEF q
    <2>5. Len(w) <= Len(q) /\ Len(w) \in Nat
        BY <1>1, <2>3, <2>4
    <2> QED BY <2>3, <2>4, <2>5 DEF q, w, R
<1>5. kept \in [Prompt -> Seq(RowSet(s))]
    BY <1>4
<1> HIDE DEF kept
<1>6. ASSUME NEW p \in Prompt, NEW k \in 1..Len(kept[p]) PROVE ResponseIn(s, kept[p], p, k)
    <2>1. k \in 1..Len(res[p]) /\ \A m \in 1..(k - 1) : m \in 1..Len(kept[p])
        BY <1>4
    <2>2. ResponseIn(s, res[p], p, k)
        BY <2>1 DEF ResultsIn, Prompt
    <2>3. kept[p][k] = res[p][k] /\ \A m \in 1..(k - 1) : kept[p][m] = res[p][m]
        BY <1>4, <2>1
    <2> QED BY <2>2, <2>3 DEF ResponseIn
<1>7. ResultsIn(s, results')
    BY <1>2, <1>5, <1>6 DEF ResultsIn, Prompt
<1>8. step' \in 0..s.turns
    BY <1>1, <1>2 DEF z
<1>9. refining' \in BOOLEAN
    BY <1>2 DEF rf
<1> QED BY <1>2, <1>3, <1>7, <1>8, <1>9 DEF IndInv

LEMMA InitInv == Init => IndInv
<1> SUFFICES ASSUME Init PROVE IndInv
    OBVIOUS
<1> DEFINE z == 0
           rf == FALSE
           p == "turn"
           e == <<>>
<1>1. /\ setting \in Setting /\ pc = p /\ refining = rf /\ step = z
      /\ rows = FreshRows(Prompt) /\ results = [x \in Prompt |-> e]
    BY DEF Init
<1>2. p \in {"turn", "done"} /\ p \in {"turn", "collect", "done", "raised"} /\ rf \in BOOLEAN
    OBVIOUS
<1>3. RowsIn(setting, step, pc, refining, results, rows)
    <2>1. RowsIn(setting, 0, p, FALSE, results, FreshRows(Prompt))
        <3> HIDE DEF p
        <3> QED BY <1>1, <1>2, FreshIn
    <2> QED BY <1>1, <2>1
<1>4. e \in Seq(RowSet(setting)) /\ Len(e) = 0
    OBVIOUS
<1> HIDE DEF e, p, rf
<1>5. ResultsIn(setting, results)
    <2>1. results \in [Prompt -> Seq(RowSet(setting))] /\ \A x \in Prompt : Len(results[x]) = 0
        BY <1>1, <1>4
    <2> QED BY <2>1 DEF ResultsIn, Prompt
<1>6. step \in 0..setting.turns
    BY <1>1, SettingIs
<1> QED BY <1>1, <1>2, <1>3, <1>5, <1>6 DEF IndInv

LEMMA BatchIs ==
    ASSUME IndInv
    PROVE  /\ rows \in Seq(RowSet(setting)) /\ Len(rows) \in Nat /\ DOMAIN rows = 1..Len(rows)
           /\ \A i \in 1..Len(rows) :
                  /\ RowIn(setting, step, pc, refining, results, rows[i])
                  /\ rows[i].active \in BOOLEAN
           /\ ActiveRows = {i \in 1..Len(rows) : rows[i].active}
<1>1. rows \in Seq(RowSet(setting)) /\ Len(rows) \in Nat /\ DOMAIN rows = 1..Len(rows)
    BY LenProperties DEF IndInv, RowsIn
<1>2. \A i \in 1..Len(rows) : RowIn(setting, step, pc, refining, results, rows[i])
    BY DEF IndInv, RowsIn
<1>3. \A i \in 1..Len(rows) : rows[i].active \in BOOLEAN
    BY <1>2, RowIs DEF RowIn, Sound
<1> QED BY <1>1, <1>2, <1>3 DEF ActiveRows

LEMMA MaxTokensIs ==
    ASSUME IndInv, pc = "turn", ActiveRows # {}
    PROVE  MaxTokens \in Nat \ {0}
<1> DEFINE n == setting.length + setting.maxNew
           P == {rows[i].room : i \in ActiveRows}
           a == setting.maxNew
           b == Max(P)
<1>1. a \in Nat \ {0} /\ n \in Nat
    BY SettingIs DEF IndInv
<1>2. \A i \in ActiveRows : rows[i].room \in 1..n
    BY BatchIs DEF RowIn, InTurn
<1>3. P \in SUBSET (1..n) /\ P # {}
    BY <1>2
<1>4. MaxTokens = Min({a, b})
    BY DEF MaxTokens
<1> HIDE DEF P, n
<1>5. b \in P
    BY <1>1, <1>3, MaxIsLargest
<1>6. b \in 1..n
    BY <1>3, <1>5
<1> HIDE DEF a, b
<1>7. Min({a, b}) = IF a <= b THEN a ELSE b
    BY <1>1, <1>6, LesserIs
<1> QED BY <1>1, <1>4, <1>6, <1>7

\* The other parts of the invariant after a step of the turn loop.
LEMMA LoopInv ==
    ASSUME IndInv, NEW n \in Nat, n = Len(rows), UNCHANGED <<setting, refining, results>>,
           rows' = [i \in 1..n |-> rows'[i]], step' \in 0..setting.turns,
           pc' \in {"turn", "collect", "done", "raised"},
           \A i \in 1..n : RowIn(setting, step', pc', refining, results, rows'[i])
    PROVE  IndInv'
<1>1. RowsIn(setting, step', pc', refining, results, rows')
    <2> DEFINE batch == rows'
               st == step'
               p == pc'
    <2>1. DOMAIN batch = 1..n /\ batch = [i \in 1..n |-> batch[i]]
        OBVIOUS
    <2>2. \A i \in 1..n : RowIn(setting, st, p, refining, results, batch[i])
        OBVIOUS
    <2> HIDE DEF batch, st, p
    <2>3. RowsIn(setting, st, p, refining, results, batch)
        BY <2>1, <2>2, BatchIn
    <2> QED BY <2>3 DEF batch, st, p
<1> QED BY <1>1 DEF IndInv

LEMMA TurnKeeps == ASSUME IndInv, Turn PROVE IndInv'
<1> DEFINE n == Len(rows)
           s == setting
<1>1. /\ pc = "turn" /\ step < s.turns /\ ActiveRows # {} /\ step' = step + 1 /\ pc' = "turn"
      /\ UNCHANGED <<setting, refining, results>>
    BY DEF Turn, Generates
<1>2. /\ n \in Nat /\ DOMAIN rows = 1..n /\ ActiveRows = {i \in 1..n : rows[i].active}
      /\ \A i \in 1..n : RowIn(s, step, pc, refining, results, rows[i])
    BY BatchIs
<1>3. /\ s \in Setting /\ s.length \in Nat /\ step \in Nat /\ step + 1 \in 0..s.turns
      /\ step + 1 # 0
    BY <1>1, SettingIs DEF IndInv
<1>4. MaxTokens \in Nat \ {0}
    BY <1>1, MaxTokensIs
<1>5. PICK said \in [ActiveRows -> Output(MaxTokens)] :
        \E found \in [{i \in ActiveRows : Calls(said[i])} -> BOOLEAN] :
            rows' = [i \in DOMAIN rows |->
                IF i \notin ActiveRows THEN rows[i]
                ELSE IF i \in {k \in ActiveRows : Calls(said[k])}
                     THEN CheckLength(Answered(Extend(rows[i], said[i], 1), LastQuery(said[i]),
                                               found[i]), TRUE)
                     ELSE CheckLength(Extend(rows[i], said[i], 1), FALSE)]
    BY Zenon DEF Turn
<1>6. PICK found \in [{i \in ActiveRows : Calls(said[i])} -> BOOLEAN] :
            rows' = [i \in 1..n |->
                IF i \notin ActiveRows THEN rows[i]
                ELSE IF i \in {k \in ActiveRows : Calls(said[k])}
                     THEN CheckLength(Answered(Extend(rows[i], said[i], 1), LastQuery(said[i]),
                                               found[i]), TRUE)
                     ELSE CheckLength(Extend(rows[i], said[i], 1), FALSE)]
    BY <1>2, <1>5
<1> HIDE DEF n, s
<1>7. ASSUME NEW i \in 1..n PROVE RowIn(s, step + 1, "turn", refining, results, rows'[i])
    <2> DEFINE r == rows[i]
               t == rows'[i]
               p == "turn"
               st == step + 1
    <2>1. RowIn(s, step, p, refining, results, r) /\ Sound(s, r) /\ InTurn(s, step, r)
        BY <1>1, <1>2 DEF RowIn
    <2>2. Sound(s, t) /\ InTurn(s, st, t) /\ Follows(r, t)
        <3>1. CASE i \notin ActiveRows
            <4>1. t = r /\ ~r.active
                BY <1>2, <1>6, <3>1
            <4>2. InTurn(s, st, r)
                BY <1>3, <2>1, <4>1 DEF InTurn
            <4>3. Follows(r, r)
                BY DEF Follows, SameUpTo
            <4> QED BY <2>1, <4>1, <4>2, <4>3
        <3>2. CASE i \in ActiveRows
            <4> DEFINE o == said[i]
                       x == Extend(r, o, 1)
                       q == LastQuery(o)
                       f == found[i]
            <4>1. r.active /\ SaidOk(o)
                BY <1>2, <1>4, <3>2, SaidIs
            <4>2. /\ Spoken(s, x) /\ Follows(r, x) /\ x.mask[Len(x.ids)] = 1
                  /\ Calls(o) => q \in Query /\ Calling(x, q)
                <5> HIDE DEF r, o
                <5> QED BY <2>1, <4>1, TurnSays
            <4>3. x.given <= setting.length
                <5>1. p \in {"turn", "collect"}
                    OBVIOUS
                <5> HIDE DEF p
                <5>2. r.given <= s.length
                    BY <1>3, <2>1, <5>1, RowGiven
                <5> QED BY <4>2, <5>2 DEF Follows, SameUpTo, s
            <4>4. CASE Calls(o)
                <5>1. t = CheckLength(Answered(x, q, f), TRUE) /\ f \in BOOLEAN
                    BY <1>6, <3>2, <4>4
                <5> HIDE DEF x, q, f, t
                <5>2. Sound(setting, t) /\ InTurn(setting, step + 1, t) /\ Follows(x, t)
                    BY <1>3, <4>2, <4>3, <4>4, <5>1, TurnAnswers DEF s
                <5>3. Follows(r, t)
                    BY <4>2, <5>2, FollowsOn
                <5> QED BY <5>2, <5>3 DEF s, t
            <4>5. CASE ~Calls(o)
                <5>1. t = CheckLength(x, FALSE)
                    BY <1>6, <3>2, <4>5
                <5> HIDE DEF x, q, f, t
                <5>2. Sound(setting, t) /\ InTurn(setting, step + 1, t) /\ Follows(x, t)
                    BY <1>3, <4>2, <4>3, <5>1, TurnStops DEF s
                <5>3. Follows(r, t)
                    BY <4>2, <5>2, FollowsOn
                <5> QED BY <5>2, <5>3 DEF s, t
            <4> QED BY <4>4, <4>5
        <3> QED BY <3>1, <3>2
    <2>3. p \in {"turn", "collect"} /\ (p = "collect" => Done(s, t))
        OBVIOUS
    <2> HIDE DEF r, t, p, st
    <2>4. RowIn(s, st, p, refining, results, t)
        BY <2>1, <2>2, <2>3, FromRow
    <2> QED BY <2>4 DEF st, p, t
<1>8. rows' = [i \in 1..n |-> rows'[i]]
    BY <1>6
<1> QED BY <1>1, <1>2, <1>3, <1>7, <1>8, LoopInv DEF n, s

LEMMA PrefixTurnKeeps == ASSUME IndInv, PrefixTurn PROVE IndInv'
<1> DEFINE n == Len(rows)
           s == setting
           calling == {i \in 1..n : PrefixCalls(rows[i])}
<1>1. /\ pc = "turn" /\ step < s.turns /\ refining /\ step = 0 /\ step' = step + 1 /\ pc' = "turn"
      /\ UNCHANGED <<setting, refining, results>>
    BY DEF PrefixTurn
<1>2. /\ n \in Nat /\ DOMAIN rows = 1..n
      /\ \A i \in 1..n : RowIn(s, step, pc, refining, results, rows[i])
    BY BatchIs
<1>3. s \in Setting /\ s.length \in Nat /\ step \in Nat /\ step + 1 \in 0..s.turns
    BY <1>1, SettingIs DEF IndInv
<1>4. PICK found \in [calling -> BOOLEAN] :
            rows' = [i \in 1..n |->
                IF i \in calling
                THEN CheckLength(Answered(rows[i], LastQuery(rows[i].ids), found[i]), TRUE)
                ELSE CheckLength(rows[i], FALSE)]
    BY <1>2 DEF PrefixTurn
<1> HIDE DEF n, s, calling
<1>5. ASSUME NEW i \in 1..n PROVE RowIn(s, step + 1, "turn", refining, results, rows'[i])
    <2> DEFINE r == rows[i]
               t == rows'[i]
               p == "turn"
               st == step + 1
               q == LastQuery(r.ids)
               f == found[i]
    <2>1. /\ RowIn(s, step, p, refining, results, r) /\ Sound(s, r) /\ InTurn(s, 0, r)
          /\ r.given # 0 /\ \E m \in 1..Len(results[r.prompt]) : IsChild(s, r, results[r.prompt][m])
        BY <1>1, <1>2 DEF RowIn
    <2>2. PICK parent : IsChild(s, r, parent)
        BY <2>1
    <2>3. r.given <= setting.length
        <3>1. p \in {"turn", "collect"}
            OBVIOUS
        <3> HIDE DEF p
        <3> QED BY <1>3, <2>1, <3>1, RowGiven DEF s
    <2>4. i \in calling => t = CheckLength(Answered(r, q, f), TRUE) /\ f \in BOOLEAN
        BY <1>4
    <2>5. i \notin calling => t = CheckLength(r, FALSE)
        BY <1>4
    <2>6. p \in {"turn", "collect"} /\ (p = "collect" => Done(s, t))
        OBVIOUS
    <2> HIDE DEF r, t, p, f
    <2>7. Spoken(s, r) /\ r.mask[Len(r.ids)] = 1 /\ q \in Query /\ Calling(r, q)
        BY <2>1, <2>2, PrefixSays
    <2> HIDE DEF q
    <2>8. Sound(setting, t) /\ InTurn(setting, step + 1, t) /\ Follows(r, t)
        <3>1. CASE i \in calling
            BY <1>3, <2>3, <2>4, <2>7, <3>1, TurnAnswers DEF s
        <3>2. CASE i \notin calling
            BY <1>3, <2>3, <2>5, <2>7, <3>2, TurnStops DEF s
        <3> QED BY <3>1, <3>2
    <2> HIDE DEF st
    <2>9. RowIn(s, st, p, refining, results, t)
        <3>1. Sound(s, t) /\ InTurn(s, st, t)
            BY <2>8 DEF s, st
        <3> QED BY <2>1, <2>6, <2>8, <3>1, FromRow
    <2> QED BY <2>9 DEF st, p, t
<1>6. rows' = [i \in 1..n |-> rows'[i]]
    BY <1>4
<1> QED BY <1>1, <1>2, <1>3, <1>5, <1>6, LoopInv DEF n, s

\* A row of the last turn that no answer is forced of.
LEMMA UnforcedRow ==
    ASSUME IndInv, TurnsOver, NEW i \in 1..Len(rows), i \notin Forced
    PROVE  RowIn(setting, step, "collect", refining, results, rows[i])
<1> DEFINE s == setting
           r == rows[i]
           p == "turn"
           w == "collect"
<1>1. /\ pc = p /\ (step = s.turns \/ ActiveRows = {})
      /\ ActiveRows = {k \in 1..Len(rows) : rows[k].active}
      /\ RowIn(s, step, pc, refining, results, r) /\ s \in Setting
    BY BatchIs DEF TurnsOver, IndInv
<1>2. Sound(s, r) /\ InTurn(s, step, r)
    BY <1>1 DEF RowIn
<1>3. r.active => step = s.turns /\ ~(Remaining(r) > AnswerRoom)
    BY <1>1 DEF Forced
<1> HIDE DEF r
<1>4. Done(s, r)
    <2>1. step \in Nat
        BY SettingIs DEF IndInv
    <2> QED BY <1>1, <1>2, <1>3, <2>1, UnforcedDone
<1>5. Follows(r, r)
    BY DEF Follows, SameUpTo
<1>6. p \in {"turn", "collect"} /\ RowIn(s, step, p, refining, results, r)
      /\ (w = "turn" => InTurn(s, step, r))
    BY <1>1
<1> HIDE DEF p, w, s
<1>7. RowIn(s, step, w, refining, results, r)
    BY <1>2, <1>4, <1>5, <1>6, FromRow
<1> QED BY <1>7 DEF s, w, r

LEMMA NoneForcedKeeps == ASSUME IndInv, NoneForced PROVE IndInv'
<1>1. /\ TurnsOver /\ Forced = {} /\ pc' = "collect"
      /\ setting' = setting /\ refining' = refining /\ step' = step /\ rows' = rows
      /\ results' = results
    BY DEF NoneForced
<1>2. \A i \in 1..Len(rows) : RowIn(setting, step, "collect", refining, results, rows[i])
    BY <1>1, UnforcedRow
<1>3. RowsIn(setting, step, "collect", refining, results, rows)
    BY <1>2 DEF IndInv, RowsIn
<1> QED BY <1>1, <1>3 DEF IndInv

LEMMA ForceAnswersKeeps == ASSUME IndInv, ForceAnswers PROVE IndInv'
<1> DEFINE n == Len(rows)
           s == setting
           st == step
           p == "turn"
           w == "collect"
           Texts == {<<Verdict, CloseAnswer("policy")>>, <<Verdict>>}
           Told(o) == IF CloseAnswer("policy") \in Range(o) THEN o
                      ELSE Append(o, CloseAnswer("closing"))
<1>1. /\ TurnsOver /\ pc' = w /\ UNCHANGED <<setting, refining, step, results>> /\ pc = p
    BY DEF ForceAnswers, TurnsOver
<1>2. /\ n \in Nat /\ DOMAIN rows = 1..n /\ ActiveRows = {i \in 1..n : rows[i].active}
      /\ \A i \in 1..n : RowIn(s, step, pc, refining, results, rows[i])
    BY BatchIs
<1>3. PICK said : /\ \A i \in Forced : said[i] \in Texts
                  /\ rows' = [i \in DOMAIN rows |->
                        IF i \notin Forced THEN rows[i]
                        ELSE Extend(Extend(rows[i], FinalAnswerPrefix, 0), Told(said[i]), 1)]
    <2> DEFINE primed == [i \in Forced |-> Extend(rows[i], FinalAnswerPrefix, 0)]
               m == Max({1, Min({MaxAnswer, Max({Remaining(primed[i]) : i \in Forced})})})
               answers == {o \in Texts : Len(o) <= m}
    <2>1. PICK said \in [Forced -> answers] :
              rows' = [i \in DOMAIN rows |->
                IF i \notin Forced THEN rows[i] ELSE Extend(primed[i], Told(said[i]), 1)]
        BY Zenon DEF ForceAnswers
    <2>2. \A i \in Forced : said[i] \in Texts
        <3> HIDE DEF Texts, m
        <3> QED BY <2>1
    <2>3. \A i \in Forced : primed[i] = Extend(rows[i], FinalAnswerPrefix, 0)
        OBVIOUS
    <2> HIDE DEF primed, Texts, Told
    <2> QED BY <2>1, <2>2, <2>3
<1>4. step \in Nat /\ s \in Setting
    BY SettingIs DEF IndInv
<1>5. ASSUME NEW i \in 1..n PROVE RowIn(s, st, w, refining, results, rows'[i])
    <2>1. CASE i \notin Forced
        <3>1. rows'[i] = rows[i]
            BY <1>2, <1>3, <2>1
        <3>2. RowIn(setting, step, "collect", refining, results, rows[i])
            BY <1>1, <2>1, UnforcedRow
        <3> QED BY <3>1, <3>2
    <2>2. CASE i \in Forced
        <3> DEFINE r == rows[i]
                   o == said[i]
                   q == Told(o)
                   t == Extend(Extend(r, FinalAnswerPrefix, 0), q, 1)
        <3>1. rows'[i] = t
            BY <1>2, <1>3, <2>2
        <3>2. r.active /\ RowIn(s, st, p, refining, results, r) /\ Sound(s, r) /\ InTurn(s, st, r)
            BY <1>1, <1>2, <2>2 DEF Forced, RowIn
        <3>3. /\ q \in Seq(Token) /\ Len(q) # 0
              /\ \A y \in 1..Len(q) : Generated(q[y]) /\ q[y].src # "refiner"
            <4>1. o \in Texts
                BY <1>3, <2>2
            <4> HIDE DEF o
            <4> QED BY <4>1, AnswerIs
        <3> HIDE DEF r, o, q
        <3>4. Sound(s, t) /\ Done(s, t) /\ Follows(r, t)
            BY <1>4, <3>2, <3>3, ForcedDone
        <3>5. p \in {"turn", "collect"} /\ (w = "turn" => InTurn(s, st, t))
            OBVIOUS
        <3> HIDE DEF t, p, w, s, st
        <3>6. RowIn(s, st, w, refining, results, t)
            BY <3>2, <3>4, <3>5, FromRow
        <3> QED BY <3>1, <3>6
    <2> QED BY <2>1, <2>2
<1> HIDE DEF Told, Texts
<1>6. rows' = [i \in 1..n |-> rows'[i]]
    BY <1>2, <1>3
<1>7. step' \in 0..setting.turns /\ pc' \in {"turn", "collect", "done", "raised"}
    BY <1>1 DEF IndInv
<1> QED BY <1>1, <1>2, <1>5, <1>6, <1>7, LoopInv

\* An exception, or the end, asks nothing more of the rows.
LEMMA StoppedInv ==
    ASSUME IndInv, pc' \in {"done", "raised"}, setting' = setting, refining' = refining,
           step' = step, rows' = rows, ResultsIn(setting, results')
    PROVE  IndInv'
<1>1. \A i \in 1..Len(rows) : RowIn(setting, step, pc', refining, results', rows[i])
    <2>1. \A i \in 1..Len(rows) : RowIn(setting, step, pc, refining, results, rows[i])
        BY BatchIs
    <2> QED BY <2>1 DEF RowIn
<1>2. RowsIn(setting, step, pc', refining, results', rows)
    BY <1>1 DEF IndInv, RowsIn
<1> QED BY <1>2 DEF IndInv

LEMMA EngineRefusesKeeps == ASSUME IndInv, EngineRefuses PROVE IndInv'
<1>1. /\ pc' \in {"done", "raised"} /\ setting' = setting /\ refining' = refining /\ step' = step
      /\ rows' = rows /\ results' = results
    BY DEF EngineRefuses
<1>2. ResultsIn(setting, results')
    BY <1>1 DEF IndInv
<1> QED BY <1>1, <1>2, StoppedInv

LEMMA TurnRaisesKeeps == ASSUME IndInv, TurnRaises PROVE IndInv'
<1>1. /\ pc' \in {"done", "raised"} /\ setting' = setting /\ refining' = refining /\ step' = step
      /\ rows' = rows /\ results' = results
    BY DEF TurnRaises
<1>2. ResultsIn(setting, results')
    BY <1>1 DEF IndInv
<1> QED BY <1>1, <1>2, StoppedInv

LEMMA WithoutTruthsKeeps == ASSUME IndInv, CollectWithoutTruths PROVE IndInv'
<1>1. /\ pc' \in {"done", "raised"} /\ setting' = setting /\ refining' = refining /\ step' = step
      /\ rows' = rows /\ results' = results
    BY DEF CollectWithoutTruths
<1>2. ResultsIn(setting, results')
    BY <1>1 DEF IndInv
<1> QED BY <1>1, <1>2, StoppedInv

LEMMA AllCollected ==
    ASSUME IndInv, pc = "collect"
    PROVE  /\ ResultsIn(setting, Collected(results, rows))
           /\ \A i \in 1..Len(rows) :
                  \E m \in 1..Len(Collected(results, rows)[rows[i].prompt]) :
                      Collected(results, rows)[rows[i].prompt][m] = Response(rows[i])
BY CollectedIs DEF IndInv

LEMMA GreedyKeeps == ASSUME IndInv, CollectGreedy PROVE IndInv'
<1>1. /\ pc' \in {"done", "raised"} /\ setting' = setting /\ refining' = refining /\ step' = step
      /\ rows' = rows /\ results' = Collected(results, rows) /\ pc = "collect"
    BY DEF CollectGreedy
<1>2. ResultsIn(setting, results')
    BY <1>1, AllCollected
<1> QED BY <1>1, <1>2, StoppedInv

LEMMA CollectRefinedKeeps == ASSUME IndInv, CollectRefined PROVE IndInv'
<1>1. NextRound(Collected(results, rows)) /\ setting' = setting /\ pc = "collect"
      /\ setting \in Setting
    BY DEF CollectRefined, IndInv
<1> QED BY <1>1, AllCollected, NextRoundKeeps

LEMMA CollectAndRefineKeeps == ASSUME IndInv, CollectAndRefine PROVE IndInv'
<1> DEFINE s == setting
           all == Collected(results, rows)
           n == Len(rows)
<1>1. /\ pc = "collect" /\ ~refining /\ setting' = setting /\ s \in Setting
    BY DEF CollectAndRefine, IndInv
<1>2. /\ rows \in Seq(RowSet(s)) /\ n \in Nat /\ DOMAIN rows = 1..n
      /\ \A i \in 1..n : RowIn(s, step, pc, refining, results, rows[i])
    BY BatchIs
<1>3. /\ ResultsIn(s, all)
      /\ \A i \in 1..n : \E m \in 1..Len(all[rows[i].prompt]) :
             all[rows[i].prompt][m] = Response(rows[i])
    BY <1>1, AllCollected
<1>4. PICK refined \in SUBSET DOMAIN rows :
        \E pick \in [refined -> UNION {Refinements(Response(rows[i])) : i \in refined}] :
            LET order == Places(rows, refined)
                batch == [k \in DOMAIN order |-> pick[order[k]]]
            IN  /\ \A i \in refined : pick[i] \in Refinements(Response(rows[i]))
                /\ IF refined = {} THEN NextRound(Collected(results, rows))
                   ELSE /\ results' = Collected(results, rows)
                        /\ rows' = batch
                        /\ refining' = TRUE
                        /\ step' = 0
                        /\ pc' = IF MasksStack(batch) THEN "turn" ELSE "raised"
    BY Zenon DEF CollectAndRefine
<1>5. PICK pick :
            LET order == Places(rows, refined)
                batch == [k \in DOMAIN order |-> pick[order[k]]]
            IN  /\ \A i \in refined : pick[i] \in Refinements(Response(rows[i]))
                /\ IF refined = {} THEN NextRound(Collected(results, rows))
                   ELSE /\ results' = Collected(results, rows)
                        /\ rows' = batch
                        /\ refining' = TRUE
                        /\ step' = 0
                        /\ pc' = IF MasksStack(batch) THEN "turn" ELSE "raised"
    BY <1>4, Zenon
<1> HIDE DEF all, n, s
<1>6. CASE refined = {}
    <2>1. NextRound(all)
        BY <1>5, <1>6 DEF all
    <2> QED BY <1>1, <1>3, <2>1, NextRoundKeeps DEF s
<1>7. CASE refined # {}
    <2> DEFINE order == Places(rows, refined)
               batch == [k \in DOMAIN order |-> pick[order[k]]]
    <2>1. /\ \A i \in refined : pick[i] \in Refinements(Response(rows[i]))
          /\ results' = all /\ rows' = batch /\ refining' = TRUE /\ step' = 0
          /\ pc' \in {"turn", "raised"}
        BY <1>5, <1>7 DEF all
    <2>2. refined \in SUBSET (1..n)
        BY <1>2, <1>4
    <2>3. Ascending(order, refined, n)
        BY <1>2, <2>2, PlacesAre DEF n
    <2> HIDE DEF order
    <2> DEFINE l == Len(order)
    <2>4. DOMAIN order = 1..l /\ l \in Nat /\ \A k \in 1..l : order[k] \in refined
        BY <2>3, LenProperties DEF Ascending
    <2>5. ASSUME NEW k \in 1..l PROVE RowIn(s, 0, pc', TRUE, all, batch[k])
        <3> DEFINE i == order[k]
                   t == pick[i]
                   r == Response(rows[i])
                   rf == refining
        <3>1. i \in refined /\ i \in 1..n /\ batch[k] = t
            BY <2>2, <2>4
        <3>2. t \in Refinements(r)
            BY <2>1, <3>1
        <3>3. /\ RowIn(s, step, "collect", refining, results, r) /\ Len(r.ids) <= s.length
              /\ r.prompt = rows[i].prompt
            BY <1>1, <1>2, <3>1, RowCollected DEF s
        <3>4. PICK m \in 1..Len(all[r.prompt]) : all[r.prompt][m] = r
            BY <1>3, <3>1, <3>3
        <3> HIDE DEF r, t, i
        <3>5. Sound(s, r) /\ Done(s, r) /\ r.given = 0
            BY <1>1, <3>3 DEF RowIn
        <3>6. Len(r.ids) # 0
            BY <3>5 DEF Done
        <3>7. Sound(s, t) /\ InTurn(s, 0, t) /\ IsChild(s, t, r) /\ t.prompt = r.prompt
            BY <1>1, <3>2, <3>3, <3>5, <3>6, RefinementsAre DEF s
        <3>8. t.given # 0
            BY <3>7 DEF IsChild
        <3>9. pc' # "collect"
            BY <2>1
        <3> QED BY <3>1, <3>4, <3>7, <3>8, <3>9 DEF RowIn
    <2>6. DOMAIN batch = 1..l /\ batch = [k \in 1..l |-> batch[k]]
        BY <2>4
    <2> DEFINE p == pc'
               z == 0
               on == TRUE
    <2>7. RowsIn(s, z, p, on, all, batch)
        <3>1. \A k \in 1..l : RowIn(s, z, p, on, all, batch[k])
            BY <2>5
        <3> HIDE DEF z, p, on, batch, l
        <3> QED BY <2>4, <2>6, <3>1, BatchIn DEF l
    <2>8. RowsIn(setting', step', pc', refining', results', rows')
        BY <1>1, <2>1, <2>7 DEF s
    <2>9. step' \in 0..setting'.turns
        BY <1>1, <2>1, SettingIs DEF s
    <2>10. refining' \in BOOLEAN
        BY <2>1
    <2>11. pc' \in {"turn", "collect", "done", "raised"}
        BY <2>1
    <2> QED BY <1>1, <1>3, <2>1, <2>8, <2>9, <2>10, <2>11 DEF IndInv, s
<1> QED BY <1>6, <1>7

LEMMA NextInv == IndInv /\ [Next]_vars => IndInv'
<1> SUFFICES ASSUME IndInv, [Next]_vars PROVE IndInv'
    OBVIOUS
<1>1. CASE Turn
    BY <1>1, TurnKeeps
<1>2. CASE PrefixTurn
    BY <1>2, PrefixTurnKeeps
<1>3. CASE NoneForced
    BY <1>3, NoneForcedKeeps
<1>4. CASE ForceAnswers
    BY <1>4, ForceAnswersKeeps
<1>5. CASE EngineRefuses
    BY <1>5, EngineRefusesKeeps
<1>6. CASE CollectGreedy
    BY <1>6, GreedyKeeps
<1>7. CASE CollectAndRefine
    BY <1>7, CollectAndRefineKeeps
<1>8. CASE CollectWithoutTruths
    BY <1>8, WithoutTruthsKeeps
<1>9. CASE CollectRefined
    BY <1>9, CollectRefinedKeeps
<1>10. CASE TurnRaises
    BY <1>10, TurnRaisesKeeps
<1>11. CASE UNCHANGED vars
    BY <1>11 DEF vars, IndInv
<1> QED BY <1>1, <1>2, <1>3, <1>4, <1>5, <1>6, <1>7, <1>8, <1>9, <1>10, <1>11 DEF Next

LEMMA SpecInv == Spec => []IndInv
BY InitInv, NextInv, PTL DEF Spec

-------------------------------------------------------------------------------
(* Digests                                                                     *)

\* The first elements of b are a.
Begins(a, b) ==
    Len(a) \in Nat /\ Len(b) \in Nat /\ Len(a) <= Len(b) /\ \A i \in 1..Len(a) : b[i] = a[i]

LEMMA BeginsOn ==
    ASSUME NEW a, NEW b, Begins(a, b), NEW c, Begins(b, c)
    PROVE  Begins(a, c)
<1>1. \A i \in 1..Len(a) : i \in 1..Len(b)
    BY DEF Begins
<1> QED BY <1>1 DEF Begins

\* Of two beginnings of one list, one begins the other.
LEMMA BeginsEither ==
    ASSUME NEW a, NEW b, NEW c, Begins(a, c), Begins(b, c)
    PROVE  Begins(a, b) \/ Begins(b, a)
BY DEF Begins

LEMMA BeginsIsPrefix ==
    ASSUME NEW S, NEW a \in Seq(S), NEW b \in Seq(S), Begins(a, b)
    PROVE  IsPrefix(a, b)
<1> DEFINE n == Len(a)
           u == SubSeq(a, 1, n)
           v == SubSeq(b, 1, n)
           z == 0
<1>1. n \in Nat /\ n <= Len(a) /\ n <= Len(b) /\ z \in Nat /\ z <= n /\ z + 1 = 1 /\ n - z = n
      /\ \A i \in 1..n : b[i] = a[i] /\ z + i = i
    BY DEF Begins
<1>2. u = SubSeq(a, z + 1, n) /\ v = SubSeq(b, z + 1, n)
    BY <1>1
<1> HIDE DEF z, n
<1>3. u \in Seq(S) /\ Len(u) = n /\ \A i \in 1..n : u[i] = a[i]
    <2>1. /\ SubSeq(a, z + 1, n) \in Seq(S) /\ Len(SubSeq(a, z + 1, n)) = n - z
          /\ \A j \in 1..(n - z) : SubSeq(a, z + 1, n)[j] = a[z + j]
        BY <1>1, SliceIs
    <2> QED BY <1>1, <1>2, <2>1
<1>4. v \in Seq(S) /\ Len(v) = n /\ \A i \in 1..n : v[i] = b[i]
    <2>1. /\ SubSeq(b, z + 1, n) \in Seq(S) /\ Len(SubSeq(b, z + 1, n)) = n - z
          /\ \A j \in 1..(n - z) : SubSeq(b, z + 1, n)[j] = b[z + j]
        BY <1>1, SliceIs
    <2> QED BY <1>1, <1>2, <2>1
<1> HIDE DEF u, v
<1>5. u = v
    BY <1>1, <1>3, <1>4, SeqEqual
<1> QED BY <1>1, <1>5 DEF IsPrefix, u, v, n

\* Lists that begin alike are joined to lists that begin alike.
LEMMA FlattenBegins ==
    ASSUME NEW S, NEW a \in Seq(Seq(S)), NEW b \in Seq(Seq(S)), Begins(a, b)
    PROVE  Begins(FlattenSeq(a), FlattenSeq(b))
<1> DEFINE m == Len(a)
           n == Len(b)
<1>1. m \in Nat /\ n \in Nat /\ m <= n /\ \A i \in 1..m : b[i] = a[i]
    BY DEF Begins
<1>2. PICK g \in [0..m -> Seq(S)] : Joins(g, a) /\ FlattenSeq(a) = g[m]
    BY FlattenUnfolds
<1>3. PICK f \in [0..n -> Seq(S)] : Joins(f, b) /\ FlattenSeq(b) = f[n]
    BY FlattenUnfolds
<1>4. g[0] = f[0]
    BY <1>2, <1>3, Zenon DEF Joins
<1>5. /\ \A i \in 1..m : g[i] = g[i - 1] \o a[i]
      /\ \A i \in 1..n : f[i] = f[i - 1] \o b[i] /\ b[i] \in Seq(S)
    <2>1. \A i \in 1..Len(a) : g[i] = g[i - 1] \o a[i]
        BY <1>2, Zenon DEF Joins
    <2>2. \A i \in 1..Len(b) : f[i] = f[i - 1] \o b[i]
        BY <1>3, Zenon DEF Joins
    <2>3. \A i \in 1..n : b[i] \in Seq(S)
        OBVIOUS
    <2> QED BY <2>1, <2>2, <2>3
<1> HIDE DEF m, n
<1> DEFINE T == {i \in Nat : i <= m => g[i] = f[i]}
<1>6. \A i \in Nat : i \in T
    <2>1. 0 \in T
        BY <1>4
    <2>2. ASSUME NEW i \in Nat, i \in T PROVE i + 1 \in T
        <3> SUFFICES ASSUME i + 1 <= m PROVE g[i + 1] = f[i + 1]
            OBVIOUS
        <3>1. i + 1 \in 1..m /\ i + 1 \in 1..n /\ (i + 1) - 1 = i /\ i <= m
            BY <1>1
        <3>2. g[i] = f[i]
            BY <2>2, <3>1
        <3>3. g[i + 1] = g[i] \o a[i + 1] /\ f[i + 1] = f[i] \o b[i + 1] /\ b[i + 1] = a[i + 1]
            BY <1>1, <1>5, <3>1
        <3> QED BY <3>2, <3>3
    <2> HIDE DEF T
    <2> QED BY <2>1, <2>2, InductionOnNat
<1>7. g[m] = f[m]
    BY <1>1, <1>6
<1> DEFINE U == {i \in Nat : m <= i /\ i <= n => Begins(f[m], f[i])}
<1>8. \A i \in Nat : i \in U
    <2>1. \A i \in 0..n : f[i] \in Seq(S) /\ Len(f[i]) \in Nat
        BY <1>3, LenProperties
    <2>2. Begins(f[m], f[m])
        BY <1>1, <2>1 DEF Begins
    <2>3. 0 \in U
        BY <1>1, <2>2
    <2>4. ASSUME NEW i \in Nat, i \in U PROVE i + 1 \in U
        <3> SUFFICES ASSUME m <= i + 1, i + 1 <= n PROVE Begins(f[m], f[i + 1])
            OBVIOUS
        <3>1. CASE m = i + 1
            BY <2>2, <3>1
        <3>2. CASE m # i + 1
            <4>1. m <= i /\ i <= n /\ i + 1 \in 1..n /\ (i + 1) - 1 = i /\ i \in 0..n /\ i + 1 \in 0..n
                BY <1>1, <3>2
            <4>2. Begins(f[m], f[i])
                BY <2>4, <4>1
            <4>3. f[i + 1] = f[i] \o b[i + 1] /\ f[i] \in Seq(S) /\ b[i + 1] \in Seq(S)
                BY <1>5, <2>1, <4>1
            <4> DEFINE p == f[i]
                       q == b[i + 1]
                       r == f[i + 1]
            <4> HIDE DEF p, q, r
            <4>8. p \in Seq(S) /\ q \in Seq(S)
                BY <4>3 DEF p, q
            <4>4. /\ p \o q \in Seq(S) /\ Len(p \o q) = Len(p) + Len(q)
                  /\ \A y \in 1..Len(p) : (p \o q)[y] = p[y]
                BY <4>8, JoinIs
            <4>5. Len(p) \in Nat /\ Len(q) \in Nat
                BY <4>8, LenProperties
            <4>6. r = p \o q
                BY <4>3 DEF p, q, r
            <4>7. Begins(p, r)
                BY <4>4, <4>5, <4>6 DEF Begins
            <4> QED BY <4>2, <4>7, BeginsOn DEF p, r
        <3> QED BY <3>1, <3>2
    <2> HIDE DEF U
    <2> QED BY <2>3, <2>4, InductionOnNat
<1>9. Begins(f[m], f[n])
    BY <1>1, <1>8
<1> QED BY <1>2, <1>3, <1>7, <1>9

\* What a token adds to the digest: itself, or what it answers if a memory begins there.
DigestAt(ids, i) ==
    IF ~IsMemory(ids[i]) THEN <<ids[i]>>
    ELSE IF i > 1 /\ IsMemory(ids[i - 1]) THEN <<>>
    ELSE <<[src |-> "memory", query |-> ids[i].query]>>

Digested == Token \cup [src : {"memory"}, query : Query]

DigestParts(r) == [i \in 1..Len(r.ids) |-> DigestAt(r.ids, i)]

LEMMA DigestIs ==
    ASSUME NEW s, NEW r, IsRow(s, r)
    PROVE  /\ DigestParts(r) \in Seq(Seq(Digested)) /\ Len(DigestParts(r)) = Len(r.ids)
           /\ Digest(r) = FlattenSeq(DigestParts(r)) /\ Digest(r) \in Seq(Digested)
<1> DEFINE n == Len(r.ids)
           M == Digested
<1>1. n \in Nat /\ DOMAIN r.ids = 1..n /\ \A i \in 1..n : r.ids[i] \in Token
    BY RowIs, LenProperties
<1>2. ASSUME NEW i \in 1..n PROVE DigestAt(r.ids, i) \in Seq(M)
    <2> DEFINE t == r.ids[i]
               w == [src |-> "memory", query |-> t.query]
    <2>1. t \in Token
        BY <1>1
    <2>2. t \in M
        BY <2>1 DEF Digested
    <2>3. IsMemory(t) => w \in M
        BY <2>1, TokenKinds DEF Digested
    <2> HIDE DEF t, M, w
    <2>4. <<t>> \in Seq(M)
        BY <2>2
    <2>5. <<>> \in Seq(M)
        OBVIOUS
    <2>6. IsMemory(t) => <<w>> \in Seq(M)
        BY <2>3
    <2>7. DigestAt(r.ids, i) = IF ~IsMemory(t) THEN <<t>>
                               ELSE IF i > 1 /\ IsMemory(r.ids[i - 1]) THEN <<>> ELSE <<w>>
        BY DEF DigestAt, t, w
    <2> QED BY <2>4, <2>5, <2>6, <2>7, Zenon
<1>3. Digest(r) = FlattenSeq(DigestParts(r))
    <2>1. [i \in DOMAIN r.ids |-> DigestAt(r.ids, i)] = DigestParts(r)
        BY <1>1, Zenon DEF DigestParts
    <2>2. Digest(r) = FlattenSeq([i \in DOMAIN r.ids |-> DigestAt(r.ids, i)])
        BY Zenon DEF Digest, DigestAt, IsMemory
    <2> QED BY <2>1, <2>2
<1> HIDE DEF M
<1>4. DigestParts(r) \in Seq(Seq(M)) /\ Len(DigestParts(r)) = n
    <2> DEFINE d == DigestParts(r)
    <2>1. d = [i \in 1..n |-> d[i]] /\ \A i \in 1..n : d[i] \in Seq(M)
        BY <1>2 DEF DigestParts
    <2> HIDE DEF d, n
    <2>2. d \in [1..n -> Seq(M)]
        BY <2>1
    <2> QED BY <1>1, <2>2, SeqDef, LenProperties DEF d
<1>5. FlattenSeq(DigestParts(r)) \in Seq(M)
    BY <1>4, FlattenType
<1> QED BY <1>3, <1>4, <1>5 DEF M

\* What r tells is the beginning of what t tells.
Tells(r, t) == Begins(Digest(r), Digest(t))

\* A longer row tells what the shorter one tells, and more.
LEMMA LongerTells ==
    ASSUME NEW s, NEW r, IsRow(s, r), NEW t, IsRow(s, t), Len(r.ids) <= Len(t.ids),
           \A i \in 1..Len(r.ids) : t.ids[i] = r.ids[i]
    PROVE  Tells(r, t)
<1> DEFINE a == DigestParts(r)
           b == DigestParts(t)
           m == Len(r.ids)
<1>1. /\ a \in Seq(Seq(Digested)) /\ b \in Seq(Seq(Digested)) /\ Len(a) = m /\ Len(b) = Len(t.ids)
      /\ Digest(r) = FlattenSeq(a) /\ Digest(t) = FlattenSeq(b)
    BY DigestIs
<1>2. m \in Nat /\ Len(t.ids) \in Nat /\ m <= Len(t.ids)
    BY RowIs
<1>3. ASSUME NEW i \in 1..m PROVE b[i] = a[i]
    <2>1. i \in 1..Len(t.ids) /\ i \in 1..Len(r.ids)
        BY <1>2
    <2>2. t.ids[i] = r.ids[i]
        BY <2>1
    <2>3. i > 1 => t.ids[i - 1] = r.ids[i - 1]
        BY <1>2
    <2>4. DigestAt(t.ids, i) = DigestAt(r.ids, i)
        BY <2>2, <2>3, Zenon DEF DigestAt
    <2> QED BY <2>1, <2>4 DEF DigestParts
<1> HIDE DEF a, b
<1>4. Begins(a, b)
    BY <1>1, <1>2, <1>3 DEF Begins
<1> QED BY <1>1, <1>4, FlattenBegins DEF Tells

\* Summarising changes nothing in what is told.
LEMMA KeepsTells ==
    ASSUME NEW s, NEW r, IsRow(s, r), NEW t, IsRow(s, t), Keeps(r, t)
    PROVE  Digest(t) = Digest(r)
<1> DEFINE n == Len(r.ids)
<1>1. n \in Nat /\ Len(t.ids) = n
    BY RowIs DEF Keeps
<1>2. \A i \in 1..n : /\ ~IsMemory(r.ids[i]) => t.ids[i] = r.ids[i]
                      /\ IsMemory(t.ids[i]) <=> IsMemory(r.ids[i])
                      /\ IsMemory(r.ids[i]) => t.ids[i].query = r.ids[i].query
    BY DEF Keeps
<1>3. ASSUME NEW i \in 1..n PROVE DigestAt(t.ids, i) = DigestAt(r.ids, i)
    <2>1. i > 1 => (IsMemory(t.ids[i - 1]) <=> IsMemory(r.ids[i - 1]))
        BY <1>1, <1>2
    <2>2. /\ ~IsMemory(r.ids[i]) => t.ids[i] = r.ids[i]
          /\ IsMemory(t.ids[i]) <=> IsMemory(r.ids[i])
          /\ IsMemory(r.ids[i]) => t.ids[i].query = r.ids[i].query
        BY <1>2
    <2> QED BY <2>1, <2>2, Zenon DEF DigestAt
<1>4. DigestParts(t) = DigestParts(r)
    BY <1>1, <1>3, Zenon DEF DigestParts
<1> QED BY <1>4, DigestIs

LEMMA AnsweredTells ==
    ASSUME NEW r, Sound(setting, r), NotForced(r), Complete(r), NEW q \in Query,
           NEW found \in BOOLEAN
    PROVE  Tells(r, Answered(r, q, found))
<1> DEFINE d == SummarizePreviousResults(r)
           w == Result(q, found)
           z == 0
           t == Extend(d, w, z)
<1>1. t = Answered(r, q, found) /\ z \in {0, 1}
    BY DEF Answered
<1>2. IsRow(setting, r) /\ IsRow(setting, d) /\ Keeps(r, d)
    BY SummarizeSound DEF Sound
<1>3. w \in Seq(Token) /\ Len(w) \in Nat
    BY ResultIs, LenProperties DEF IsPair
<1> HIDE DEF d, w, z
<1>4. IsRow(setting, t) /\ Extends(d, t, w, z)
    BY <1>1, <1>2, <1>3, ExtendIs
<1> HIDE DEF t
<1>5. Len(d.ids) \in Nat /\ Len(d.ids) <= Len(t.ids) /\ \A i \in 1..Len(d.ids) : t.ids[i] = d.ids[i]
    BY <1>2, <1>3, <1>4, RowIs DEF Extends, SameUpTo
<1>6. Tells(d, t)
    BY <1>2, <1>4, <1>5, LongerTells
<1>7. Digest(d) = Digest(r)
    BY <1>2, KeepsTells
<1> QED BY <1>1, <1>6, <1>7 DEF Tells

\* What becomes of a row in a turn: it tells more, or is cut to its full length.
Goes(r, t) == Tells(r, t) \/ (Len(t.ids) = setting.length /\ Tells(t, r))

LEMMA CheckTells ==
    ASSUME setting \in Setting, NEW r, NEW x, Sound(setting, x), x.given <= setting.length,
           Tells(r, x), NEW stays \in BOOLEAN
    PROVE  Goes(r, CheckLength(x, stays))
<1> DEFINE t == CheckLength(x, stays)
<1>1. Sound(setting, t) /\ IsCut(x, t)
    BY CheckIs
<1> HIDE DEF t
<1>2. IsRow(setting, x) /\ IsRow(setting, t)
    BY <1>1 DEF Sound
<1>3. Len(x.ids) \in Nat /\ Len(t.ids) \in Nat /\ setting.length \in Nat
    BY <1>2, RowIs, SettingIs
<1>4. \A i \in 1..Len(t.ids) : t.ids[i] = x.ids[i]
    BY <1>1 DEF IsCut, SameUpTo
<1>5. CASE Len(x.ids) <= setting.length
    <2>1. Len(t.ids) = Len(x.ids)
        BY <1>1, <1>5 DEF IsCut
    <2>2. Tells(x, t)
        BY <1>2, <1>3, <1>4, <2>1, LongerTells
    <2> QED BY <2>2, BeginsOn DEF Tells, Goes, t
<1>6. CASE ~(Len(x.ids) <= setting.length)
    <2>1. Len(t.ids) = setting.length /\ Len(t.ids) <= Len(x.ids)
        BY <1>1, <1>3, <1>6 DEF IsCut
    <2>2. Tells(t, x)
        <3>1. \A i \in 1..Len(t.ids) : x.ids[i] = t.ids[i]
            BY <1>4
        <3> QED BY <1>2, <2>1, <3>1, LongerTells
    <2>3. Tells(r, t) \/ Tells(t, r)
        BY <2>2, BeginsEither DEF Tells
    <2> QED BY <2>1, <2>3 DEF Goes, t
<1> QED BY <1>5, <1>6

\* A row tells itself.
LEMMA SameTells ==
    ASSUME NEW s, NEW r, IsRow(s, r)
    PROVE  Tells(r, r)
<1>1. Len(r.ids) \in Nat
    BY RowIs
<1> QED BY <1>1, LongerTells

\* With text or a result at its end.
LEMMA ExtendTells ==
    ASSUME NEW s, NEW r, IsRow(s, r), NEW w \in Seq(Token), NEW bit \in {0, 1}
    PROVE  Tells(r, Extend(r, w, bit))
<1> DEFINE t == Extend(r, w, bit)
<1>1. IsRow(s, t) /\ Extends(r, t, w, bit) /\ Len(w) \in Nat /\ Len(r.ids) \in Nat
    BY ExtendIs, RowIs, LenProperties
<1> HIDE DEF t
<1>2. Len(r.ids) <= Len(t.ids) /\ \A i \in 1..Len(r.ids) : t.ids[i] = r.ids[i]
    BY <1>1 DEF Extends, SameUpTo
<1>3. Tells(r, t)
    BY <1>1, <1>2, LongerTells
<1> QED BY <1>3 DEF t

LEMMA TurnTells ==
    ASSUME IndInv, Turn, NEW i \in 1..Len(rows)
    PROVE  Goes(rows[i], rows'[i])
<1> DEFINE n == Len(rows)
           s == setting
           r == rows[i]
           t == rows'[i]
<1>1. pc = "turn" /\ ActiveRows # {} /\ s \in Setting
    BY DEF Turn, Generates, IndInv
<1>2. /\ n \in Nat /\ DOMAIN rows = 1..n /\ ActiveRows = {k \in 1..n : rows[k].active}
      /\ RowIn(s, step, pc, refining, results, r)
    BY BatchIs
<1>3. Sound(s, r) /\ InTurn(s, step, r) /\ IsRow(s, r)
    BY <1>1, <1>2 DEF RowIn, Sound
<1>4. MaxTokens \in Nat \ {0}
    BY <1>1, MaxTokensIs
<1>5. PICK said \in [ActiveRows -> Output(MaxTokens)] :
        \E found \in [{k \in ActiveRows : Calls(said[k])} -> BOOLEAN] :
            rows' = [k \in DOMAIN rows |->
                IF k \notin ActiveRows THEN rows[k]
                ELSE IF k \in {j \in ActiveRows : Calls(said[j])}
                     THEN CheckLength(Answered(Extend(rows[k], said[k], 1), LastQuery(said[k]),
                                               found[k]), TRUE)
                     ELSE CheckLength(Extend(rows[k], said[k], 1), FALSE)]
    BY Zenon DEF Turn
<1>6. PICK found \in [{k \in ActiveRows : Calls(said[k])} -> BOOLEAN] :
            t = IF i \notin ActiveRows THEN r
                ELSE IF i \in {k \in ActiveRows : Calls(said[k])}
                     THEN CheckLength(Answered(Extend(r, said[i], 1), LastQuery(said[i]),
                                               found[i]), TRUE)
                     ELSE CheckLength(Extend(r, said[i], 1), FALSE)
    BY <1>2, <1>5
<1>7. CASE i \notin ActiveRows
    <2>1. t = r
        BY <1>6, <1>7
    <2>2. Tells(r, r)
        BY <1>3, SameTells
    <2> QED BY <2>1, <2>2 DEF Goes
<1>8. CASE i \in ActiveRows
    <2> DEFINE o == said[i]
               b == 1
               x == Extend(r, o, b)
               q == LastQuery(o)
               f == found[i]
               a == Answered(x, q, f)
               on == TRUE
               off == FALSE
    <2>1. r.active /\ SaidOk(o) /\ b \in {0, 1} /\ on \in BOOLEAN /\ off \in BOOLEAN
        BY <1>2, <1>4, <1>8, SaidIs
    <2>2. Spoken(s, x) /\ Follows(r, x) /\ (Calls(o) => q \in Query /\ Calling(x, q))
        <3> HIDE DEF r, o
        <3> QED BY <1>3, <2>1, TurnSays DEF b
    <2>3. x.given <= setting.length
        <3> DEFINE p == "turn"
        <3>1. p \in {"turn", "collect"} /\ RowIn(s, step, p, refining, results, r) /\ s.length \in Nat
            BY <1>1, <1>2, SettingIs
        <3> HIDE DEF p
        <3>2. r.given <= s.length
            BY <3>1, RowGiven
        <3> QED BY <2>2, <3>2 DEF Follows, SameUpTo
    <2>4. Calls(o) => t = CheckLength(a, on) /\ f \in BOOLEAN
        BY <1>6, <1>8
    <2>5. ~Calls(o) => t = CheckLength(x, off)
        BY <1>6, <1>8
    <2> HIDE DEF r, o, b, q, f, on, off, t
    <2>6. Tells(r, x)
        BY <1>3, <2>1, ExtendTells DEF SaidOk
    <2> HIDE DEF x
    <2>7. Sound(setting, x) /\ NotForced(x) /\ Complete(x)
        BY <2>2 DEF Spoken
    <2>8. CASE Calls(o)
        <3>1. Sound(setting, a) /\ a.given = x.given
            BY <2>2, <2>4, <2>7, <2>8, AnsweredIs
        <3>2. Tells(x, a)
            BY <2>2, <2>4, <2>7, <2>8, AnsweredTells
        <3> HIDE DEF a
        <3>3. Tells(r, a)
            BY <2>6, <3>2, BeginsOn DEF Tells
        <3> QED BY <1>1, <2>1, <2>3, <2>4, <2>8, <3>1, <3>3, CheckTells DEF r, t
    <2>9. CASE ~Calls(o)
        BY <1>1, <2>1, <2>3, <2>5, <2>6, <2>7, <2>9, CheckTells DEF r, t
    <2> QED BY <2>8, <2>9
<1> QED BY <1>7, <1>8

LEMMA PrefixTurnTells ==
    ASSUME IndInv, PrefixTurn, NEW i \in 1..Len(rows)
    PROVE  Goes(rows[i], rows'[i])
<1> DEFINE n == Len(rows)
           s == setting
           r == rows[i]
           t == rows'[i]
           calling == {k \in 1..n : PrefixCalls(rows[k])}
           q == LastQuery(r.ids)
<1>1. pc = "turn" /\ refining /\ step = 0 /\ s \in Setting /\ s.length \in Nat
    BY SettingIs DEF PrefixTurn, IndInv
<1>2. n \in Nat /\ DOMAIN rows = 1..n /\ RowIn(s, step, pc, refining, results, r)
    BY BatchIs
<1>3. PICK found \in [calling -> BOOLEAN] :
            rows' = [k \in 1..n |->
                IF k \in calling
                THEN CheckLength(Answered(rows[k], LastQuery(rows[k].ids), found[k]), TRUE)
                ELSE CheckLength(rows[k], FALSE)]
    BY <1>2 DEF PrefixTurn
<1> HIDE DEF calling
<1> DEFINE f == found[i]
           a == Answered(r, q, f)
           on == TRUE
           off == FALSE
<1>4. i \in calling => t = CheckLength(a, on) /\ f \in BOOLEAN
    BY <1>3
<1>5. i \notin calling => t = CheckLength(r, off)
    BY <1>3
<1>6. /\ Sound(s, r) /\ InTurn(s, 0, r) /\ r.given # 0
      /\ \E m \in 1..Len(results[r.prompt]) : IsChild(s, r, results[r.prompt][m])
    BY <1>1, <1>2 DEF RowIn
<1>7. r.given <= setting.length
    <2> DEFINE p == "turn"
    <2>1. p \in {"turn", "collect"} /\ RowIn(s, step, p, refining, results, r)
        BY <1>1, <1>2
    <2> HIDE DEF p
    <2> QED BY <1>1, <2>1, RowGiven
<1>8. on \in BOOLEAN /\ off \in BOOLEAN
    OBVIOUS
<1> HIDE DEF r, t, q, f, on, off
<1>9. Spoken(s, r) /\ q \in Query /\ Calling(r, q)
    BY <1>6, PrefixSays DEF q
<1>10. Sound(setting, r) /\ NotForced(r) /\ Complete(r) /\ Tells(r, r)
    BY <1>9, SameTells DEF Spoken, Sound
<1>11. CASE i \in calling
    <2>1. Sound(setting, a) /\ a.given = r.given
        BY <1>4, <1>9, <1>10, <1>11, AnsweredIs
    <2>2. Tells(r, a)
        BY <1>4, <1>9, <1>10, <1>11, AnsweredTells
    <2> HIDE DEF a
    <2> QED BY <1>1, <1>4, <1>7, <1>8, <1>11, <2>1, <2>2, CheckTells DEF r, t
<1>12. CASE i \notin calling
    BY <1>1, <1>5, <1>7, <1>8, <1>10, <1>12, CheckTells DEF r, t
<1> QED BY <1>11, <1>12

LEMMA ForceAnswersTells ==
    ASSUME IndInv, ForceAnswers, NEW i \in 1..Len(rows)
    PROVE  Goes(rows[i], rows'[i])
<1> DEFINE n == Len(rows)
           s == setting
           r == rows[i]
           t == rows'[i]
           Texts == {<<Verdict, CloseAnswer("policy")>>, <<Verdict>>}
           Answer(o) == IF CloseAnswer("policy") \in Range(o) THEN o
                      ELSE Append(o, CloseAnswer("closing"))
<1>1. n \in Nat /\ DOMAIN rows = 1..n /\ RowIn(s, step, pc, refining, results, r)
    BY BatchIs
<1>2. Sound(s, r) /\ IsRow(s, r)
    BY <1>1 DEF RowIn, Sound
<1>3. PICK said : /\ \A k \in Forced : said[k] \in Texts
                  /\ rows' = [k \in DOMAIN rows |->
                        IF k \notin Forced THEN rows[k]
                        ELSE Extend(Extend(rows[k], FinalAnswerPrefix, 0), Answer(said[k]), 1)]
    <2> DEFINE primed == [k \in Forced |-> Extend(rows[k], FinalAnswerPrefix, 0)]
               m == Max({1, Min({MaxAnswer, Max({Remaining(primed[k]) : k \in Forced})})})
               answers == {o \in Texts : Len(o) <= m}
    <2>1. PICK said \in [Forced -> answers] :
              rows' = [k \in DOMAIN rows |->
                IF k \notin Forced THEN rows[k] ELSE Extend(primed[k], Answer(said[k]), 1)]
        BY Zenon DEF ForceAnswers
    <2>2. \A k \in Forced : said[k] \in Texts
        <3> HIDE DEF Texts, m
        <3> QED BY <2>1
    <2>3. \A k \in Forced : primed[k] = Extend(rows[k], FinalAnswerPrefix, 0)
        OBVIOUS
    <2> HIDE DEF primed, Texts, Answer
    <2> QED BY <2>1, <2>2, <2>3
<1>4. CASE i \notin Forced
    <2>1. t = r
        BY <1>1, <1>3, <1>4
    <2>2. Tells(r, r)
        BY <1>2, SameTells
    <2> QED BY <2>1, <2>2 DEF Goes
<1>5. CASE i \in Forced
    <2> DEFINE o == said[i]
               w == Answer(o)
               z == 0
               b == 1
               f == FinalAnswerPrefix
               x == Extend(r, f, z)
               y == Extend(x, w, b)
    <2>1. t = y /\ z \in {0, 1} /\ b \in {0, 1}
        BY <1>1, <1>3, <1>5
    <2>2. w \in Seq(Token)
        <3>1. o \in Texts
            BY <1>3, <1>5
        <3> HIDE DEF o
        <3> QED BY <3>1, AnswerIs
    <2>3. f \in Seq(Token)
        BY PrefixIs
    <2> HIDE DEF r, t, o, w, z, b, f
    <2>4. IsRow(s, x) /\ Tells(r, x)
        BY <1>2, <2>1, <2>3, ExtendIs, ExtendTells
    <2> HIDE DEF x
    <2>5. Tells(x, y)
        BY <2>1, <2>2, <2>4, ExtendTells
    <2> HIDE DEF y
    <2>6. Tells(r, y)
        BY <2>4, <2>5, BeginsOn DEF Tells
    <2> QED BY <2>1, <2>6 DEF Goes, r, t
<1> QED BY <1>4, <1>5

-------------------------------------------------------------------------------
(* Theorems                                                                    *)

LEMMA AllSound ==
    ASSUME IndInv, NEW row \in AllRows
    PROVE  Sound(setting, row) /\ DOMAIN row.ids = 1..Len(row.ids) /\ DOMAIN row.mask = 1..Len(row.ids)
<1>1. Sound(setting, row)
    <2>1. CASE row \in Range(rows)
        <3>1. PICK i \in 1..Len(rows) : row = rows[i]
            BY <2>1, BatchIs DEF Range
        <3> QED BY <3>1, BatchIs DEF RowIn
    <2>2. CASE \E p \in Prompt : row \in Range(results[p])
        <3>1. PICK p \in Prompt : row \in Range(results[p])
            BY <2>2
        <3>2. results[p] \in Seq(RowSet(setting))
            BY DEF IndInv, ResultsIn, Prompt
        <3>3. PICK k \in 1..Len(results[p]) : row = results[p][k]
            BY <3>1, <3>2, LenProperties DEF Range
        <3> QED BY <3>3 DEF IndInv, ResultsIn, ResponseIn, Prompt
    <2> QED BY <2>1, <2>2 DEF AllRows
<1>2. IsRow(setting, row)
    BY <1>1 DEF Sound
<1>3. row.ids \in Seq(Token) /\ row.mask \in Seq({0, 1}) /\ Len(row.mask) = Len(row.ids)
    BY <1>2, RowIs
<1> QED BY <1>1, <1>3, LenProperties

\* A finished response is one of a prompt's list.
LEMMA ResponseIsIn ==
    ASSUME IndInv, NEW p \in Prompt
    PROVE  /\ Len(results[p]) \in Nat /\ DOMAIN results[p] = 1..Len(results[p])
           /\ \A k \in 1..Len(results[p]) : ResponseIn(setting, results[p], p, k)
           /\ \A row \in Range(results[p]) : \E k \in 1..Len(results[p]) : row = results[p][k]
<1>1. results[p] \in Seq(RowSet(setting))
    BY DEF IndInv, ResultsIn, Prompt
<1>2. Len(results[p]) \in Nat /\ DOMAIN results[p] = 1..Len(results[p])
    BY <1>1, LenProperties
<1> QED BY <1>2 DEF IndInv, ResultsIn, Prompt, Range

\* For every batch and configuration ToolAssumption admits: each row has a mask bit for every
\* token at all times, and a finished response between one and response_length of them.
THEOREM ToolTypeCorrect == Spec => []TypeOK
<1>1. IndInv => TypeOK
    <2> SUFFICES ASSUME IndInv PROVE TypeOK
        OBVIOUS
    <2>1. /\ setting \in Setting /\ pc \in {"turn", "collect", "done", "raised"}
          /\ refining \in BOOLEAN /\ step \in 0..setting.turns
        BY DEF IndInv
    <2>2. ASSUME NEW row \in AllRows
          PROVE  /\ row.prompt \in Prompt /\ Len(row.ids) = Len(row.mask)
                 /\ \A i \in DOMAIN row.mask : row.mask[i] \in {0, 1}
        <3>1. Sound(setting, row) /\ DOMAIN row.mask = 1..Len(row.ids)
            BY AllSound
        <3> QED BY <3>1, RowIs DEF Sound, Prompt
    <2>3. ASSUME NEW p \in Prompt, NEW row \in Range(results[p])
          PROVE  Len(row.ids) \in 1..setting.length
        <3>1. PICK k \in 1..Len(results[p]) : row = results[p][k]
            BY ResponseIsIn
        <3>2. ResponseIn(setting, results[p], p, k)
            BY ResponseIsIn
        <3>3. Len(row.ids) <= setting.length /\ Len(row.ids) # 0 /\ IsRow(setting, row)
            BY <3>1, <3>2 DEF ResponseIn, Done, Sound
        <3>4. Len(row.ids) \in Nat /\ setting.length \in Nat
            BY <2>1, <3>3, RowIs, SettingIs
        <3> QED BY <3>3, <3>4
    <2> QED BY <2>1, <2>2, <2>3 DEF TypeOK
<1> QED BY <1>1, SpecInv, PTL

\* However often a row is summarised, cut or refined, every result and summary that is masked
\* out stands behind the search it answers (_extract_last_search_query).
THEOREM SearchesAnswered == Spec => []MemoryFollowsItsSearch
<1>1. IndInv => MemoryFollowsItsSearch
    <2> SUFFICES ASSUME IndInv, NEW row \in AllRows, NEW i \in DOMAIN row.ids,
                        row.ids[i].src \in {"result", "summary"}, row.mask[i] = 0
                 PROVE  row.ids[Max(Opens(SubSeq(row.ids, 1, i - 1)))].query = row.ids[i].query
        BY DEF MemoryFollowsItsSearch
    <2> DEFINE ids == row.ids
    <2>1. /\ Sound(setting, row) /\ i \in 1..Len(ids) /\ ids \in Seq(Token) /\ ids[i] \in Token
          /\ Len(ids) \in Nat
        BY AllSound, RowIs DEF Sound
    <2>2. HeadAt(row, i) \/ TailAt(row, i)
        BY <2>1, TokenKinds DEF IsMemory, HeadAt, TailAt
    <2>3. \E o \in 1..(i - 1) : LastOpen(ids, i, o) /\ ids[o].query = ids[i].query
        <3>1. CASE HeadAt(row, i)
            BY <2>1, <3>1 DEF Sound, PlaceOk, HeadOk
        <3>2. CASE TailAt(row, i)
            <4> DEFINE h == i - 1
            <4>1. i > 1 /\ HeadAt(row, h) /\ ids[h].query = ids[i].query
                BY <2>1, <3>2 DEF Sound, PlaceOk, TailOk
            <4>2. h \in 1..Len(ids) /\ h \in Nat /\ h = i - 1
                BY <2>1, <4>1
            <4>3. PICK o \in 1..(h - 1) : LastOpen(ids, h, o) /\ ids[o].query = ids[h].query
                BY <2>1, <4>1, <4>2 DEF Sound, PlaceOk, HeadOk
            <4>4. ~IsOpen(ids[h])
                BY <4>1 DEF HeadAt, IsHead, IsOpen
            <4>5. \A k \in (o + 1)..h : k \in (o + 1)..(h - 1) \/ k = h
                BY <4>2, <4>3
            <4>6. o \in 1..(i - 1) /\ o \in 1..h
                BY <4>2, <4>3
            <4> HIDE DEF h
            <4>7. LastOpen(ids, i, o)
                BY <4>2, <4>3, <4>4, <4>5, <4>6 DEF LastOpen
            <4> QED BY <4>1, <4>3, <4>6, <4>7
        <3> QED BY <2>2, <3>1, <3>2
    <2>4. PICK o \in 1..(i - 1) : LastOpen(ids, i, o) /\ ids[o].query = ids[i].query
        BY <2>3
    <2>5. i \in Nat /\ i <= Len(ids) + 1
        BY <2>1
    <2> HIDE DEF ids
    <2>6. Max(Opens(SubSeq(ids, 1, i - 1))) = o
        BY <2>1, <2>4, <2>5, LastQueryIs
    <2> QED BY <2>4, <2>6 DEF ids
<1> QED BY <1>1, SpecInv, PTL

\* With whatever budget of turns and tokens: a finished response that breaks off in retrieved
\* text is full but for AnswerRoom tokens, and one that breaks off in the prefix of a forced
\* answer is full.
THEOREM BreaksOffFull == Spec => []BreaksOffOnlyWhenFull
<1>1. IndInv => BreaksOffOnlyWhenFull
    <2> SUFFICES ASSUME IndInv, NEW p \in Prompt, NEW row \in Range(results[p])
                 PROVE  LET last == row.ids[Len(row.ids)]
                        IN  /\ last.src \in {"result", "summary"} /\ row.mask[Len(row.ids)] = 0
                                   => Len(row.ids) >= setting.length - AnswerRoom
                            /\ last.src = "prefix" => Len(row.ids) = setting.length
        BY DEF BreaksOffOnlyWhenFull
    <2>1. PICK k \in 1..Len(results[p]) : row = results[p][k]
        BY ResponseIsIn
    <2>2. ResponseIn(setting, results[p], p, k)
        BY ResponseIsIn
    <2>3. Done(setting, row) /\ Len(row.ids) <= setting.length /\ IsRow(setting, row)
        BY <2>1, <2>2 DEF ResponseIn, Sound
    <2>4. Len(row.ids) \in Nat /\ setting.length \in Nat
        BY <2>3, RowIs, SettingIs DEF IndInv
    <2>5. row.ids[Len(row.ids)].src = "prefix" => Len(row.ids) = setting.length
        BY <2>3, <2>4 DEF Done
    <2> QED BY <2>3, <2>5 DEF Done, IsMemory
<1> QED BY <1>1, SpecInv, PTL

\* Over any number of rounds: a refined response has, up to its refined search, the tokens of
\* an earlier finished response of its prompt, that search in the place of one of its.
THEOREM RefinedContinues == Spec => []RefinedContinuesParent
<1>1. IndInv => RefinedContinuesParent
    <2> SUFFICES ASSUME IndInv, NEW p \in Prompt, NEW k \in DOMAIN results[p],
                        {i \in DOMAIN results[p][k].ids : results[p][k].ids[i].src = "refiner"} # {}
                 PROVE  LET row == results[p][k]
                            at == {i \in DOMAIN row.ids : row.ids[i].src = "refiner"}
                        IN  \E m \in 1..(k - 1) :
                                LET parent == results[p][m]
                                    s == Min(at)
                                IN  /\ parent.given = 0
                                    /\ s <= Len(parent.ids) /\ parent.ids[s].says = "<search>"
                                    /\ IsPrefix([SubSeq(row.ids, 1, row.given)
                                                    EXCEPT ![s] = parent.ids[s]], parent.ids)
                                    /\ \A i \in (s + 1)..row.given : row.ids[i].says # "<search>"
        BY Zenon DEF RefinedContinuesParent
    <2> DEFINE row == results[p][k]
               at == {i \in DOMAIN row.ids : row.ids[i].src = "refiner"}
               g == row.given
    <2>1. k \in 1..Len(results[p]) /\ ResponseIn(setting, results[p], p, k) /\ Len(results[p]) \in Nat
        BY ResponseIsIn
    <2>2. Sound(setting, row)
        BY <2>1 DEF ResponseIn
    <2>3. /\ row.ids \in Seq(Token) /\ DOMAIN row.ids = 1..Len(row.ids) /\ Len(row.ids) \in Nat
          /\ g \in Nat /\ g <= Len(row.ids)
        BY <2>2, RowIs, LenProperties DEF Sound
    <2>4. at \subseteq 1..g
        <3> SUFFICES ASSUME NEW i \in at PROVE i \in 1..g
            OBVIOUS
        <3>1. i \in 1..Len(row.ids) /\ row.ids[i].src = "refiner"
            BY <2>3
        <3>2. i <= g
            BY <2>2, <3>1 DEF Sound, PlaceOk, EndOk
        <3> QED BY <2>3, <3>1, <3>2
    <2>5. g # 0
        <3>1. PICK i \in at : TRUE
            OBVIOUS
        <3>2. i \in 1..g
            BY <2>4, <3>1
        <3> QED BY <3>2
    <2>6. PICK m \in 1..(k - 1) : IsChild(setting, row, results[p][m])
        BY <2>1, <2>5 DEF ResponseIn
    <2> DEFINE parent == results[p][m]
    <2>7. PICK o \in 1..g : RefinedAt(row, parent, o)
        BY <2>6 DEF IsChild
    <2>8. /\ parent.given = 0 /\ g <= Len(parent.ids) /\ row.ids[o].src = "refiner"
          /\ parent.ids[o].says = "<search>"
          /\ \A i \in 1..g : i # o => row.ids[i] = parent.ids[i] /\ row.ids[i].src # "refiner"
          /\ \A i \in (o + 1)..g : row.ids[i].says # "<search>"
        BY <2>6, <2>7 DEF IsChild, RefinedAt, IsOpen
    <2>9. parent.ids \in Seq(Token) /\ Len(parent.ids) \in Nat
        <3>1. m \in 1..Len(results[p])
            BY <2>1
        <3>2. IsRow(setting, parent)
            BY <3>1, ResponseIsIn DEF ResponseIn, Sound
        <3> QED BY <3>2, RowIs
    <2> HIDE DEF row, parent
    <2>10. at = {o}
        <3>1. o \in at
            BY <2>3, <2>7, <2>8
        <3>2. \A i \in at : i = o
            BY <2>4, <2>8
        <3> HIDE DEF at
        <3> QED BY <3>1, <3>2
    <2> HIDE DEF at
    <2>11. Min(at) = o
        BY <2>7, <2>10 DEF Min
    <2> DEFINE x == SubSeq(row.ids, 1, g)
               y == [x EXCEPT ![o] = parent.ids[o]]
               w == SubSeq(parent.ids, 1, g)
    <2> HIDE DEF g
    <2>12. x \in Seq(Token) /\ Len(x) = g /\ \A i \in 1..g : x[i] = row.ids[i]
        <3> DEFINE z == 0
        <3>1. z \in Nat /\ z <= g /\ g - z = g /\ z + 1 = 1 /\ \A i \in 1..g : z + i = i
            BY <2>3
        <3> HIDE DEF z, x
        <3>2. /\ SubSeq(row.ids, z + 1, g) \in Seq(Token) /\ Len(SubSeq(row.ids, z + 1, g)) = g - z
              /\ \A j \in 1..(g - z) : SubSeq(row.ids, z + 1, g)[j] = row.ids[z + j]
            BY <2>3, <3>1, SliceIs
        <3> QED BY <3>1, <3>2 DEF x
    <2>13. w \in Seq(Token) /\ Len(w) = g /\ \A i \in 1..g : w[i] = parent.ids[i]
        <3> DEFINE z == 0
        <3>1. z \in Nat /\ z <= g /\ g - z = g /\ z + 1 = 1 /\ \A i \in 1..g : z + i = i
            BY <2>3
        <3> HIDE DEF z, w
        <3>2. /\ SubSeq(parent.ids, z + 1, g) \in Seq(Token)
              /\ Len(SubSeq(parent.ids, z + 1, g)) = g - z
              /\ \A j \in 1..(g - z) : SubSeq(parent.ids, z + 1, g)[j] = parent.ids[z + j]
            BY <2>3, <2>8, <2>9, <3>1, SliceIs
        <3> QED BY <3>1, <3>2 DEF w
    <2>14. o \in 1..g /\ o \in 1..Len(parent.ids) /\ o <= Len(parent.ids)
        BY <2>3, <2>7, <2>8, <2>9 DEF g
    <2>15. parent.ids[o] \in Token
        BY <2>9, <2>14, ElementOfSeq
    <2> HIDE DEF x, w
    <2>16. /\ y \in Seq(Token) /\ Len(y) = g
           /\ \A i \in 1..g : y[i] = IF i = o THEN parent.ids[o] ELSE x[i]
        BY <2>12, <2>14, <2>15, ExceptSeq
    <2> HIDE DEF y
    <2>17. \A i \in 1..g : y[i] = w[i]
        BY <2>8, <2>12, <2>13, <2>16 DEF g
    <2>18. y = w
        BY <2>13, <2>16, <2>17, SeqEqual
    <2>19. SubSeq(y, 1, Len(y)) = y
        BY <2>16, SubSeqFull
    <2>20. IsPrefix(y, parent.ids)
        <3>1. Len(y) <= Len(parent.ids)
            BY <2>8, <2>16 DEF g
        <3> QED BY <2>16, <2>18, <2>19, <3>1 DEF IsPrefix, w
    <2> QED BY <2>6, <2>8, <2>11, <2>14, <2>20 DEF y, x, g, row, parent, at
<1> QED BY <1>1, SpecInv, PTL

\* For every interleaving of turns, summaries, cuts and refinements: the loss mask of a
\* finished response is one on what was generated and zero on what was not, but within a
\* refined prefix whose parent quotes a result or does not end in generated text and padding.
THEOREM MaskTells == Spec => []MaskTellsWhoWrote
<1>1. IndInv => MaskTellsWhoWrote
    <2> SUFFICES ASSUME IndInv, NEW p \in Prompt, NEW k \in DOMAIN results[p],
                        NEW i \in DOMAIN results[p][k].ids, WrongBit(results[p][k], i)
                 PROVE  /\ results[p][k].mask[i] = 1 /\ i <= results[p][k].given
                        /\ \E m \in 1..(k - 1) :
                            LET parent == results[p][m]
                            IN  \/ \E j \in DOMAIN parent.ids : parent.ids[j].says = "quote"
                                \/ ~Generated(Last(parent.ids))
                                \/ Len(parent.ids) = setting.length
        BY Zenon DEF MaskTellsWhoWrote
    <2> DEFINE row == results[p][k]
    <2>1. k \in 1..Len(results[p]) /\ ResponseIn(setting, results[p], p, k) /\ Len(results[p]) \in Nat
        BY ResponseIsIn
    <2>2. Sound(setting, row)
        BY <2>1 DEF ResponseIn
    <2>3. i \in 1..Len(row.ids) /\ row.mask[i] \in {0, 1} /\ row.given \in Nat
        BY <2>2, RowIs, LenProperties DEF Sound
    <2>4. ToldOk(row, i)
        BY <2>2, <2>3 DEF Sound, PlaceOk
    <2>5. row.mask[i] = 1 /\ i <= row.given
        <3>1. row.mask[i] = 1 /\ ~Generated(row.ids[i])
            BY <2>3, <2>4 DEF WrongBit, ToldOk
        <3>2. ~(i > row.given)
            BY <2>4, <3>1 DEF ToldOk
        <3> QED BY <2>3, <3>1, <3>2
    <2>6. PICK m \in 1..(k - 1) : IsChild(setting, row, results[p][m])
        BY <2>1, <2>3, <2>5 DEF ResponseIn
    <2> DEFINE parent == results[p][m]
    <2>7. Exempt(setting, parent)
        <3>1. i \in 1..row.given
            BY <2>3, <2>5
        <3> QED BY <2>6, <3>1 DEF IsChild
    <2>8. DOMAIN parent.ids = 1..Len(parent.ids)
        <3>1. m \in 1..Len(results[p])
            BY <2>1
        <3>2. IsRow(setting, parent)
            BY <3>1, ResponseIsIn DEF ResponseIn, Sound
        <3> QED BY <3>2, RowIs, LenProperties
    <2>9. \/ \E j \in DOMAIN parent.ids : parent.ids[j].says = "quote"
          \/ ~Generated(Last(parent.ids))
          \/ Len(parent.ids) = setting.length
        <3> HIDE DEF parent
        <3> QED BY <2>7, <2>8 DEF Exempt, Last
    <2> QED BY <2>5, <2>6, <2>9
<1> QED BY <1>1, SpecInv, PTL

\* For every batch and configuration, and whatever the services answer: a step of the turn loop
\* and the forced answers leave what a row tells, its results and summaries reduced to what they
\* answer, a beginning of what it tells afterwards, or cut it at response_length.
THEOREM ContextsDigested == Spec => ContextsOnlyDigested
<1> DEFINE Going == step' = step + 1 \/ (pc = "turn" /\ pc' = "collect")
           Told(r, t) == \/ IsPrefix(Digest(r), Digest(t))
                         \/ Len(t.ids) = setting.length /\ IsPrefix(Digest(t), Digest(r))
<1>1. ASSUME IndInv, IndInv', [Next]_vars, Going, NEW i \in DOMAIN rows
      PROVE  Told(rows[i], rows'[i])
    <2>1. i \in 1..Len(rows) /\ IsRow(setting, rows[i])
        BY <1>1, BatchIs DEF RowIn, Sound
    <2>2. setting.turns \in Nat /\ step \in Nat
        BY <1>1, SettingIs DEF IndInv
    <2>3. Turn \/ PrefixTurn \/ NoneForced \/ ForceAnswers
        <3>1. \A res : NextRound(res) => step' = 0
            BY DEF NextRound
        <3>2. TurnRaises \/ EngineRefuses \/ CollectGreedy \/ CollectWithoutTruths
                => step' = step /\ pc' # "collect"
            BY DEF TurnRaises, EngineRefuses, CollectGreedy, CollectWithoutTruths
        <3>3. CollectAndRefine \/ CollectRefined => step' = 0 /\ pc = "collect"
            BY <3>1 DEF CollectAndRefine, CollectRefined
        <3>4. UNCHANGED vars => step' = step /\ pc' = pc
            BY DEF vars
        <3> QED BY <1>1, <2>2, <3>2, <3>3, <3>4 DEF Next
    <2>4. Goes(rows[i], rows'[i])
        <3>1. CASE Turn
            BY <1>1, <2>1, <3>1, TurnTells
        <3>2. CASE PrefixTurn
            BY <1>1, <2>1, <3>2, PrefixTurnTells
        <3>3. CASE NoneForced
            <4>1. rows' = rows
                BY <3>3 DEF NoneForced
            <4> QED BY <2>1, <4>1, SameTells DEF Goes
        <3>4. CASE ForceAnswers
            BY <1>1, <2>1, <3>4, ForceAnswersTells
        <3> QED BY <2>3, <3>1, <3>2, <3>3, <3>4
    <2>5. IsRow(setting, rows'[i])
        <3>1. setting' = setting /\ DOMAIN rows' = DOMAIN rows
            BY <2>3 DEF Turn, PrefixTurn, NoneForced, ForceAnswers
        <3>2. (DOMAIN rows)' = 1..Len(rows') /\ \A k \in 1..Len(rows') : Sound(setting', rows'[k])
            BY <1>1, LenProperties DEF IndInv, RowsIn, RowIn
        <3>3. i \in 1..Len(rows')
            BY <1>1, <3>1, <3>2
        <3> QED BY <3>1, <3>2, <3>3 DEF Sound
    <2> DEFINE r == rows[i]
               t == rows'[i]
    <2>6. Digest(r) \in Seq(Digested) /\ Digest(t) \in Seq(Digested)
        BY <2>1, <2>5, DigestIs
    <2> HIDE DEF r, t
    <2>7. Goes(r, t)
        BY <2>4 DEF r, t
    <2>8. Told(r, t)
        BY <2>6, <2>7, BeginsIsPrefix DEF Goes, Tells
    <2> QED BY <2>8 DEF r, t
<1>2. IndInv /\ IndInv' /\ [Next]_vars =>
        [Going => \A i \in DOMAIN rows : Told(rows[i], rows'[i])]_vars
    BY <1>1
<1> HIDE DEF Going, Told
<1>3. Spec => [][Going => \A i \in DOMAIN rows : Told(rows[i], rows'[i])]_vars
    BY <1>2, SpecInv, PTL DEF Spec
<1> QED BY <1>3 DEF ContextsOnlyDigested, Going, Told
===============================================================================
