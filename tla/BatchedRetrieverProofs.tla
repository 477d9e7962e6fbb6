------------------------ MODULE BatchedRetrieverProofs ------------------------
(***************************************************************************)
(* Theorems about BatchedRetriever.tla, for every number of calls, every   *)
(* batch and pool size, and every ranking the index may return.            *)
(***************************************************************************)
EXTENDS BatchedRetriever, SequenceFacts, FiniteSetTheorems

USE RetrieverAssumption

Ask == [query : Query, top_n : 1..MaxTopN]
Outcome == {Absent, Pending, Raised} \cup {Result(DirectAnswer(a)) : a \in Ask}
WorkerAt == {"waiting", "collecting", "searching", "answering", "failing", "dead"}

LineTypes ==
    /\ ask \in [Request -> Ask]
    /\ client \in [Request -> {"idle", "waiting", "answered", "failed", "timed_out"}]
    /\ thread \in [Request -> {"none", "backlog", "starting", "blocked", "returned"}]
    /\ future \in [Request -> Outcome]
    /\ backlog \in Seq(Request)
    /\ starting \in Seq(Request)
    /\ queue \in Seq(Request)
    /\ batch \in Seq(Request)
    /\ worker \in WorkerAt

\* Where the requests are: a call stands in the backlog, with the thread that starts
\* it, in the queue, then in the batch, at one place, and its future is pending while
\* it has to come.
Distinct(s) == \A i, j \in DOMAIN s : s[i] = s[j] => i = j

Places ==
    /\ \A r \in Request : client[r] = "idle" => thread[r] = "none"
    /\ \A r \in Request : thread[r] \in {"none", "backlog"} => future[r] = Absent
    /\ \A r \in Request : thread[r] = "starting" =>
           future[r] = Pending /\ \E i \in DOMAIN starting : starting[i] = r
    /\ Distinct(backlog)
    /\ \A i \in DOMAIN backlog : thread[backlog[i]] = "backlog"
    /\ Distinct(starting)
    /\ \A i \in DOMAIN starting : thread[starting[i]] = "starting"
    /\ Distinct(queue)
    /\ \A i \in DOMAIN queue : future[queue[i]] = Pending /\ thread[queue[i]] = "blocked"
    /\ Distinct(batch)
    /\ \A i \in DOMAIN batch : future[batch[i]] # Absent /\ thread[batch[i]] \in {"blocked", "returned"}
    /\ \A i \in DOMAIN batch, j \in DOMAIN queue : batch[i] # queue[j]

BatchState ==
    /\ worker = "waiting" => batch = <<>>
    /\ worker \in {"collecting", "searching"} =>
           batch # <<>> /\ \A i \in DOMAIN batch : future[batch[i]] = Pending
    /\ worker \in {"answering", "failing"} => row \in 1..Len(batch)
    /\ worker = "answering" =>
           \A i \in DOMAIN batch : i >= row => future[batch[i]] = Pending

\* Every row of the batch's search is its request's query searched with one k
\* that is at least the request's own top_n.
HitsState ==
    worker = "answering" =>
        \E k \in 1..MaxTopN :
            /\ \A i \in DOMAIN batch : ask[batch[i]].top_n <= k
            /\ hits = [i \in DOMAIN batch |-> SearchIndex(ask[batch[i]].query, k)]

BatchInv == LineTypes /\ Places /\ BatchState /\ HitsState /\ OwnAnswer

-------------------------------------------------------------------------------
\* A search that returns more than a call wants gives it what its own would:
\* the first top_n of the first k columns are the first top_n.
LEMMA WiderSearchSameAnswer ==
    ASSUME NEW a \in Ask, NEW k \in 1..MaxTopN, a.top_n <= k
    PROVE  MaterializeResults(SearchIndex(a.query, k), a.top_n) = DirectAnswer(a)
<1> DEFINE columns == Ranking[a.query]  n == a.top_n
<1>1. columns \in Seq(Row \cup {NoRow}) /\ Len(columns) = MaxTopN
    BY DEF Ask
<1>2. n \in 1..MaxTopN
    BY DEF Ask
<1>3. SubSeq(SubSeq(columns, 1, k), 1, n) = SubSeq(columns, 1, n)
    <2>1. 1 \in 1..Len(columns) /\ k \in 1..Len(columns) /\ 1 \in 1..(k - 1 + 1) /\ n \in 1..(k - 1 + 1)
        BY <1>1, <1>2
    <2>2. SubSeq(SubSeq(columns, 1, k), 1, n) = SubSeq(columns, 1 + 1 - 1, 1 + n - 1)
        <3> HIDE DEF columns, n
        <3> QED BY <1>1, <2>1, SubSeqOfSubSeq
    <2>3. 1 + 1 - 1 = 1 /\ 1 + n - 1 = n
        BY <1>2
    <2> QED BY <2>2, <2>3
<1>4. SubSeq(SubSeq(columns, 1, n), 1, n) = SubSeq(columns, 1, n)
    <2>1. 1 \in 1..Len(columns) /\ n \in 1..Len(columns) /\ 1 \in 1..(n - 1 + 1) /\ n \in 1..(n - 1 + 1)
        BY <1>1, <1>2
    <2>2. SubSeq(SubSeq(columns, 1, n), 1, n) = SubSeq(columns, 1 + 1 - 1, 1 + n - 1)
        <3> HIDE DEF columns, n
        <3> QED BY <1>1, <2>1, SubSeqOfSubSeq
    <2>3. 1 + 1 - 1 = 1 /\ 1 + n - 1 = n
        BY <1>2
    <2> QED BY <2>2, <2>3
<1>5. Found(SearchIndex(a.query, k), n) = Found(SearchIndex(a.query, n), n)
    BY <1>3, <1>4 DEF Found, SearchIndex
<1> QED BY <1>5 DEF MaterializeResults, DirectAnswer

LEMMA BatchInit == Init => BatchInv
<1> SUFFICES ASSUME Init PROVE BatchInv
    OBVIOUS
<1>1. LineTypes
    BY DEF Init, LineTypes, Ask, Outcome, WorkerAt
<1>2. Places /\ BatchState /\ HitsState
    BY DEF Init, Places, BatchState, HitsState, Distinct
<1>3. OwnAnswer
    BY DEF Init, OwnAnswer, Absent
<1> QED BY <1>1, <1>2, <1>3 DEF BatchInv

-------------------------------------------------------------------------------
(* Sequences without repetition                                                *)

LEMMA DistinctAppend ==
    ASSUME NEW S, NEW s \in Seq(S), NEW e \in S,
           Distinct(s), \A i \in DOMAIN s : s[i] # e
    PROVE  Distinct(Append(s, e))
<1> DEFINE n == Len(s)
<1>1. /\ n \in Nat /\ DOMAIN s = 1..n
      /\ DOMAIN Append(s, e) = 1..(n + 1)
      /\ \A i \in 1..n : Append(s, e)[i] = s[i]
      /\ Append(s, e)[n + 1] = e
    BY AppendProperties
<1> HIDE DEF n
<1>2. ASSUME NEW i \in 1..(n + 1), NEW j \in 1..(n + 1), Append(s, e)[i] = Append(s, e)[j]
      PROVE  i = j
    <2>1. CASE i \in 1..n /\ j \in 1..n
        BY <1>1, <1>2, <2>1 DEF Distinct
    <2>2. CASE i = n + 1 /\ j \in 1..n
        BY <1>1, <1>2, <2>2
    <2>3. CASE i \in 1..n /\ j = n + 1
        BY <1>1, <1>2, <2>3
    <2> QED BY <1>1, <2>1, <2>2, <2>3
<1> QED BY <1>1, <1>2 DEF Distinct

\* The first of a queue comes out; the others keep their order.
LEMMA TailOf ==
    ASSUME NEW S, NEW s \in Seq(S), s # <<>>
    PROVE  /\ Head(s) = s[1] /\ Head(s) \in S /\ 1 \in DOMAIN s
           /\ Tail(s) \in Seq(S)
           /\ \A i \in DOMAIN Tail(s) : i + 1 \in DOMAIN s /\ Tail(s)[i] = s[i + 1]
           /\ Distinct(s) => Distinct(Tail(s)) /\ \A i \in DOMAIN Tail(s) : Tail(s)[i] # Head(s)
<1>1. /\ Head(s) = s[1] /\ Head(s) \in S /\ 1 \in DOMAIN s
      /\ Tail(s) \in Seq(S)
    OBVIOUS
<1>2. \A i \in DOMAIN Tail(s) : i \in Nat \ {0} /\ i + 1 \in DOMAIN s /\ Tail(s)[i] = s[i + 1]
    BY HeadTailProperties
<1>3. ASSUME Distinct(s) PROVE Distinct(Tail(s)) /\ \A i \in DOMAIN Tail(s) : Tail(s)[i] # Head(s)
    BY <1>1, <1>2, <1>3 DEF Distinct
<1> QED BY <1>1, <1>2, <1>3

-------------------------------------------------------------------------------
(* The actions of callers and of the pool                                      *)

LEMMA PostStep ==
    ASSUME BatchInv, NEW r \in Request, Post(r)
    PROVE  BatchInv'
<1> USE DEF BatchInv
<1>1. /\ thread[r] = "none" /\ thread' = [thread EXCEPT ![r] = "backlog"]
      /\ backlog' = Append(backlog, r)
      /\ client' = [client EXCEPT ![r] = "waiting"]
      /\ UNCHANGED <<ask, starting, future, queue, worker, batch, hits, row>>
    BY DEF Post, Places
<1>2. LineTypes'
    BY <1>1 DEF LineTypes
<1>3. Places'
    <2>1. \A i \in DOMAIN backlog : backlog[i] # r
        BY <1>1 DEF Places, LineTypes
    <2>2. /\ DOMAIN backlog' = 1..(Len(backlog) + 1) /\ DOMAIN backlog = 1..Len(backlog)
          /\ Len(backlog) \in Nat
          /\ \A i \in DOMAIN backlog : backlog'[i] = backlog[i]
          /\ backlog'[Len(backlog) + 1] = r
        BY <1>1, AppendProperties DEF LineTypes
    <2>3. Distinct(backlog')
        BY <1>1, <2>1, DistinctAppend DEF Places, LineTypes
    <2>4. ASSUME NEW i \in DOMAIN backlog' PROVE thread'[backlog'[i]] = "backlog"
        <3>1. CASE i \in DOMAIN backlog
            BY <1>1, <2>2, <3>1 DEF Places, LineTypes
        <3>2. CASE i = Len(backlog) + 1
            BY <1>1, <2>2, <3>2 DEF LineTypes
        <3> QED BY <2>2, <3>1, <3>2
    <2>5. \A q \in Request : /\ thread'[q] \in {"none", "backlog"} => future'[q] = Absent
                             /\ client'[q] = "idle" => thread'[q] = "none"
        BY <1>1 DEF Places, LineTypes
    <2>6. \A q \in Request : thread[q] \notin {"none", "backlog"} => thread'[q] = thread[q]
        BY <1>1 DEF LineTypes
    <2>7. \A q \in Request : thread'[q] = "starting" => thread[q] = "starting"
        BY <1>1 DEF LineTypes
    <2>8. /\ \A i \in DOMAIN starting : thread'[starting[i]] = "starting"
          /\ \A i \in DOMAIN queue : thread'[queue[i]] = "blocked"
          /\ \A i \in DOMAIN batch : thread'[batch[i]] \in {"blocked", "returned"}
        <3>1. /\ \A i \in DOMAIN starting : starting[i] \in Request /\ thread[starting[i]] = "starting"
              /\ \A i \in DOMAIN queue : queue[i] \in Request /\ thread[queue[i]] = "blocked"
              /\ \A i \in DOMAIN batch : batch[i] \in Request /\ thread[batch[i]] \in {"blocked", "returned"}
            BY DEF Places, LineTypes
        <3> QED BY <2>6, <3>1
    <2> QED BY <1>1, <2>3, <2>4, <2>5, <2>7, <2>8 DEF Places
<1>4. BatchState' /\ HitsState' /\ OwnAnswer'
    BY <1>1 DEF BatchState, HitsState, OwnAnswer
<1> QED BY <1>2, <1>3, <1>4

LEMMA StartSearchStep ==
    ASSUME BatchInv, StartSearch
    PROVE  BatchInv'
<1> USE DEF BatchInv
<1> DEFINE r == Head(backlog)
<1>1. /\ backlog # <<>>
      /\ thread' = [thread EXCEPT ![r] = "starting"]
      /\ future' = [future EXCEPT ![r] = Pending]
      /\ starting' = Append(starting, r)
      /\ backlog' = Tail(backlog)
      /\ UNCHANGED <<ask, client, queue, worker, batch, hits, row>>
    BY DEF StartSearch
<1>2. /\ r \in Request /\ Tail(backlog) \in Seq(Request)
      /\ \A i \in DOMAIN Tail(backlog) :
             /\ i + 1 \in DOMAIN backlog /\ Tail(backlog)[i] = backlog[i + 1]
             /\ Tail(backlog)[i] # r
      /\ Distinct(Tail(backlog))
      /\ r = backlog[1] /\ 1 \in DOMAIN backlog
    BY <1>1, TailOf DEF LineTypes, Places
<1>3. thread[r] = "backlog" /\ future[r] = Absent
    BY <1>2 DEF Places, LineTypes
<1> HIDE DEF r
<1>4. LineTypes'
    BY <1>1, <1>2 DEF LineTypes, Outcome
<1>5. /\ \A i \in DOMAIN starting : starting[i] # r
      /\ \A i \in DOMAIN queue : queue[i] # r
      /\ \A i \in DOMAIN batch : batch[i] # r
    BY <1>3 DEF Places, Pending, Absent
<1>6. \A q \in Request : q # r => thread'[q] = thread[q] /\ future'[q] = future[q]
    BY <1>1, <1>2 DEF LineTypes
<1>7. thread'[r] = "starting" /\ future'[r] = Pending
    BY <1>1, <1>2 DEF LineTypes
<1>8. Places'
    <2>1. /\ DOMAIN starting' = 1..(Len(starting) + 1) /\ DOMAIN starting = 1..Len(starting)
          /\ Len(starting) \in Nat
          /\ \A i \in DOMAIN starting : starting'[i] = starting[i]
          /\ starting'[Len(starting) + 1] = r
        BY <1>1, <1>2, AppendProperties DEF LineTypes
    <2>2. Distinct(starting')
        BY <1>1, <1>2, <1>5, DistinctAppend DEF Places, LineTypes
    <2>3. ASSUME NEW i \in DOMAIN starting' PROVE thread'[starting'[i]] = "starting"
        <3>1. CASE i \in DOMAIN starting
            BY <1>5, <1>6, <2>1, <3>1 DEF Places, LineTypes
        <3>2. CASE i = Len(starting) + 1
            BY <1>7, <2>1, <3>2
        <3> QED BY <2>1, <3>1, <3>2
    <2>4. ASSUME NEW q \in Request, thread'[q] = "starting"
          PROVE  future'[q] = Pending /\ \E i \in DOMAIN starting' : starting'[i] = q
        <3>1. CASE q = r
            BY <1>7, <2>1, <3>1
        <3>2. CASE q # r
            <4>1. future[q] = Pending /\ \E i \in DOMAIN starting : starting[i] = q
                BY <1>6, <2>4, <3>2 DEF Places
            <4> QED BY <1>6, <2>1, <3>2, <4>1
        <3> QED BY <3>1, <3>2
    <2>5. ASSUME NEW i \in DOMAIN backlog' PROVE thread'[backlog'[i]] = "backlog"
        BY <1>1, <1>2 DEF Places, LineTypes
    <2>6. \A q \in Request : /\ thread'[q] \in {"none", "backlog"} => future'[q] = Absent
                             /\ client'[q] = "idle" => thread'[q] = "none"
        BY <1>1, <1>3, <1>6, <1>7 DEF Places, LineTypes
    <2>7. \A i \in DOMAIN queue : future'[queue[i]] = Pending /\ thread'[queue[i]] = "blocked"
        BY <1>5, <1>6 DEF Places, LineTypes
    <2>8. \A i \in DOMAIN batch : future'[batch[i]] # Absent /\ thread'[batch[i]] \in {"blocked", "returned"}
        BY <1>5, <1>6 DEF Places, LineTypes
    <2>9. UNCHANGED <<client, queue, batch>> /\ backlog' = Tail(backlog) /\ Distinct(Tail(backlog))
        BY <1>1, <1>2
    <2>10. \A i \in DOMAIN batch, j \in DOMAIN queue : batch[i] # queue[j]
        BY DEF Places
    <2>11. Distinct(queue) /\ Distinct(batch)
        BY DEF Places
    <2> QED BY <2>2, <2>3, <2>4, <2>5, <2>6, <2>7, <2>8, <2>9, <2>10, <2>11 DEF Places
<1>9. \A i \in DOMAIN batch : future'[batch[i]] = future[batch[i]]
    BY <1>5, <1>6 DEF LineTypes
<1>10. BatchState' /\ HitsState'
    BY <1>1, <1>9 DEF BatchState, HitsState
<1>11. OwnAnswer'
    BY <1>1, <1>2 DEF OwnAnswer, Pending, LineTypes
<1> QED BY <1>4, <1>8, <1>10, <1>11

\* Taking a call out of a list: the others stay, each once.
LEMMA WithoutOf ==
    ASSUME NEW s \in Seq(Request), NEW r, Distinct(s)
    PROVE  /\ Without(s, r) \in Seq(Request)
           /\ Distinct(Without(s, r))
           /\ \A i \in DOMAIN Without(s, r) :
                  Without(s, r)[i] # r /\ \E j \in DOMAIN s : Without(s, r)[i] = s[j]
           /\ \A j \in DOMAIN s : s[j] # r => \E i \in DOMAIN Without(s, r) : Without(s, r)[i] = s[j]
<1> DEFINE K == {i \in DOMAIN s : s[i] # r}
           p == Pick(s, K)
<1>1. Without(s, r) = p
    BY DEF Without, Where
<1>2. p \in Seq(Request)
    <2> HIDE DEF K
    <2> QED BY PickType
<1>3. PICK pos \in [1..Len(p) -> 1..Len(s)] : PickedFrom(pos, s, K)
    <2> HIDE DEF K
    <2> QED BY PickPlaces
<1>4. /\ \A j \in 1..Len(p) : pos[j] \in K /\ p[j] = s[pos[j]]
      /\ \A i, j \in 1..Len(p) : i < j => pos[i] < pos[j]
      /\ \A i \in 1..Len(s) : i \in K => \E j \in 1..Len(p) : pos[j] = i
    BY <1>3 DEF PickedFrom
<1> HIDE DEF p
<1>5. DOMAIN p = 1..Len(p) /\ Len(p) \in Nat /\ DOMAIN s = 1..Len(s) /\ Len(s) \in Nat
    BY <1>2
<1>6. \A i \in DOMAIN p : p[i] # r /\ \E j \in DOMAIN s : p[i] = s[j]
    BY <1>4, <1>5
<1>7. \A j \in DOMAIN s : s[j] # r => \E i \in DOMAIN p : p[i] = s[j]
    BY <1>4, <1>5
<1>8. Distinct(p)
    <2> SUFFICES ASSUME NEW i \in 1..Len(p), NEW j \in 1..Len(p), p[i] = p[j] PROVE i = j
        BY <1>5 DEF Distinct
    <2>1. pos[i] = pos[j]
        BY <1>4, <1>5 DEF Distinct
    <2>2. pos[i] \in Nat /\ pos[j] \in Nat
        BY <1>5
    <2> QED BY <1>4, <1>5, <2>1, <2>2
<1> QED BY <1>1, <1>2, <1>6, <1>7, <1>8

LEMMA PutRequestStep ==
    ASSUME BatchInv, NEW r \in Request, PutRequest(r)
    PROVE  BatchInv'
<1> USE DEF BatchInv
<1>1. /\ thread[r] = "starting"
      /\ thread' = [thread EXCEPT ![r] = "blocked"]
      /\ starting' = Without(starting, r)
      /\ queue' = Append(queue, r)
      /\ UNCHANGED <<ask, client, backlog, future, worker, batch, hits, row>>
    BY DEF PutRequest
<1>2. /\ future[r] = Pending
      /\ \A i \in DOMAIN queue : queue[i] # r
      /\ \A i \in DOMAIN batch : batch[i] # r
    BY <1>1 DEF Places
<1>3. /\ Without(starting, r) \in Seq(Request)
      /\ Distinct(Without(starting, r))
      /\ \A i \in DOMAIN Without(starting, r) :
             /\ Without(starting, r)[i] # r
             /\ \E j \in DOMAIN starting : Without(starting, r)[i] = starting[j]
      /\ \A j \in DOMAIN starting : starting[j] # r =>
             \E i \in DOMAIN Without(starting, r) : Without(starting, r)[i] = starting[j]
    <2>1. starting \in Seq(Request) /\ Distinct(starting)
        BY DEF LineTypes, Places
    <2> QED BY <2>1, WithoutOf
<1>4. LineTypes'
    BY <1>1, <1>3 DEF LineTypes
<1>5. /\ thread'[r] = "blocked"
      /\ \A q \in Request : q # r => thread'[q] = thread[q]
    BY <1>1 DEF LineTypes
<1>6. Places'
    <2>1. /\ DOMAIN queue' = 1..(Len(queue) + 1) /\ DOMAIN queue = 1..Len(queue)
          /\ Len(queue) \in Nat
          /\ \A i \in DOMAIN queue : queue'[i] = queue[i]
          /\ queue'[Len(queue) + 1] = r
        BY <1>1, AppendProperties DEF LineTypes
    <2>2. Distinct(queue')
        BY <1>1, <1>2, DistinctAppend DEF Places, LineTypes
    <2>3. ASSUME NEW i \in DOMAIN queue'
          PROVE  /\ future'[queue'[i]] = Pending /\ thread'[queue'[i]] = "blocked"
                 /\ \A j \in DOMAIN batch' : batch'[j] # queue'[i]
        <3>1. CASE i \in DOMAIN queue
            BY <1>1, <1>2, <1>5, <2>1, <3>1 DEF Places, LineTypes
        <3>2. CASE i = Len(queue) + 1
            BY <1>1, <1>2, <1>5, <2>1, <3>2
        <3> QED BY <2>1, <3>1, <3>2
    <2>4. \A i \in DOMAIN starting' : thread'[starting'[i]] = "starting"
        BY <1>1, <1>3, <1>5 DEF Places, LineTypes
    <2>5. ASSUME NEW q \in Request, thread'[q] = "starting"
          PROVE  future'[q] = Pending /\ \E i \in DOMAIN starting' : starting'[i] = q
        <3>1. q # r /\ thread[q] = "starting"
            BY <1>5, <2>5
        <3>2. future[q] = Pending /\ \E i \in DOMAIN starting : starting[i] = q
            BY <3>1 DEF Places
        <3> QED BY <1>1, <1>3, <3>1, <3>2
    <2>6. \A q \in Request : thread[q] \in {"none", "backlog"} <=> thread'[q] \in {"none", "backlog"}
        BY <1>1, <1>5
    <2>7. \A q \in Request : thread[q] = "none" => thread'[q] = "none"
        BY <1>1, <1>5
    <2>8. \A i \in DOMAIN backlog : thread'[backlog[i]] = "backlog"
        BY <1>1, <1>5 DEF Places, LineTypes
    <2>9. \A i \in DOMAIN batch : thread'[batch[i]] \in {"blocked", "returned"}
        BY <1>2, <1>5 DEF Places, LineTypes
    <2> QED BY <1>1, <1>3, <2>2, <2>3, <2>4, <2>5, <2>6, <2>7, <2>8, <2>9 DEF Places
<1> QED BY <1>1, <1>4, <1>6 DEF BatchState, HitsState, OwnAnswer

LEMMA ReplyStep ==
    ASSUME BatchInv, NEW r \in Request, Reply(r)
    PROVE  BatchInv'
<1> USE DEF BatchInv
<1>1. /\ thread[r] = "blocked" /\ Done(r) /\ thread' = [thread EXCEPT ![r] = "returned"]
      /\ UNCHANGED <<ask, backlog, starting, future, queue, worker, batch, hits, row>>
    BY DEF Reply
<1>2. client' = client \/ client' = [client EXCEPT ![r] = "answered"]
                      \/ client' = [client EXCEPT ![r] = "failed"]
    BY DEF Reply
<1>3. LineTypes'
    BY <1>1, <1>2 DEF LineTypes
<1>4. Places'
    <2>1. \A q \in Request : client'[q] = "idle" => client[q] = "idle"
        BY <1>2 DEF LineTypes
    <2>2. \A q \in Request : /\ thread'[q] \in {"none", "backlog"} => future'[q] = Absent
                             /\ client'[q] = "idle" => thread'[q] = "none"
        BY <1>1, <2>1 DEF Places, LineTypes
    <2>3. thread'[r] = "returned" /\ \A q \in Request : q # r => thread'[q] = thread[q]
        BY <1>1 DEF LineTypes
    <2>4. \A i \in DOMAIN queue : queue[i] # r
        BY <1>1 DEF Places, Done, Pending
    <2>5. /\ \A i \in DOMAIN backlog : thread'[backlog[i]] = "backlog"
          /\ \A i \in DOMAIN starting : thread'[starting[i]] = "starting"
          /\ \A i \in DOMAIN queue : thread'[queue[i]] = "blocked"
          /\ \A i \in DOMAIN batch : thread'[batch[i]] \in {"blocked", "returned"}
        BY <1>1, <2>3, <2>4 DEF Places, LineTypes
    <2>6. \A q \in Request : thread'[q] = "starting" => thread[q] = "starting"
        BY <2>3
    <2> QED BY <1>1, <2>2, <2>5, <2>6 DEF Places
<1> QED BY <1>1, <1>3, <1>4 DEF BatchState, HitsState, OwnAnswer

LEMMA GiveUpStep ==
    ASSUME BatchInv, NEW r \in Request, GiveUp(r)
    PROVE  BatchInv'
<1> USE DEF BatchInv
<1>1. /\ client' = [client EXCEPT ![r] = "timed_out"]
      /\ UNCHANGED <<ask, thread, backlog, starting, future, queue, worker, batch, hits, row>>
    BY DEF GiveUp
<1>2. LineTypes' /\ Places'
    BY <1>1 DEF LineTypes, Places
<1> QED BY <1>1, <1>2 DEF BatchState, HitsState, OwnAnswer

-------------------------------------------------------------------------------
(* The actions of the batch thread                                             *)

LEMMA TakeFirstStep ==
    ASSUME BatchInv, TakeFirst
    PROVE  BatchInv'
<1> USE DEF BatchInv
<1> DEFINE r == Head(queue)
<1>1. /\ worker = "waiting" /\ queue # <<>>
      /\ batch' = <<r>> /\ queue' = Tail(queue) /\ worker' = "collecting"
      /\ UNCHANGED <<ask, client, thread, backlog, starting, future, hits, row>>
    BY DEF TakeFirst, callVars
<1>2. /\ r \in Request /\ Tail(queue) \in Seq(Request)
      /\ \A i \in DOMAIN Tail(queue) :
             /\ i + 1 \in DOMAIN queue /\ Tail(queue)[i] = queue[i + 1]
             /\ Tail(queue)[i] # r
      /\ Distinct(Tail(queue))
      /\ r = queue[1] /\ 1 \in DOMAIN queue
    BY <1>1, TailOf DEF LineTypes, Places
<1>3. future[r] = Pending /\ thread[r] = "blocked"
    BY <1>2 DEF Places
<1> HIDE DEF r
<1>4. DOMAIN batch' = {1} /\ batch'[1] = r /\ batch' # <<>> /\ batch' \in Seq(Request)
    BY <1>1, <1>2
<1>5. LineTypes'
    BY <1>1, <1>2, <1>4 DEF LineTypes, WorkerAt
<1>6. Places'
    <2>1. /\ Distinct(batch')
          /\ \A i \in DOMAIN batch' :
                 future'[batch'[i]] # Absent /\ thread'[batch'[i]] \in {"blocked", "returned"}
        BY <1>1, <1>3, <1>4 DEF Distinct, Pending, Absent
    <2>2. \A i \in DOMAIN queue' : future'[queue'[i]] = Pending /\ thread'[queue'[i]] = "blocked"
        BY <1>1, <1>2 DEF Places
    <2>3. \A i \in DOMAIN batch', j \in DOMAIN queue' : batch'[i] # queue'[j]
        BY <1>1, <1>2, <1>4
    <2> QED BY <1>1, <1>2, <2>1, <2>2, <2>3 DEF Places
<1>7. BatchState' /\ HitsState' /\ OwnAnswer'
    BY <1>1, <1>3, <1>4 DEF BatchState, HitsState, OwnAnswer
<1> QED BY <1>5, <1>6, <1>7

LEMMA TakeMoreStep ==
    ASSUME BatchInv, TakeMore
    PROVE  BatchInv'
<1> USE DEF BatchInv
<1> DEFINE r == Head(queue)
<1>1. /\ worker = "collecting" /\ queue # <<>>
      /\ batch' = Append(batch, r) /\ queue' = Tail(queue)
      /\ UNCHANGED <<ask, client, thread, backlog, starting, future, worker, hits, row>>
    BY DEF TakeMore, callVars
<1>2. /\ r \in Request /\ Tail(queue) \in Seq(Request)
      /\ \A i \in DOMAIN Tail(queue) :
             /\ i + 1 \in DOMAIN queue /\ Tail(queue)[i] = queue[i + 1]
             /\ Tail(queue)[i] # r
      /\ Distinct(Tail(queue))
      /\ r = queue[1] /\ 1 \in DOMAIN queue
    BY <1>1, TailOf DEF LineTypes, Places
<1>3. future[r] = Pending /\ thread[r] = "blocked" /\ \A i \in DOMAIN batch : batch[i] # r
    BY <1>2 DEF Places
<1> HIDE DEF r
<1>4. /\ DOMAIN batch' = 1..(Len(batch) + 1) /\ DOMAIN batch = 1..Len(batch)
      /\ Len(batch) \in Nat /\ batch' # <<>> /\ batch' \in Seq(Request)
      /\ \A i \in DOMAIN batch : batch'[i] = batch[i]
      /\ batch'[Len(batch) + 1] = r
    <2>1. batch \in Seq(Request)
        BY DEF LineTypes
    <2>2. /\ DOMAIN Append(batch, r) = 1..(Len(batch) + 1) /\ DOMAIN batch = 1..Len(batch)
          /\ Len(batch) \in Nat /\ Append(batch, r) \in Seq(Request)
          /\ \A i \in DOMAIN batch : Append(batch, r)[i] = batch[i]
          /\ Append(batch, r)[Len(batch) + 1] = r
        BY <1>2, <2>1, AppendProperties
    <2>3. Append(batch, r) # <<>>
        BY <1>2, <2>1, AppendProperties
    <2> QED BY <1>1, <2>2, <2>3
<1>5. LineTypes'
    BY <1>1, <1>2, <1>4 DEF LineTypes
<1>6. ASSUME NEW i \in DOMAIN batch'
      PROVE  /\ future'[batch'[i]] = Pending /\ thread'[batch'[i]] \in {"blocked", "returned"}
             /\ \A j \in DOMAIN queue' : batch'[i] # queue'[j]
    <2>1. CASE i \in DOMAIN batch
        BY <1>1, <1>2, <1>4, <2>1 DEF Places, BatchState
    <2>2. CASE i = Len(batch) + 1
        BY <1>1, <1>2, <1>3, <1>4, <2>2
    <2> QED BY <1>4, <2>1, <2>2
<1>7. Places'
    <2>1. Distinct(batch')
        BY <1>1, <1>2, <1>3, DistinctAppend DEF Places, LineTypes
    <2>2. \A i \in DOMAIN queue' : future'[queue'[i]] = Pending /\ thread'[queue'[i]] = "blocked"
        BY <1>1, <1>2 DEF Places
    <2>3. \A i \in DOMAIN batch' : future'[batch'[i]] # Absent
        BY <1>6 DEF Pending, Absent
    <2> QED BY <1>1, <1>2, <1>6, <2>1, <2>2, <2>3 DEF Places
<1>8. BatchState' /\ HitsState' /\ OwnAnswer'
    BY <1>1, <1>4, <1>6 DEF BatchState, HitsState, OwnAnswer
<1> QED BY <1>5, <1>7, <1>8

\* Closing the batch, a search, and an error of the search: no future changes.
LEMMA CloseBatchStep ==
    ASSUME BatchInv, CloseBatch
    PROVE  BatchInv'
<1> USE DEF BatchInv
<1>1. /\ worker = "collecting" /\ worker' = "searching"
      /\ UNCHANGED <<ask, client, thread, backlog, starting, future, queue, batch, hits, row>>
    BY DEF CloseBatch, callVars
<1>2. LineTypes' /\ Places'
    BY <1>1 DEF LineTypes, Places, WorkerAt
<1> QED BY <1>1, <1>2 DEF BatchState, HitsState, OwnAnswer

LEMMA SearchBatchStep ==
    ASSUME BatchInv, SearchBatch
    PROVE  BatchInv'
<1> USE DEF BatchInv
<1>1. /\ worker = "searching" /\ row' = 1 /\ worker' = "answering"
      /\ UNCHANGED <<ask, client, thread, backlog, starting, future, queue, batch>>
    BY DEF SearchBatch, callVars
<1>2. PICK k \in 1..MaxTopN :
          /\ IsMaxTopN(k)
          /\ hits' = [i \in DOMAIN batch |-> SearchIndex(ask[batch[i]].query, k)]
    BY DEF SearchBatch
<1>3. LineTypes' /\ Places'
    BY <1>1 DEF LineTypes, Places, WorkerAt
<1>4. BatchState'
    <2>1. 1 \in 1..Len(batch)
        BY <1>1 DEF BatchState, LineTypes
    <2> QED BY <1>1, <2>1 DEF BatchState
<1>5. HitsState'
    <2>1. \A i \in DOMAIN batch : ask[batch[i]].top_n <= k
        BY <1>2 DEF IsMaxTopN
    <2> QED BY <1>1, <1>2, <2>1 DEF HitsState, SearchIndex
<1> QED BY <1>1, <1>3, <1>4, <1>5 DEF OwnAnswer

LEMMA SearchRaisesStep ==
    ASSUME BatchInv, SearchRaises
    PROVE  BatchInv'
<1> USE DEF BatchInv
<1>1. /\ worker = "searching" /\ row' = 1 /\ worker' = "failing"
      /\ UNCHANGED <<ask, client, thread, backlog, starting, future, queue, batch, hits>>
    BY DEF SearchRaises, callVars
<1>2. LineTypes' /\ Places'
    BY <1>1 DEF LineTypes, Places, WorkerAt
<1>3. 1 \in 1..Len(batch)
    BY <1>1 DEF BatchState, LineTypes
<1> QED BY <1>1, <1>2, <1>3 DEF BatchState, HitsState, OwnAnswer

LEMMA ReadRaisesStep ==
    ASSUME BatchInv, ReadRaises
    PROVE  BatchInv'
<1> USE DEF BatchInv
<1>1. /\ worker = "answering" /\ row' = 1 /\ worker' = "failing"
      /\ UNCHANGED <<ask, client, thread, backlog, starting, future, queue, batch, hits>>
    BY DEF ReadRaises, callVars
<1>2. LineTypes' /\ Places'
    BY <1>1 DEF LineTypes, Places, WorkerAt
<1>3. 1 \in 1..Len(batch)
    BY <1>1 DEF BatchState, LineTypes
<1> QED BY <1>1, <1>2, <1>3 DEF BatchState, HitsState, OwnAnswer

LEMMA WorkerDiesStep ==
    ASSUME BatchInv, WorkerDies
    PROVE  BatchInv'
<1> USE DEF BatchInv
<1>1. /\ worker' = "dead"
      /\ UNCHANGED <<ask, client, thread, backlog, starting, future, queue, batch, hits, row>>
    BY DEF WorkerDies, callVars
<1>2. LineTypes' /\ Places'
    BY <1>1 DEF LineTypes, Places, WorkerAt
<1> QED BY <1>1, <1>2 DEF BatchState, HitsState, OwnAnswer

\* A batch that has been worked through is empty.
LEMMA EmptyBatch == <<>> \in Seq(Request) /\ DOMAIN <<>> = {}
<1>1. <<>> \in Seq(Request) /\ Len(<<>>) = 0
    BY EmptySeq
<1>2. DOMAIN <<>> = 1..0
    BY <1>1
<1> QED BY <1>1, <1>2

\* A future of the batch is completed and the thread moves on.
LEMMA CompleteStep ==
    ASSUME BatchInv, worker \in {"answering", "failing"},
           NEW o \in Outcome, o # Absent,
           o.kind = "docs" => o = Result(DirectAnswer(ask[batch[row]])),
           worker = "answering" => future[batch[row]] = Pending,
           future' = [future EXCEPT ![batch[row]] = o],
           Advance, UNCHANGED <<callVars, queue, hits>>
    PROVE  BatchInv'
<1> USE DEF BatchInv
<1> DEFINE r == batch[row]
<1>1. /\ future' = [future EXCEPT ![r] = o]
      /\ UNCHANGED <<ask, client, thread, backlog, starting, queue, hits>>
    BY DEF callVars
<1>2. row \in 1..Len(batch) /\ DOMAIN batch = 1..Len(batch) /\ r \in Request
      /\ batch \in Seq(Request) /\ Len(batch) \in Nat
    BY DEF BatchState, LineTypes
<1>3. /\ future[r] # Absent /\ thread[r] \in {"blocked", "returned"}
      /\ \A i \in DOMAIN queue : queue[i] # r
      /\ \A i \in DOMAIN batch : i # row => batch[i] # r
    BY <1>2 DEF Places, Distinct
<1>4. \/ row = Len(batch) /\ worker' = "waiting" /\ batch' = <<>> /\ row' = 1
      \/ row # Len(batch) /\ row' = row + 1 /\ worker' = worker /\ batch' = batch
    BY DEF Advance
<1> HIDE DEF r
<1>5. \A q \in Request : future'[q] = IF q = r THEN o ELSE future[q]
    BY <1>1, <1>2 DEF LineTypes
<1>6. LineTypes'
    <2>1. future' \in [Request -> Outcome]
        BY <1>1 DEF LineTypes
    <2>2. batch' \in Seq(Request) /\ worker' \in WorkerAt
        BY <1>2, <1>4, EmptyBatch DEF WorkerAt
    <2> QED BY <1>1, <2>1, <2>2 DEF LineTypes
<1>7. Places'
    <2>1. Distinct(batch') /\ \A i \in DOMAIN batch', j \in DOMAIN queue : batch'[i] # queue[j]
        <3>1. CASE row = Len(batch)
            <4>1. DOMAIN batch' = {}
                BY <1>4, <3>1, EmptyBatch
            <4> QED BY <4>1 DEF Distinct
        <3>2. CASE row # Len(batch)
            BY <1>4, <3>2 DEF Places
        <3> QED BY <3>1, <3>2
    <2>2. \A i \in DOMAIN batch' :
              future'[batch'[i]] # Absent /\ thread[batch'[i]] \in {"blocked", "returned"}
        <3>1. CASE row = Len(batch)
            BY <1>4, <3>1, EmptyBatch
        <3>2. CASE row # Len(batch)
            <4>1. batch' = batch
                BY <1>4, <3>2
            <4>2. \A i \in DOMAIN batch : batch[i] \in Request
                BY <1>2
            <4>3. \A i \in DOMAIN batch :
                      future'[batch[i]] # Absent /\ thread[batch[i]] \in {"blocked", "returned"}
                BY <1>5, <4>2 DEF Places
            <4> QED BY <4>1, <4>3
        <3> QED BY <3>1, <3>2
    <2>3. \A i \in DOMAIN queue : future'[queue[i]] = Pending
        BY <1>3, <1>5 DEF Places, LineTypes
    <2>4. \A q \in Request : thread[q] \in {"none", "backlog"} => future'[q] = Absent
        BY <1>3, <1>5 DEF Places
    <2>5. \A q \in Request : thread[q] = "starting" => future'[q] = Pending
        BY <1>3, <1>5 DEF Places
    <2> QED BY <1>1, <2>1, <2>2, <2>3, <2>4, <2>5 DEF Places
<1>8. BatchState'
    <2>1. CASE row = Len(batch)
        <3>1. worker' = "waiting" /\ batch' = <<>>
            BY <1>4, <2>1
        <3>2. DOMAIN batch' = {} /\ worker' \notin {"searching", "answering", "failing"}
            BY <3>1, EmptyBatch
        <3> QED BY <3>1 DEF BatchState
    <2>2. CASE row # Len(batch)
        <3>1. row' = row + 1 /\ worker' = worker /\ batch' = batch /\ row + 1 \in 1..Len(batch)
            <4>1. row' = row + 1 /\ worker' = worker /\ batch' = batch
                BY <1>4, <2>2
            <4>2. row + 1 \in 1..Len(batch)
                BY <1>2, <2>2
            <4> QED BY <4>1, <4>2
        <3>2. ASSUME worker = "answering", NEW i \in DOMAIN batch, i >= row + 1
              PROVE  future'[batch[i]] = Pending
            BY <1>2, <1>3, <1>5, <3>2 DEF BatchState
        <3>3. worker' \in {"answering", "failing"} /\ row' \in 1..Len(batch')
            BY <3>1
        <3>4. worker' = "answering" => \A i \in DOMAIN batch' : i >= row' => future'[batch'[i]] = Pending
            BY <3>1, <3>2
        <3> QED BY <3>3, <3>4 DEF BatchState
    <2> QED BY <2>1, <2>2
<1>9. HitsState'
    BY <1>1, <1>4 DEF HitsState, SearchIndex
<1>10. OwnAnswer'
    BY <1>1, <1>5, <1>2 DEF OwnAnswer, Result, r, DirectAnswer
<1> QED BY <1>6, <1>7, <1>8, <1>9, <1>10

LEMMA AnswerRowStep ==
    ASSUME BatchInv, AnswerRow
    PROVE  BatchInv'
<1> USE DEF BatchInv
<1> DEFINE r == batch[row]
           o == Result(MaterializeResults(hits[row], ask[r].top_n))
<1>1. worker = "answering" /\ future' = [future EXCEPT ![r] = o] /\ Advance
      /\ UNCHANGED <<callVars, queue, hits>>
    BY DEF AnswerRow
<1>2. row \in DOMAIN batch /\ r \in Request /\ ask[r] \in Ask
    BY <1>1 DEF BatchState, LineTypes
<1>3. MaterializeResults(hits[row], ask[r].top_n) = DirectAnswer(ask[r])
    <2>1. PICK k \in 1..MaxTopN :
              /\ \A i \in DOMAIN batch : ask[batch[i]].top_n <= k
              /\ hits = [i \in DOMAIN batch |-> SearchIndex(ask[batch[i]].query, k)]
        BY <1>1 DEF HitsState
    <2>2. hits[row] = SearchIndex(ask[r].query, k) /\ ask[r].top_n <= k
        BY <1>2, <2>1
    <2> QED BY <1>2, <2>2, WiderSearchSameAnswer
<1>4. o \in Outcome /\ o # Absent /\ o = Result(DirectAnswer(ask[r]))
    BY <1>2, <1>3 DEF Outcome, Result, Absent
<1>5. future[r] = Pending
    BY <1>1, <1>2 DEF BatchState, LineTypes
<1> HIDE DEF o
<1> QED BY <1>1, <1>4, <1>5, CompleteStep

LEMMA FailRowStep ==
    ASSUME BatchInv, FailRow
    PROVE  BatchInv'
<1>1. /\ worker = "failing" /\ future' = [future EXCEPT ![batch[row]] = Raised] /\ Advance
      /\ UNCHANGED <<callVars, queue, hits>>
    BY DEF FailRow
<1>2. Raised \in Outcome /\ Raised # Absent /\ Raised.kind # "docs"
    BY DEF Outcome, Raised, Absent
<1> QED BY <1>1, <1>2, CompleteStep

LEMMA BatchInvariant == SafeSpec => []BatchInv
<1>1. Init => BatchInv
    BY BatchInit
<1>2. BatchInv /\ [Next]_vars => BatchInv'
    <2> SUFFICES ASSUME BatchInv, [Next]_vars PROVE BatchInv'
        OBVIOUS
    <2>1. CASE \E r \in Request : Post(r) \/ PutRequest(r) \/ Reply(r) \/ GiveUp(r)
        BY <2>1, PostStep, PutRequestStep, ReplyStep, GiveUpStep
    <2>2. CASE StartSearch
        BY <2>2, StartSearchStep
    <2>3. CASE BatchLoop
        BY <2>3, TakeFirstStep, TakeMoreStep, CloseBatchStep, SearchBatchStep, SearchRaisesStep,
           AnswerRowStep, ReadRaisesStep, FailRowStep, WorkerDiesStep DEF BatchLoop
    <2>4. CASE UNCHANGED vars
        BY <2>4 DEF vars, BatchInv, LineTypes, Places, BatchState, HitsState, OwnAnswer
    <2> QED BY <2>1, <2>2, <2>3, <2>4 DEF Next
<1> QED BY <1>1, <1>2, PTL DEF SafeSpec

-------------------------------------------------------------------------------
\* Whatever batch a call is served in and whatever the others of the batch ask
\* for, it gets what a search of its own would have returned.
THEOREM AnswersAreOwn == SafeSpec => []OwnAnswer
<1>1. BatchInv => OwnAnswer
    BY DEF BatchInv
<1> QED BY <1>1, BatchInvariant, PTL

\* No future is completed twice: what set_result or set_exception has written
\* stays, also when the except clause runs over a batch that is half answered.
THEOREM FuturesCompleteOnce == SafeSpec => CompletedOnce
<1>1. BatchInv /\ [Next]_vars => [\A r \in Request : Done(r) => future'[r] = future[r]]_vars
    <2> SUFFICES ASSUME BatchInv, Next, NEW q \in Request, Done(q)
                 PROVE  future'[q] = future[q]
        OBVIOUS
    <2>1. CASE UNCHANGED future
        BY <2>1
    <2>2. CASE StartSearch
        <3>1. /\ Head(backlog) \in Request /\ thread[Head(backlog)] = "backlog"
              /\ future' = [future EXCEPT ![Head(backlog)] = Pending]
            BY <2>2, TailOf DEF StartSearch, BatchInv, LineTypes, Places
        <3>2. future[Head(backlog)] = Absent
            BY <3>1 DEF BatchInv, Places
        <3>3. q # Head(backlog)
            BY <3>2 DEF Done, Absent
        <3> QED BY <3>1, <3>3 DEF BatchInv, LineTypes
    <2>3. CASE AnswerRow
        <3>1. future[batch[row]] = Pending
            BY <2>3 DEF AnswerRow, BatchInv, BatchState, LineTypes
        <3>2. q # batch[row]
            BY <3>1 DEF Done, Pending
        <3> QED BY <2>3, <3>2 DEF AnswerRow, BatchInv, LineTypes
    <2>4. CASE FailRow
        <3>1. q # batch[row]
            BY <2>4 DEF FailRow
        <3> QED BY <2>4, <3>1 DEF FailRow, BatchInv, LineTypes
    <2>5. CASE \E r \in Request : Post(r) \/ PutRequest(r) \/ Reply(r) \/ GiveUp(r)
        BY <2>1, <2>5 DEF Post, PutRequest, Reply, GiveUp
    <2>6. CASE BatchLoop
        BY <2>1, <2>3, <2>4, <2>6 DEF BatchLoop, TakeFirst, TakeMore, CloseBatch, SearchBatch,
           SearchRaises, ReadRaises, WorkerDies
    <2> QED BY <2>2, <2>5, <2>6 DEF Next
<1> QED BY <1>1, BatchInvariant, PTL DEF SafeSpec, CompletedOnce

-------------------------------------------------------------------------------
(* The batch from its front: what is answered of it, and how long it is        *)

FrontInv ==
    /\ Len(batch) <= QueryBatchSize
    /\ row \in 1..QueryBatchSize
    /\ worker \in {"answering", "failing"} => \A i \in 1..(row - 1) : Done(batch[i])

LEMMA FrontInit == Init => FrontInv
BY DEF Init, FrontInv

\* A completed row is behind the front.
LEMMA FrontCompletes ==
    ASSUME BatchInv, FrontInv, worker \in {"answering", "failing"},
           NEW o \in Outcome, o.kind \in {"docs", "raised"},
           future' = [future EXCEPT ![batch[row]] = o], Advance
    PROVE  FrontInv'
<1>1. /\ row \in 1..Len(batch) /\ batch \in Seq(Request) /\ Len(batch) \in Nat
      /\ future \in [Request -> Outcome] /\ Len(batch) <= QueryBatchSize
    BY DEF BatchInv, LineTypes, BatchState, FrontInv
<1>2. CASE row = Len(batch)
    <2>1. batch' = <<>> /\ row' = 1 /\ worker' = "waiting"
        BY <1>2 DEF Advance
    <2> QED BY <2>1 DEF FrontInv
<1>3. CASE row # Len(batch)
    <2>1. batch' = batch /\ row' = row + 1
        BY <1>3 DEF Advance
    <2>2. row + 1 \in 1..QueryBatchSize
        BY <1>1, <1>3
    <2>3. ASSUME NEW i \in 1..row PROVE future'[batch[i]].kind \in {"docs", "raised"}
        <3>1. batch[i] \in Request
            BY <1>1
        <3>2. CASE batch[i] = batch[row]
            BY <1>1, <3>1, <3>2
        <3>3. CASE batch[i] # batch[row]
            <4>1. i \in 1..(row - 1)
                BY <1>1, <3>3
            <4>2. future[batch[i]].kind \in {"docs", "raised"}
                BY <4>1 DEF FrontInv, Done
            <4> QED BY <1>1, <3>1, <3>3, <4>2
        <3> QED BY <3>2, <3>3
    <2>4. row' - 1 = row
        BY <1>1, <2>1
    <2> QED BY <1>1, <2>1, <2>2, <2>3, <2>4 DEF FrontInv, Done
<1> QED BY <1>2, <1>3

LEMMA FrontNext == BatchInv /\ FrontInv /\ [Next]_vars => FrontInv'
<1> SUFFICES ASSUME BatchInv, FrontInv, [Next]_vars PROVE FrontInv'
    OBVIOUS
<1>1. CASE StartSearch
    <2> DEFINE r == Head(backlog)
    <2>1. r \in Request /\ thread[r] = "backlog" /\ future' = [future EXCEPT ![r] = Pending]
        BY <1>1, TailOf DEF StartSearch, BatchInv, LineTypes, Places
    <2>2. future[r] = Absent /\ future \in [Request -> Outcome]
        BY <2>1 DEF BatchInv, LineTypes, Places
    <2>3. UNCHANGED <<batch, row, worker>>
        BY <1>1 DEF StartSearch
    <2> HIDE DEF r
    <2>4. \A q : Done(q) => future'[q] = future[q]
        BY <2>1, <2>2 DEF Done, Absent
    <2>5. \A i \in 1..(row - 1) : worker \in {"answering", "failing"} => Done(batch[i])'
        BY <2>3, <2>4 DEF FrontInv, Done
    <2> QED BY <2>3, <2>5 DEF FrontInv
<1>2. CASE TakeFirst
    <2>1. batch' = <<Head(queue)>> /\ worker' = "collecting" /\ row' = row
        BY <1>2 DEF TakeFirst
    <2> QED BY <2>1 DEF FrontInv
<1>3. CASE TakeMore
    <2>1. /\ batch' = Append(batch, Head(queue)) /\ worker' = "collecting" /\ row' = row
          /\ Len(batch) < QueryBatchSize /\ batch \in Seq(Request)
        BY <1>3 DEF TakeMore, BatchInv, LineTypes
    <2> QED BY <2>1 DEF FrontInv
<1>4. CASE CloseBatch \/ SearchBatch \/ SearchRaises \/ ReadRaises \/ WorkerDies
    BY <1>4 DEF CloseBatch, SearchBatch, SearchRaises, ReadRaises, WorkerDies, FrontInv, Done
<1>5. CASE AnswerRow
    <2> DEFINE o == future'[batch[row]]
    <2>1. /\ worker = "answering" /\ Advance
          /\ future' = [future EXCEPT ![batch[row]] =
                            Result(MaterializeResults(hits[row], ask[batch[row]].top_n))]
          /\ UNCHANGED <<callVars, queue, hits>>
        BY <1>5 DEF AnswerRow
    <2>2. batch[row] \in Request /\ future \in [Request -> Outcome]
        BY <2>1 DEF BatchInv, LineTypes, BatchState
    <2>3. o = Result(MaterializeResults(hits[row], ask[batch[row]].top_n)) /\ o.kind = "docs"
        BY <2>1, <2>2 DEF Result
    <2>4. BatchInv'
        BY <1>5, AnswerRowStep
    <2>5. o \in Outcome
        BY <2>2, <2>4 DEF BatchInv, LineTypes
    <2>6. future' = [future EXCEPT ![batch[row]] = o]
        BY <2>1, <2>3
    <2> HIDE DEF o
    <2> QED BY <2>1, <2>3, <2>5, <2>6, FrontCompletes
<1>6. CASE FailRow
    BY <1>6, FrontCompletes DEF FailRow, Raised, Outcome
<1>7. CASE (\E r \in Request : Post(r) \/ PutRequest(r) \/ Reply(r) \/ GiveUp(r)) \/ UNCHANGED vars
    BY <1>7 DEF Post, PutRequest, Reply, GiveUp, vars, FrontInv, Done
<1> QED BY <1>1, <1>2, <1>3, <1>4, <1>5, <1>6, <1>7 DEF Next, BatchLoop

LEMMA FrontInvariant == SafeSpec => [](BatchInv /\ FrontInv)
<1>1. Init => FrontInv
    BY FrontInit
<1>2. BatchInv /\ FrontInv /\ [Next]_vars => FrontInv'
    BY FrontNext
<1> QED BY <1>1, <1>2, BatchInvariant, PTL DEF SafeSpec

-------------------------------------------------------------------------------
(* What is materialised                                                        *)

\* The columns that have a row are rows, and what is read of them are documents.
LEMMA DocumentsOfColumns ==
    ASSUME NEW a \in Ask
    PROVE  DirectAnswer(a) \in DocSeq
<1> DEFINE n == a.top_n
           columns == SubSeq(SubSeq(Ranking[a.query], 1, n), 1, n)
           K == {i \in DOMAIN columns : columns[i] # NoRow}
           found == Pick(columns, K)
<1>1. columns \in Seq(Row \cup {NoRow})
    <2>1. Ranking[a.query] \in Seq(Row \cup {NoRow}) /\ Len(Ranking[a.query]) = MaxTopN
          /\ n \in 1..MaxTopN
        BY DEF Ask
    <2>2. \A s \in Seq(Row \cup {NoRow}) : n <= Len(s) => SubSeq(s, 1, n) \in Seq(Row \cup {NoRow})
                                                        /\ Len(SubSeq(s, 1, n)) = n
        BY <2>1, SubSeqProperties
    <2> QED BY <2>1, <2>2
<1>2. Found(SearchIndex(a.query, n), n) = found
    BY DEF Found, WithRow, Where, SearchIndex
<1> HIDE DEF columns
<1>3. PICK pos \in [1..Len(found) -> 1..Len(columns)] : PickedFrom(pos, columns, K)
    BY <1>1, PickPlaces
<1>4. found \in Seq(Row \cup {NoRow}) /\ Len(found) \in Nat
    BY <1>1, PickType
<1>5. \A i \in 1..Len(found) : found[i] \in Row
    <2>1. \A i \in 1..Len(found) : pos[i] \in K /\ found[i] = columns[pos[i]]
        BY <1>3 DEF PickedFrom
    <2>2. \A i \in K : columns[i] \in Row
        BY <1>1
    <2> QED BY <2>1, <2>2
<1> HIDE DEF found
<1>6. DirectAnswer(a) = [i \in 1..Len(found) |-> Get(found[i])]
    BY <1>2 DEF DirectAnswer, MaterializeResults
<1>7. \A i \in 1..Len(found) : Get(found[i]) \in [id : Row, missing : BOOLEAN]
    BY <1>5 DEF Get
<1> QED BY <1>4, <1>6, <1>7 DEF DocSeq

\* The queue holds calls, a batch is never longer than query_batch_size, the row being
\* answered lies within it, and a completed future holds documents or an error.
THEOREM TypeCorrect == SafeSpec => []TypeOK
<1>1. ASSUME BatchInv, FrontInv PROVE TypeOK
    <2>1. LineTypes
        BY <1>1 DEF BatchInv
    <2>2. ASSUME NEW r \in Request
          PROVE  \/ future[r] \in {Absent, Pending, Raised}
                 \/ future[r].kind = "docs" /\ future[r].docs \in DocSeq
        <3>1. future[r] \in Outcome
            BY <2>1 DEF LineTypes
        <3>2. CASE \E a \in Ask : future[r] = Result(DirectAnswer(a))
            BY <3>2, DocumentsOfColumns DEF Result
        <3> QED BY <3>1, <3>2 DEF Outcome
    <2>3. row \in 1..(QueryBatchSize + 1) /\ Len(batch) <= QueryBatchSize
        BY <1>1 DEF FrontInv
    <2> QED BY <2>1, <2>2, <2>3 DEF LineTypes, TypeOK, Ask, WorkerAt
<1> QED BY <1>1, FrontInvariant, PTL

-------------------------------------------------------------------------------
(* The line                                                                    *)

\* The calls of s that are not in D, in their order.
Remaining(s, D) == Pick(s, {i \in DOMAIN s : s[i] \notin D})

LEMMA RemainingAppend ==
    ASSUME NEW s \in Seq(Request), NEW r \in Request, NEW D, r \notin D
    PROVE  Remaining(Append(s, r), D) = Append(Remaining(s, D), r)
<1> DEFINE t == Append(s, r)
           K == {i \in DOMAIN s : s[i] \notin D}
           L == {i \in DOMAIN t : t[i] \notin D}
<1>1. /\ Len(s) \in Nat /\ DOMAIN s = 1..Len(s) /\ DOMAIN t = 1..(Len(s) + 1)
      /\ t[Len(s) + 1] = r /\ \A i \in 1..Len(s) : t[i] = s[i] /\ i \in 1..(Len(s) + 1)
    OBVIOUS
<1> HIDE DEF t
<1>2. Len(s) + 1 \in L /\ \A i \in 1..Len(s) : i \in L <=> i \in K
    BY <1>1
<1> HIDE DEF K, L
<1>3. Pick(t, L) = Append(Pick(s, L), r)
    BY <1>2, PickAppend DEF t
<1>4. Pick(s, L) = Pick(s, K)
    BY <1>2, PickAgree
<1> QED BY <1>3, <1>4 DEF Remaining, K, L, t

LEMMA RemainingConcat ==
    ASSUME NEW a \in Seq(Request), NEW b \in Seq(Request), NEW D
    PROVE  Remaining(a \o b, D) = Remaining(a, D) \o Remaining(b, D)
<1> DEFINE s == a \o b
           K == {i \in DOMAIN s : s[i] \notin D}
           A == {i \in DOMAIN a : a[i] \notin D}
           B == {i \in DOMAIN b : b[i] \notin D}
<1>1. /\ DOMAIN s = 1..(Len(a) + Len(b)) /\ Len(a) \in Nat /\ Len(b) \in Nat
      /\ DOMAIN a = 1..Len(a) /\ DOMAIN b = 1..Len(b)
      /\ \A i \in 1..Len(a) : i \in 1..(Len(a) + Len(b)) /\ s[i] = a[i]
      /\ \A i \in 1..Len(b) : Len(a) + i \in 1..(Len(a) + Len(b)) /\ s[Len(a) + i] = b[i]
    OBVIOUS
<1> HIDE DEF s
<1>2. \A i \in 1..Len(a) : i \in K <=> i \in A
    BY <1>1
<1>3. \A i \in 1..Len(b) : i \in B <=> Len(a) + i \in K
    BY <1>1
<1> HIDE DEF K, A, B
<1>4. Pick(s, K) = Pick(a, K) \o Pick(b, B)
    BY <1>3, PickConcat DEF s
<1>5. Pick(a, K) = Pick(a, A)
    BY <1>2, PickAgree
<1> QED BY <1>4, <1>5 DEF Remaining, K, A, B, s

LEMMA RemainingNone ==
    ASSUME NEW s \in Seq(Request), NEW D, \A i \in 1..Len(s) : s[i] \in D
    PROVE  Remaining(s, D) = <<>>
BY PickNone DEF Remaining

LEMMA RemainingSame ==
    ASSUME NEW s \in Seq(Request), NEW D, NEW E, \A i \in 1..Len(s) : s[i] \in D <=> s[i] \in E
    PROVE  Remaining(s, D) = Remaining(s, E)
<1> DEFINE K == {i \in DOMAIN s : s[i] \notin D}
           L == {i \in DOMAIN s : s[i] \notin E}
<1>1. \A i \in 1..Len(s) : i \in K <=> i \in L
    OBVIOUS
<1> HIDE DEF K, L
<1>2. Pick(s, K) = Pick(s, L)
    BY <1>1, PickAgree
<1> QED BY <1>2 DEF Remaining, K, L

\* What remains is in the sequence.
LEMMA RemainingFrom ==
    ASSUME NEW s \in Seq(Request), NEW D
    PROVE  /\ Remaining(s, D) \in Seq(Request)
           /\ \A i \in DOMAIN Remaining(s, D) : \E j \in 1..Len(s) : Remaining(s, D)[i] = s[j]
<1> DEFINE K == {i \in DOMAIN s : s[i] \notin D}
           p == Pick(s, K)
<1>1. p \in Seq(Request)
    <2> HIDE DEF K
    <2> QED BY PickType
<1>2. PICK pos \in [1..Len(p) -> 1..Len(s)] : PickedFrom(pos, s, K)
    <2> HIDE DEF K
    <2> QED BY PickPlaces
<1>3. DOMAIN p = 1..Len(p)
    BY <1>1
<1>4. \A i \in 1..Len(p) : pos[i] \in 1..Len(s) /\ p[i] = s[pos[i]]
    BY <1>2 DEF PickedFrom
<1>5. \A i \in DOMAIN p : \E j \in 1..Len(s) : p[i] = s[j]
    BY <1>3, <1>4
<1> QED BY <1>1, <1>5 DEF p, Remaining

\* The calls before r are done, r is not among those after it, and D and E differ in r.
StandsFirst(a, r, c, D, E) ==
    /\ \A i \in 1..Len(a) : a[i] \in D /\ a[i] \in E
    /\ r \notin D /\ r \in E
    /\ \A i \in 1..Len(c) : c[i] # r
    /\ \A q : q # r => (q \in D <=> q \in E)

\* r heads the line, and the others keep their order without it.
Leaves(a, r, c, D, E) ==
    /\ Remaining((a \o <<r>>) \o c, D) = <<r>> \o Remaining(c, D)
    /\ Remaining((a \o <<r>>) \o c, E) = Remaining(c, D)
    /\ Remaining(c, E) = Remaining(c, D)

\* The first call that is not done leaves the line when it is done.
LEMMA FirstLeaves ==
    ASSUME NEW a \in Seq(Request), NEW r \in Request, NEW c \in Seq(Request), NEW D, NEW E,
           StandsFirst(a, r, c, D, E)
    PROVE  Leaves(a, r, c, D, E)
<1> USE DEF StandsFirst, Leaves
<1> DEFINE front == Append(a, r)
<1>1. a \o <<r>> = front /\ front \in Seq(Request)
    OBVIOUS
<1>2. Remaining(front, D) = Append(Remaining(a, D), r)
    BY RemainingAppend
<1>3. \A i \in 1..Len(front) : front[i] \in E
    OBVIOUS
<1> HIDE DEF front
<1>4. Remaining(front, E) = <<>> /\ Remaining(a, D) = <<>>
    BY <1>1, <1>3, RemainingNone
<1>5. Remaining(c, E) = Remaining(c, D)
    BY RemainingSame
<1>6. Remaining(c, D) \in Seq(Request)
    BY RemainingFrom
<1>7. ASSUME NEW F
      PROVE  Remaining(front \o c, F) = Remaining(front, F) \o Remaining(c, F)
    BY <1>1, RemainingConcat
<1>8. Remaining(front, D) = <<r>>
    BY <1>2, <1>4
<1>9. \A s \in Seq(Request) : <<>> \o s = s
    OBVIOUS
<1> QED BY <1>1, <1>4, <1>5, <1>6, <1>7, <1>8, <1>9

-------------------------------------------------------------------------------
(* The refinement                                                              *)

Completed(f) == {r \in Request : f[r].kind \in {"docs", "raised"}}
Calls == batch \o queue
Door == starting \o backlog

LEMMA LineOf ==
    ASSUME NEW f, NEW s \in Seq(Request)
    PROVE  Pick(s, {i \in DOMAIN s : ~(f[s[i]].kind \in {"docs", "raised"})})
               = Remaining(s, Completed(f))
<1>1. {i \in DOMAIN s : ~(f[s[i]].kind \in {"docs", "raised"})}
          = {i \in DOMAIN s : s[i] \notin Completed(f)}
    BY DEF Completed
<1> QED BY <1>1 DEF Remaining

\* The line of the service before a step, and after it.
LEMMA LineIs ==
    ASSUME LineTypes
    PROVE  /\ Calls \in Seq(Request)
           /\ NotDone(batch \o queue) = Remaining(Calls, Completed(future))
<1>1. Calls \in Seq(Request)
    BY DEF Calls, LineTypes
<1> QED BY <1>1, LineOf DEF Calls, NotDone, Where, Done

LEMMA NextLineIs ==
    ASSUME LineTypes'
    PROVE  /\ Calls' \in Seq(Request)
           /\ NotDone(batch \o queue)' = Remaining(Calls', Completed(future'))
<1>1. Calls' \in Seq(Request)
    BY DEF Calls, LineTypes
<1>2. Pick(Calls', {i \in DOMAIN (Calls') : ~(future'[Calls'[i]].kind \in {"docs", "raised"})})
               = Remaining(Calls', Completed(future'))
    BY <1>1, LineOf
<1> QED BY <1>1, <1>2 DEF Calls, NotDone, Where, Done

LEMMA ServiceInit == Init => Service!Init
<1> SUFFICES ASSUME Init PROVE Service!Init
    OBVIOUS
<1>1. NotDone(batch \o queue) = <<>>
    <2>1. Calls = <<>>
        BY DEF Init, Calls
    <2>2. Remaining(<<>>, Completed(future)) = <<>>
        BY PickEmpty DEF Remaining
    <2>3. LineTypes
        BY BatchInit DEF BatchInv
    <2> QED BY <2>1, <2>2, <2>3, LineIs
<1>2. ServedOutcome = [r \in Request |-> Service!NotServed]
    BY DEF Init, ServedOutcome, Service!NotServed, Done, Absent
<1>3. starting \o backlog = <<>>
    BY DEF Init
<1> QED BY <1>1, <1>2, <1>3 DEF Service!Init

\* A step that moves no call and completes none is none of the service's.
LEMMA ServiceStutters ==
    ASSUME LineTypes, LineTypes', Calls' = Calls, Door' = Door, ask' = ask,
           Completed(future') = Completed(future),
           \A r \in Request : Done(r) => future'[r] = future[r]
    PROVE  UNCHANGED Service!vars
<1>1. NotDone(batch \o queue)' = NotDone(batch \o queue)
    BY LineIs, NextLineIs
<1>2. ServedOutcome' = ServedOutcome
    <2>1. \A r \in Request : Done(r)' <=> Done(r)
        BY DEF Completed, Done
    <2> QED BY <2>1 DEF ServedOutcome
<1> QED BY <1>1, <1>2 DEF Service!vars, Door

\* The first of one list goes to the end of the list before it.
LEMMA HandedOn ==
    ASSUME NEW s \in Seq(Request), NEW t \in Seq(Request), t # <<>>
    PROVE  Append(s, Head(t)) \o Tail(t) = s \o t
<1>1. Head(t) \in Request /\ Tail(t) \in Seq(Request) /\ Len(t) \in Nat \ {0}
    BY HeadTailProperties
<1>2. t = <<Head(t)>> \o Tail(t)
    <2>1. 1 \in 1..Len(t) /\ Len(t) \in 1..Len(t) /\ Head(t) = t[1]
        BY <1>1
    <2>2. SubSeq(t, 1, Len(t)) = <<t[1]>> \o SubSeq(t, 1 + 1, Len(t))
        BY <2>1, SubSeqRecursiveFirst
    <2>3. SubSeq(t, 1, Len(t)) = t /\ Tail(t) = SubSeq(t, 2, Len(t)) /\ 1 + 1 = 2
        BY SubSeqFull, TailIsSubSeq
    <2> QED BY <2>1, <2>2, <2>3
<1>3. Append(s, Head(t)) = s \o <<Head(t)>>
    BY <1>1, AppendIsConcat
<1>4. (s \o <<Head(t)>>) \o Tail(t) = s \o (<<Head(t)>> \o Tail(t))
    <2>1. <<Head(t)>> \in Seq(Request)
        BY <1>1
    <2> QED BY <1>1, <2>1, ConcatAssociative
<1> QED BY <1>2, <1>3, <1>4

\* No action but a call, a put and an answer is one of the service's.
LEMMA InnerSteps ==
    ASSUME BatchInv, BatchInv',
           \/ \E r \in Request : Reply(r) \/ GiveUp(r)
           \/ StartSearch
           \/ TakeFirst \/ TakeMore \/ CloseBatch
           \/ SearchBatch \/ SearchRaises \/ ReadRaises \/ WorkerDies
           \/ UNCHANGED vars
    PROVE  UNCHANGED Service!vars
<1>1. /\ LineTypes /\ LineTypes'
      /\ batch \in Seq(Request) /\ queue \in Seq(Request)
      /\ backlog \in Seq(Request) /\ starting \in Seq(Request)
    BY DEF BatchInv, LineTypes
<1>2. CASE UNCHANGED <<ask, batch, queue, backlog, starting, future>>
    <2>1. Calls' = Calls /\ Door' = Door
        BY <1>2 DEF Calls, Door
    <2> QED BY <1>1, <1>2, <2>1, ServiceStutters
<1>3. CASE StartSearch
    <2> DEFINE r == Head(backlog)
    <2>1. /\ backlog # <<>> /\ future' = [future EXCEPT ![r] = Pending]
          /\ starting' = Append(starting, r) /\ backlog' = Tail(backlog)
          /\ batch' = batch /\ queue' = queue /\ ask' = ask
        BY <1>3 DEF StartSearch
    <2>2. r \in Request /\ future[r] = Absent /\ future \in [Request -> Outcome]
        BY <2>1, TailOf DEF BatchInv, LineTypes, Places
    <2>3. Calls' = Calls
        BY <2>1 DEF Calls
    <2>31. Door' = Door
        <3>1. Append(starting, r) \o Tail(backlog) = starting \o backlog
            BY <1>1, <2>1, HandedOn
        <3> QED BY <2>1, <3>1 DEF Door
    <2> HIDE DEF r
    <2>4. \A q \in Request : q # r => future'[q] = future[q]
        BY <2>1, <2>2
    <2>5. future'[r] = Pending
        BY <2>1, <2>2
    <2>6. Completed(future') = Completed(future)
        BY <2>2, <2>4, <2>5 DEF Completed, Pending, Absent
    <2>7. \A q \in Request : Done(q) => future'[q] = future[q]
        BY <2>2, <2>4 DEF Done, Absent
    <2> QED BY <1>1, <2>1, <2>3, <2>31, <2>6, <2>7, ServiceStutters
<1>4. CASE TakeFirst
    <2>1. /\ batch = <<>> /\ queue # <<>> /\ batch' = <<Head(queue)>> /\ queue' = Tail(queue)
          /\ UNCHANGED <<ask, backlog, starting, future>>
        BY <1>4 DEF TakeFirst, callVars, BatchInv, BatchState
    <2>2. <<Head(queue)>> = Append(<<>>, Head(queue)) /\ <<>> \in Seq(Request)
        OBVIOUS
    <2>3. Append(<<>>, Head(queue)) \o Tail(queue) = <<>> \o queue
        BY <1>1, <2>1, <2>2, HandedOn
    <2>4. batch' \o queue' = batch \o queue
        BY <2>1, <2>2, <2>3
    <2>5. Calls' = Calls /\ Door' = Door
        BY <2>1, <2>4 DEF Calls, Door
    <2> QED BY <1>1, <2>1, <2>5, ServiceStutters
<1>5. CASE TakeMore
    <2>1. /\ queue # <<>> /\ batch' = Append(batch, Head(queue)) /\ queue' = Tail(queue)
          /\ UNCHANGED <<ask, backlog, starting, future>>
        BY <1>5 DEF TakeMore, callVars
    <2>2. batch' \o queue' = batch \o queue
        BY <1>1, <2>1, HandedOn
    <2>3. Calls' = Calls /\ Door' = Door
        BY <2>1, <2>2 DEF Calls, Door
    <2> QED BY <1>1, <2>1, <2>3, ServiceStutters
<1>6. CASE \E r \in Request : Reply(r) \/ GiveUp(r)
    BY <1>2, <1>6 DEF Reply, GiveUp
<1>7. CASE CloseBatch \/ SearchBatch \/ SearchRaises \/ ReadRaises \/ WorkerDies \/ UNCHANGED vars
    BY <1>2, <1>7 DEF CloseBatch, SearchBatch, SearchRaises, ReadRaises, WorkerDies, callVars, vars
<1> QED BY <1>3, <1>4, <1>5, <1>6, <1>7

\* A call of the endpoint comes to the door of the service.
LEMMA PostCalls ==
    ASSUME BatchInv, BatchInv', NEW r \in Request, Post(r)
    PROVE  Service!Call(r)
<1>1. /\ LineTypes /\ LineTypes' /\ Calls \in Seq(Request)
      /\ batch \in Seq(Request) /\ queue \in Seq(Request)
      /\ backlog \in Seq(Request) /\ starting \in Seq(Request)
    BY LineIs DEF BatchInv, LineTypes
<1>2. /\ backlog' = Append(backlog, r) /\ UNCHANGED <<ask, future, starting, queue, batch>>
      /\ thread[r] = "none" /\ future[r] = Absent
    BY DEF Post, BatchInv, Places
<1>3. (starting \o backlog)' = Append(starting \o backlog, r)
    <2>1. starting \o Append(backlog, r) = Append(starting \o backlog, r)
        BY <1>1
    <2> QED BY <1>2, <2>1
<1>4. /\ \A i \in 1..Len(batch) : batch[i] # r
      /\ \A i \in 1..Len(queue) : queue[i] # r
      /\ \A i \in 1..Len(backlog) : backlog[i] # r
      /\ \A i \in 1..Len(starting) : starting[i] # r
    BY <1>1, <1>2 DEF BatchInv, Places, Pending, Absent
<1>5. \A i \in DOMAIN (starting \o backlog) : (starting \o backlog)[i] # r
    <2> DEFINE d == starting \o backlog  n == Len(starting)  m == Len(backlog)
    <2>1. /\ DOMAIN d = 1..(n + m) /\ n \in Nat /\ m \in Nat
          /\ \A i \in 1..(n + m) : d[i] = IF i <= n THEN starting[i] ELSE backlog[i - n]
        BY <1>1
    <2>2. \A i \in 1..n : starting[i] # r
        BY <1>4
    <2>3. \A i \in 1..m : backlog[i] # r
        BY <1>4
    <2> HIDE DEF d, n, m
    <2> SUFFICES ASSUME NEW i \in 1..(n + m) PROVE d[i] # r
        BY <2>1 DEF d
    <2>4. CASE i <= n
        BY <2>1, <2>2, <2>4
    <2>5. CASE ~(i <= n)
        <3>1. i - n \in 1..m
            BY <2>1, <2>5
        <3> QED BY <2>1, <2>3, <2>5, <3>1
    <2> QED BY <2>4, <2>5
<1>6. \A i \in 1..Len(Calls) : Calls[i] # r
    BY <1>1, <1>4 DEF Calls
<1>7. NotDone(batch \o queue) = Remaining(Calls, Completed(future))
    BY <1>1, LineIs
<1>8. \A i \in DOMAIN NotDone(batch \o queue) : NotDone(batch \o queue)[i] # r
    <2> DEFINE D == Completed(future)
    <2> HIDE DEF D
    <2>1. \A i \in DOMAIN Remaining(Calls, D) : \E j \in 1..Len(Calls) : Remaining(Calls, D)[i] = Calls[j]
        <3>1. Calls \in Seq(Request)
            BY <1>1
        <3> QED BY <3>1, RemainingFrom
    <2> QED BY <1>6, <1>7, <2>1 DEF D
<1>9. NotDone(batch \o queue)' = NotDone(batch \o queue)
    <2>1. Calls' = Calls
        BY <1>2 DEF Calls
    <2> QED BY <1>1, <1>2, <1>7, <2>1, NextLineIs
<1>10. ServedOutcome[r] = Service!NotServed /\ ServedOutcome' = ServedOutcome
    BY <1>2 DEF ServedOutcome, Service!NotServed, Done, Absent
<1> QED BY <1>2, <1>3, <1>5, <1>8, <1>9, <1>10 DEF Service!Call, Service!In

-------------------------------------------------------------------------------
(* The door: no more calls are being started than the pool has threads         *)

PoolInv == IsFiniteSet(Busy) /\ Cardinality(Busy) <= PoolSize

LEMMA PoolInit == Init => PoolInv
<1> SUFFICES ASSUME Init PROVE PoolInv
    OBVIOUS
<1>1. Busy = {}
    BY DEF Init, Busy
<1> QED BY <1>1, FS_EmptySet DEF PoolInv

LEMMA PoolNext == BatchInv /\ PoolInv /\ [Next]_vars => PoolInv'
<1> SUFFICES ASSUME BatchInv, PoolInv, [Next]_vars PROVE PoolInv'
    OBVIOUS
<1>1. /\ thread \in [Request -> {"none", "backlog", "starting", "blocked", "returned"}]
      /\ IsFiniteSet(Busy) /\ Cardinality(Busy) <= PoolSize
    BY DEF BatchInv, LineTypes, PoolInv
<1>2. CASE UNCHANGED thread
    BY <1>1, <1>2 DEF PoolInv, Busy
<1>3. ASSUME NEW r \in Request, Post(r) PROVE PoolInv'
    <2>1. thread' = [thread EXCEPT ![r] = "backlog"] /\ thread[r] = "none"
        BY <1>3 DEF Post, BatchInv, Places
    <2>2. Busy' = Busy
        BY <1>1, <2>1 DEF Busy
    <2> QED BY <1>1, <2>2 DEF PoolInv
<1>4. ASSUME NEW r \in Request, PutRequest(r) PROVE PoolInv'
    <2>1. thread' = [thread EXCEPT ![r] = "blocked"] /\ thread[r] = "starting"
        BY <1>4 DEF PutRequest
    <2>2. Busy' = Busy
        BY <1>1, <2>1 DEF Busy
    <2> QED BY <1>1, <2>2 DEF PoolInv
<1>5. ASSUME NEW r \in Request, Reply(r) PROVE PoolInv'
    <2>1. thread' = [thread EXCEPT ![r] = "returned"]
        BY <1>5 DEF Reply
    <2>2. Busy' \subseteq Busy
        BY <1>1, <2>1 DEF Busy
    <2>3. IsFiniteSet(Busy') /\ Cardinality(Busy') <= Cardinality(Busy)
        BY <1>1, <2>2, FS_Subset
    <2>4. Cardinality(Busy) \in Nat /\ Cardinality(Busy') \in Nat
        BY <1>1, <2>3, FS_CardinalityType
    <2> QED BY <1>1, <2>3, <2>4 DEF PoolInv
<1>6. CASE StartSearch
    <2> DEFINE r == Head(backlog)
    <2>1. r \in Request /\ thread' = [thread EXCEPT ![r] = "starting"] /\ Cardinality(Busy) < PoolSize
        BY <1>6, TailOf DEF StartSearch, BatchInv, LineTypes
    <2> HIDE DEF r
    <2>2. Busy' = Busy \cup {r}
        BY <1>1, <2>1 DEF Busy
    <2>3. /\ IsFiniteSet(Busy \cup {r}) /\ Cardinality(Busy) \in Nat
          /\ Cardinality(Busy \cup {r}) = Cardinality(Busy) \/ Cardinality(Busy \cup {r}) = Cardinality(Busy) + 1
        BY <1>1, FS_AddElement, FS_CardinalityType
    <2> QED BY <2>1, <2>2, <2>3 DEF PoolInv
<1>7. CASE (\E r \in Request : GiveUp(r)) \/ BatchLoop \/ UNCHANGED vars
    <2>1. UNCHANGED thread
        BY <1>7 DEF GiveUp, BatchLoop, TakeFirst, TakeMore, CloseBatch, SearchBatch, SearchRaises,
           AnswerRow, ReadRaises, FailRow, WorkerDies, callVars, vars
    <2> QED BY <1>2, <2>1
<1> QED BY <1>3, <1>4, <1>5, <1>6, <1>7 DEF Next

LEMMA PoolInvariant == SafeSpec => []PoolInv
<1>1. Init => PoolInv
    BY PoolInit
<1>2. BatchInv /\ PoolInv /\ [Next]_vars => PoolInv'
    BY PoolNext
<1> QED BY <1>1, <1>2, BatchInvariant, PTL DEF SafeSpec

\* Every call being started holds a thread of its own.
LEMMA StartingFits ==
    ASSUME BatchInv, PoolInv
    PROVE  Len(starting) <= PoolSize
<1>1. starting \in Seq(Request) /\ Len(starting) \in Nat /\ DOMAIN starting = 1..Len(starting)
    BY DEF BatchInv, LineTypes
<1>2. starting \in Injection(1..Len(starting), Busy)
    <2>1. \A i \in 1..Len(starting) : starting[i] \in Busy
        BY <1>1 DEF BatchInv, Places, Busy
    <2>2. starting \in [1..Len(starting) -> Busy]
        BY <1>1, <2>1
    <2>3. \A i, j \in 1..Len(starting) : starting[i] = starting[j] => i = j
        BY <1>1 DEF BatchInv, Places, Distinct
    <2> QED BY <2>2, <2>3 DEF Injection, IsInjective
<1>3. Cardinality(1..Len(starting)) = Len(starting)
    <2> DEFINE one == 1  n == Len(starting)
    <2>1. one \in Int /\ n \in Int /\ n \in Nat /\ (IF one > n THEN 0 ELSE n - one + 1) = n
        BY <1>1
    <2> HIDE DEF one, n
    <2>2. Cardinality(one..n) = IF one > n THEN 0 ELSE n - one + 1
        BY <2>1, FS_Interval
    <2> QED BY <2>1, <2>2 DEF one, n
<1>4. Cardinality(1..Len(starting)) <= Cardinality(Busy)
    <2> DEFINE T == 1..Len(starting)
    <2> HIDE DEF T
    <2>1. starting \in Injection(T, Busy) /\ IsFiniteSet(Busy)
        BY <1>2 DEF T, PoolInv
    <2>2. Cardinality(T) <= Cardinality(Busy)
        BY <2>1, FS_Injection
    <2> QED BY <2>2 DEF T
<1>5. Cardinality(Busy) \in Nat
    BY FS_CardinalityType DEF PoolInv
<1> QED BY <1>1, <1>3, <1>4, <1>5 DEF PoolInv

\* A put is a call that joins the line.
LEMMA PutJoins ==
    ASSUME BatchInv, BatchInv', PoolInv, NEW r \in Request, PutRequest(r)
    PROVE  Service!Join(r)
<1>1. /\ LineTypes /\ LineTypes' /\ Calls \in Seq(Request)
      /\ batch \in Seq(Request) /\ queue \in Seq(Request)
      /\ backlog \in Seq(Request) /\ starting \in Seq(Request)
      /\ DOMAIN starting = 1..Len(starting) /\ Len(starting) \in Nat
    BY LineIs DEF BatchInv, LineTypes
<1>2. /\ thread[r] = "starting" /\ future[r] = Pending
      /\ starting' = Without(starting, r) /\ queue' = Append(queue, r)
      /\ UNCHANGED <<ask, backlog, future, batch>>
    BY DEF PutRequest, BatchInv, Places
<1>3. PICK i \in 1..Len(starting) : starting[i] = r
    BY <1>1, <1>2 DEF BatchInv, Places
<1>4. /\ i \in DOMAIN (starting \o backlog) /\ (starting \o backlog)[i] = r
    BY <1>1, <1>3
<1>5. i <= PoolSize
    <2>1. Len(starting) <= PoolSize
        BY StartingFits
    <2> QED BY <1>1, <1>3, <2>1
<1>6. (starting \o backlog)' = Without(starting \o backlog, r)
    <2>1. \A s \in Seq(Request) : Without(s, r) = Remaining(s, {r})
        BY DEF Without, Where, Remaining
    <2>2. Remaining(starting \o backlog, {r}) = Remaining(starting, {r}) \o Remaining(backlog, {r})
        <3> DEFINE D == {r}
        <3> HIDE DEF D
        <3>1. starting \in Seq(Request) /\ backlog \in Seq(Request)
            BY <1>1
        <3>2. Remaining(starting \o backlog, D) = Remaining(starting, D) \o Remaining(backlog, D)
            BY <3>1, RemainingConcat
        <3> QED BY <3>2 DEF D
    <2>3. Remaining(backlog, {r}) = backlog
        <3> DEFINE K == {j \in DOMAIN backlog : backlog[j] \notin {r}}
        <3>1. \A j \in 1..Len(backlog) : j \in K
            BY <1>1, <1>2 DEF BatchInv, Places
        <3> HIDE DEF K
        <3>2. Pick(backlog, K) = backlog
            BY <1>1, <3>1, PickAll
        <3> QED BY <3>2 DEF K, Remaining
    <2>4. starting \o backlog \in Seq(Request)
        BY <1>1
    <2> QED BY <1>1, <1>2, <2>1, <2>2, <2>3, <2>4
<1>7. NotDone(batch \o queue)' = Append(NotDone(batch \o queue), r)
    <2> DEFINE D == Completed(future)
    <2>1. batch \o Append(queue, r) = Append(batch \o queue, r)
        BY <1>1
    <2>2. Calls' = Append(Calls, r)
        BY <1>2, <2>1 DEF Calls
    <2>3. r \notin D
        BY <1>2 DEF Completed, Pending
    <2>4. NotDone(batch \o queue) = Remaining(Calls, D) /\ NotDone(batch \o queue)' = Remaining(Append(Calls, r), D)
        BY <1>1, <1>2, <2>2, LineIs, NextLineIs
    <2> HIDE DEF D
    <2>5. Remaining(Append(Calls, r), D) = Append(Remaining(Calls, D), r)
        BY <1>1, <2>3, RemainingAppend
    <2> QED BY <2>4, <2>5
<1>8. ServedOutcome' = ServedOutcome
    BY <1>2 DEF ServedOutcome, Done
<1>9. Service!Without(starting \o backlog, r) = Without(starting \o backlog, r)
    BY DEF Service!Without, Service!Where, Service!Pick, Without, Where, Pick
<1> QED BY <1>2, <1>4, <1>5, <1>6, <1>7, <1>8, <1>9 DEF Service!Join

\* The line before and after a future of the batch is completed: its call stood
\* first and has left, since every call of the batch before it is done.
LEMMA FirstIsServed ==
    ASSUME BatchInv, BatchInv', FrontInv, worker \in {"answering", "failing"},
           ~Done(batch[row]), NEW o \in Outcome, o.kind \in {"docs", "raised"},
           future' = [future EXCEPT ![batch[row]] = o],
           Advance, UNCHANGED <<callVars, queue>>
    PROVE  \E c \in Seq(Request) :
               /\ NotDone(batch \o queue) = <<batch[row]>> \o c
               /\ NotDone(batch \o queue)' = c
<1> DEFINE r == batch[row]
           D == Completed(future)
           E == Completed(future')
           a == SubSeq(batch, 1, row - 1)
           b == SubSeq(batch, row + 1, Len(batch))
           c == b \o queue
<1>1. /\ LineTypes /\ LineTypes' /\ Calls \in Seq(Request)
      /\ batch \in Seq(Request) /\ queue \in Seq(Request)
      /\ Len(batch) \in Nat /\ row \in 1..Len(batch) /\ r \in Request
      /\ future \in [Request -> Outcome] /\ thread \in [Request -> {"none", "backlog", "starting", "blocked", "returned"}]
    BY LineIs DEF BatchInv, LineTypes, BatchState
<1>2. /\ r \notin D /\ r \in E
      /\ \A q \in Request : q # r => (q \in D <=> q \in E)
    BY <1>1 DEF Completed, Done
<1>3. a \in Seq(Request) /\ Len(a) = row - 1 /\ \A i \in 1..(row - 1) : a[i] = batch[i]
    BY <1>1
<1>4. b \in Seq(Request) /\ Len(b) = Len(batch) - row
      /\ \A i \in 1..(Len(batch) - row) : b[i] = batch[row + i]
    BY <1>1
<1>5. batch = (a \o <<r>>) \o b
    <2>1. <<r>> \in Seq(Request) /\ (row - 1) + 1 = row /\ 1 \in 1..(Len(batch) + 1)
          /\ row - 1 \in (1 - 1)..Len(batch) /\ Len(batch) \in (row - 1)..Len(batch)
          /\ Len(batch) \in row..Len(batch)
        BY <1>1
    <2> DEFINE k == row - 1
    <2>2. SubSeq(batch, 1, k) \o SubSeq(batch, k + 1, Len(batch)) = SubSeq(batch, 1, Len(batch))
        <3> HIDE DEF a, b, r, k
        <3>1. k \in (1 - 1)..Len(batch) /\ Len(batch) \in k..Len(batch)
            BY <2>1 DEF k
        <3> QED BY <1>1, <2>1, <3>1, ConcatAdjacentSubSeq
    <2>3. SubSeq(batch, row, Len(batch)) = <<batch[row]>> \o SubSeq(batch, row + 1, Len(batch))
        BY <1>1, <2>1, SubSeqRecursiveFirst
    <2>4. SubSeq(batch, 1, Len(batch)) = batch
        BY <1>1, SubSeqFull
    <2>5. a \o (<<r>> \o b) = batch
        BY <2>1, <2>2, <2>3, <2>4
    <2> HIDE DEF a, b, r
    <2>6. (a \o <<r>>) \o b = a \o (<<r>> \o b)
        BY <1>3, <1>4, <2>1, ConcatAssociative
    <2> QED BY <2>5, <2>6
<1> HIDE DEF a, b, r
<1>6. c \in Seq(Request) /\ a \o <<r>> \in Seq(Request)
    BY <1>1, <1>3, <1>4
<1>7. Calls = (a \o <<r>>) \o c
    <2> DEFINE f == a \o <<r>>
    <2>1. f \in Seq(Request) /\ b \in Seq(Request) /\ queue \in Seq(Request)
        BY <1>1, <1>4, <1>6
    <2> HIDE DEF f
    <2>2. (f \o b) \o queue = f \o (b \o queue)
        BY <2>1, ConcatAssociative
    <2> QED BY <1>5, <2>2 DEF Calls, f
<1>8. \A i \in 1..Len(c) : c[i] # r
    <2>1. \A i \in 1..Len(b) : b[i] # r
        <3>1. \A i \in 1..Len(b) : row + i \in DOMAIN batch /\ row \in DOMAIN batch /\ row + i # row
            BY <1>1, <1>4
        <3> QED BY <1>4, <3>1 DEF BatchInv, Places, Distinct, r
    <2>2. \A i \in 1..Len(queue) : queue[i] # r
        BY <1>1 DEF BatchInv, Places, r
    <2> QED BY <1>1, <1>4, <2>1, <2>2
<1>9. \A i \in 1..Len(a) : a[i] \in D /\ a[i] \in E
    <2>1. \A i \in 1..(row - 1) : Done(batch[i]) /\ batch[i] \in Request /\ batch[i] # r
        <3>1. \A i \in 1..(row - 1) : Done(batch[i]) /\ batch[i] \in Request
            BY <1>1 DEF FrontInv
        <3> QED BY <3>1 DEF r
    <2>2. \A i \in 1..(row - 1) : batch[i] \in D
        BY <2>1 DEF Done, Completed
    <2> QED BY <1>2, <1>3, <2>1, <2>2
<1>10. /\ NotDone(batch \o queue) = Remaining(Calls, D)
       /\ NotDone(batch \o queue)' = Remaining(Calls', E)
    BY <1>1, LineIs, NextLineIs
<1>11. /\ UNCHANGED queue
       /\ \/ row = Len(batch) /\ batch' = <<>>
          \/ batch' = batch
    BY DEF Advance, callVars
<1>12. \A q \in D : q \in Request
    BY DEF Completed
<1>13. \A q \in E : q \in Request
    BY DEF Completed
<1>14. \A q : q # r => (q \in D <=> q \in E)
    BY <1>2, <1>12, <1>13
<1> HIDE DEF c, D, E
<1>15. /\ Remaining((a \o <<r>>) \o c, D) = <<r>> \o Remaining(c, D)
       /\ Remaining((a \o <<r>>) \o c, E) = Remaining(c, D)
       /\ Remaining(c, E) = Remaining(c, D)
    <2>1. a \in Seq(Request) /\ r \in Request /\ c \in Seq(Request)
        BY <1>1, <1>3, <1>6
    <2>2. StandsFirst(a, r, c, D, E)
        BY <1>2, <1>8, <1>9, <1>14 DEF StandsFirst
    <2>3. Leaves(a, r, c, D, E)
        BY <2>1, <2>2, FirstLeaves
    <2> QED BY <2>3 DEF Leaves
<1>16. Calls' = c \/ Calls' = (a \o <<r>>) \o c
    <2>1. CASE row = Len(batch) /\ batch' = <<>>
        <3>1. b = <<>>
            <4>1. row + 1 \in Int /\ Len(batch) \in Int /\ Len(batch) < row + 1
                BY <1>1, <2>1
            <4> QED BY <4>1, SubSeqEmpty DEF b
        <3> QED BY <1>11, <2>1, <3>1 DEF Calls, c
    <2>2. CASE batch' = batch
        BY <1>7, <1>11, <2>2 DEF Calls
    <2> QED BY <1>11, <2>1, <2>2
<1>17. Remaining(c, D) \in Seq(Request)
    BY <1>6, RemainingFrom
<1> QED BY <1>7, <1>10, <1>15, <1>16, <1>17 DEF r

LEMMA HeadOf ==
    ASSUME NEW r \in Request, NEW c \in Seq(Request)
    PROVE  <<r>> \o c # <<>> /\ Head(<<r>> \o c) = r /\ Tail(<<r>> \o c) = c
<1> DEFINE s == <<r>> \o c
<1>1. /\ s \in Seq(Request) /\ Len(s) = Len(c) + 1 /\ s[1] = r /\ Len(c) \in Nat
      /\ \A i \in 1..Len(c) : s[i + 1] = c[i]
    OBVIOUS
<1> HIDE DEF s
<1>2. s # <<>> /\ Head(s) = r
    BY <1>1
<1>3. Tail(s) \in Seq(Request) /\ Len(Tail(s)) = Len(c) /\ \A i \in 1..Len(c) : Tail(s)[i] = c[i]
    BY <1>1, <1>2, HeadTailProperties
<1>4. Tail(s) = c
    BY <1>1, <1>3
<1> QED BY <1>2, <1>4 DEF s

\* The outcome of a call the batch thread completes.
LEMMA OutcomeIsKept ==
    ASSUME future \in [Request -> Outcome], NEW r \in Request, NEW o \in Outcome,
           o.kind \in {"docs", "raised"}, future' = [future EXCEPT ![r] = o]
    PROVE  ServedOutcome' = [ServedOutcome EXCEPT ![r] = o]
<1>1. \A q \in Request : q # r => future'[q] = future[q]
    OBVIOUS
<1>2. future'[r] = o
    OBVIOUS
<1>3. Done(r)'
    BY <1>2 DEF Done
<1>4. \A q \in Request : q # r => (Done(q)' <=> Done(q))
    BY <1>1 DEF Done
<1>5. ServedOutcome' = [q \in Request |-> IF q = r THEN o ELSE ServedOutcome[q]]
    BY <1>1, <1>2, <1>3, <1>4 DEF ServedOutcome
<1>6. ServedOutcome = [q \in Request |-> ServedOutcome[q]]
    BY DEF ServedOutcome
<1> HIDE DEF ServedOutcome
<1> QED BY <1>5, <1>6

LEMMA AnswerServes ==
    ASSUME BatchInv, BatchInv', FrontInv, AnswerRow
    PROVE  Service!Serve
<1> DEFINE r == batch[row]
           o == future'[r]
           line == NotDone(batch \o queue)
<1>1. /\ worker = "answering" /\ Advance /\ UNCHANGED <<callVars, queue, hits>>
      /\ future' = [future EXCEPT ![r] = Result(MaterializeResults(hits[row], ask[r].top_n))]
    BY DEF AnswerRow
<1>2. /\ r \in Request /\ future \in [Request -> Outcome] /\ future' \in [Request -> Outcome]
      /\ future[r] = Pending
    BY <1>1 DEF BatchInv, LineTypes, BatchState
<1>3. o \in Outcome /\ o.kind = "docs" /\ future' = [future EXCEPT ![r] = o]
    BY <1>1, <1>2 DEF Result
<1>4. o = Service!Served(DirectAnswer(ask[r]))
    <2>1. ask' = ask
        BY <1>1 DEF callVars
    <2>2. OwnAnswer'
        BY DEF BatchInv
    <2>3. o.docs = DirectAnswer(ask[r])
        BY <1>2, <1>3, <2>1, <2>2 DEF OwnAnswer, DirectAnswer
    <2>4. o = Result(MaterializeResults(hits[row], ask[r].top_n))
        BY <1>1, <1>2
    <2> QED BY <2>3, <2>4 DEF Result, Service!Served
<1> HIDE DEF o
<1>5. PICK c \in Seq(Request) : line = <<r>> \o c /\ line' = c
    <2>1. ~Done(batch[row])
        BY <1>2 DEF Done, Pending
    <2> QED BY <1>1, <1>3, <2>1, FirstIsServed
<1>6. ServedOutcome' = [ServedOutcome EXCEPT ![r] = o]
    BY <1>2, <1>3, OutcomeIsKept
<1> HIDE DEF r, line
<1>7. line # <<>> /\ Head(line) = r /\ line' = Tail(line)
    BY <1>2, <1>5, HeadOf
<1>8. ask' = ask /\ (starting \o backlog)' = starting \o backlog
    BY <1>1 DEF callVars
<1> QED BY <1>4, <1>6, <1>7, <1>8 DEF Service!Serve, line

LEMMA FailureServes ==
    ASSUME BatchInv, BatchInv', FrontInv, FailRow
    PROVE  Service!Fail
<1> DEFINE r == batch[row]
           line == NotDone(batch \o queue)
<1>1. /\ worker = "failing" /\ ~Done(batch[row]) /\ Advance /\ UNCHANGED <<callVars, queue>>
      /\ future' = [future EXCEPT ![r] = Raised]
    BY DEF FailRow
<1>2. r \in Request /\ future \in [Request -> Outcome] /\ Raised \in Outcome /\ Raised.kind = "raised"
    BY <1>1 DEF BatchInv, LineTypes, BatchState, Outcome, Raised
<1>3. PICK c \in Seq(Request) : line = <<r>> \o c /\ line' = c
    BY <1>1, <1>2, FirstIsServed
<1>4. ServedOutcome' = [ServedOutcome EXCEPT ![r] = Raised]
    BY <1>1, <1>2, OutcomeIsKept
<1> HIDE DEF r, line
<1>5. line # <<>> /\ Head(line) = r /\ line' = Tail(line)
    BY <1>2, <1>3, HeadOf
<1>6. ask' = ask /\ (starting \o backlog)' = starting \o backlog
    BY <1>1 DEF callVars
<1> QED BY <1>4, <1>5, <1>6 DEF Service!Fail, Service!Failed, Raised, line

\* The retriever, with its pool, its batches and its failures, is a service whose line keeps
\* its order: a posted call comes to the door, a put is one of the PoolSize oldest calls there
\* joining the end of the line, the first of the line gets the documents of its own query or
\* an error, and no other step is seen.
THEOREM ServesInLine == SafeSpec => ServesTheLine
<1>1. Init => Service!Init
    BY ServiceInit
<1>2. BatchInv /\ BatchInv' /\ FrontInv /\ PoolInv /\ [Next]_vars => [Service!Next]_(Service!vars)
    <2> SUFFICES ASSUME BatchInv, BatchInv', FrontInv, PoolInv, [Next]_vars
                 PROVE  Service!Next \/ UNCHANGED Service!vars
        OBVIOUS
    <2>1. CASE \E r \in Request : Post(r)
        BY <2>1, PostCalls DEF Service!Next
    <2>2. CASE \E r \in Request : PutRequest(r)
        BY <2>2, PutJoins DEF Service!Next
    <2>3. CASE AnswerRow
        BY <2>3, AnswerServes DEF Service!Next
    <2>4. CASE FailRow
        BY <2>4, FailureServes DEF Service!Next
    <2>5. CASE \/ \E r \in Request : Reply(r) \/ GiveUp(r)
               \/ StartSearch
               \/ TakeFirst \/ TakeMore \/ CloseBatch
               \/ SearchBatch \/ SearchRaises \/ ReadRaises \/ WorkerDies
               \/ UNCHANGED vars
        BY <2>5, InnerSteps
    <2> QED BY <2>1, <2>2, <2>3, <2>4, <2>5 DEF Next, BatchLoop
<1> QED BY <1>1, <1>2, BatchInvariant, FrontInvariant, PoolInvariant, PTL
        DEF SafeSpec, ServesTheLine, Service!SafeSpec
===============================================================================
