--------------------------- MODULE BatchedRetriever ---------------------------
(***************************************************************************)
(* bge_retriever_server.py: the /search endpoint, its pool of threads, the *)
(* request queue, and the daemon thread that answers the queue in batches. *)
(*                                                                         *)
(* Every call of the endpoint is one Request, and its query and top_n are  *)
(* chosen in Init.  A handler parks its call in the executor's backlog     *)
(* (asyncio.to_thread); a pool thread takes it and creates its Future, and *)
(* then, when that thread runs on, queues it and blocks on Future.result() *)
(* with no timeout.  The batch thread takes a batch, runs one FAISS search *)
(* with the largest top_n of the batch, and completes the futures one by   *)
(* one.  The caller is an HTTP client with a timeout: it may give up,      *)
(* which the server never learns.                                          *)
(*                                                                         *)
(* Left out: the embedding itself, the text of documents and scores, the   *)
(* request parser (400 and 422 replies keep no state) and the 503 reply    *)
(* (main() starts uvicorn after RETRIEVER is set).  No code cancels a      *)
(* Future of the request queue, so the filters on future.cancelled() keep  *)
(* every request.                                                          *)
(***************************************************************************)
EXTENDS Integers, Sequences, FiniteSets, ListOps

CONSTANTS
    Request,         \* the calls made of the endpoint
    Query,           \* the non-blank query texts
    Row,             \* row numbers the index can return
    CorpusRow,       \* rows below len(self.corpus)
    BadRow,          \* rows whose line does not parse: seek + readline + json.loads raises
    NoRow,           \* FAISS's -1, a column with no neighbour
    Ranking,         \* Ranking[q]: the columns index.search returns for q, best first
    MaxTopN,         \* the largest top_n a call uses
    QueryBatchSize,  \* self.query_batch_size
    PoolSize,        \* threads of the default executor
    SearchMayFail    \* whether encode_queries or index.search can raise

ASSUME RetrieverAssumption ==
    /\ MaxTopN \in Nat \ {0}
    /\ QueryBatchSize \in Nat \ {0}
    /\ PoolSize \in Nat \ {0}
    /\ CorpusRow \subseteq Row
    /\ BadRow \subseteq CorpusRow
    /\ NoRow \notin Row
    /\ Ranking \in [Query -> Seq(Row \cup {NoRow})]
    /\ \A q \in Query : Len(Ranking[q]) = MaxTopN
    /\ SearchMayFail \in BOOLEAN

VARIABLES
    ask,      \* ask[r]: the query and top_n of call r
    client,   \* client[r]: what the HTTP client of call r knows
    thread,   \* thread[r]: where the handler of call r is
    backlog,  \* handlers submitted to the executor that no thread runs yet
    starting, \* handlers a thread has taken and not yet queued, as they were taken
    future,   \* future[r]: the Future of call r
    queue,    \* self._request_queue
    worker,   \* where the batch thread is
    batch,    \* the batch thread's list of requests
    hits,     \* the indices index.search returned, one row per request
    row       \* the position in the batch of the next future to complete

vars == <<ask, client, thread, backlog, starting, future, queue, worker, batch, hits, row>>
callVars == <<ask, client, thread, backlog, starting>>

Absent  == [kind |-> "absent"]
Pending == [kind |-> "pending"]
Raised  == [kind |-> "raised"]
Result(docs) == [kind |-> "docs", docs |-> docs]

\* The calls that hold a thread of the pool.
Busy == {r \in Request : thread[r] \in {"starting", "blocked"}}

Done(r) == future[r].kind \in {"docs", "raised"}

\* JsonlCorpus.get: a row beyond the offsets is answered by a placeholder.
Get(index) == [id |-> index, missing |-> index \notin CorpusRow]

\* index.search(encode(q), k): the best k columns.
SearchIndex(q, k) == SubSeq(Ranking[q], 1, k)

\* The columns of a search that have a row.
WithRow(columns) == Where(columns, LAMBDA c : c # NoRow)

\* Mutant of Found: the batch's columns are read without the call's own top_n.
FoundUncut(columns, top_n) == WithRow(columns)

\* _materialize_results: own top_n columns, those with a row, read from the corpus.
Found(columns, top_n) == WithRow(SubSeq(columns, 1, top_n))
MaterializeResults(columns, top_n) ==
    LET found == Found(columns, top_n)
    IN  [i \in 1..Len(found) |-> Get(found[i])]

\* Reading one of its documents raises.
ReadFails(columns, top_n) ==
    \E i \in DOMAIN columns : i <= top_n /\ columns[i] \in BadRow

\* k is max(top_n for ... in live_requests).
IsMaxTopN(k) ==
    /\ \A i \in DOMAIN batch : ask[batch[i]].top_n <= k
    /\ \E i \in DOMAIN batch : ask[batch[i]].top_n = k

-------------------------------------------------------------------------------
Init ==
    /\ ask \in [Request -> [query : Query, top_n : 1..MaxTopN]]
    /\ client = [r \in Request |-> "idle"]
    /\ thread = [r \in Request |-> "none"]
    /\ backlog = <<>>
    /\ starting = <<>>
    /\ future = [r \in Request |-> Absent]
    /\ queue = <<>>
    /\ worker = "waiting"
    /\ batch = <<>>
    /\ hits = <<>>
    /\ row = 1

\* The client posts; the handler submits RETRIEVER.search to the executor.
Post(r) ==
    /\ client[r] = "idle"
    /\ client' = [client EXCEPT ![r] = "waiting"]
    /\ thread' = [thread EXCEPT ![r] = "backlog"]
    /\ backlog' = Append(backlog, r)
    /\ UNCHANGED <<ask, starting, future, queue, worker, batch, hits, row>>

\* A free pool thread takes a handler and enters BGERetriever.search.
StartSearch ==
    /\ backlog # <<>>
    /\ Cardinality(Busy) < PoolSize
    /\ LET r == Head(backlog)
       IN  /\ thread' = [thread EXCEPT ![r] = "starting"]
           /\ future' = [future EXCEPT ![r] = Pending]
           /\ starting' = Append(starting, r)
    /\ backlog' = Tail(backlog)
    /\ UNCHANGED <<ask, client, queue, worker, batch, hits, row>>

\* Mutant of PutRequest: the newest request is served first (LifoQueue).
PutRequestLifo(r) ==
    /\ thread[r] = "starting"
    /\ thread' = [thread EXCEPT ![r] = "blocked"]
    /\ starting' = Without(starting, r)
    /\ queue' = <<r>> \o queue
    /\ UNCHANGED <<ask, client, backlog, future, worker, batch, hits, row>>

\* The thread queues its request, which the others may have done before it,
\* and goes on to future.result().
PutRequest(r) ==
    /\ thread[r] = "starting"
    /\ thread' = [thread EXCEPT ![r] = "blocked"]
    /\ starting' = Without(starting, r)
    /\ queue' = Append(queue, r)
    /\ UNCHANGED <<ask, client, backlog, future, worker, batch, hits, row>>

\* future.result() returns or raises; a client that still waits gets 200 or 500.
Reply(r) ==
    /\ thread[r] = "blocked"
    /\ Done(r)
    /\ thread' = [thread EXCEPT ![r] = "returned"]
    /\ client' = IF client[r] = "waiting"
                 THEN [client EXCEPT ![r] = IF future[r].kind = "docs"
                                            THEN "answered" ELSE "failed"]
                 ELSE client
    /\ UNCHANGED <<ask, backlog, starting, future, queue, worker, batch, hits, row>>

\* The client's own timeout; the handler and its thread go on.
GiveUp(r) ==
    /\ client[r] = "waiting"
    /\ client' = [client EXCEPT ![r] = "timed_out"]
    /\ UNCHANGED <<ask, thread, backlog, starting, future, queue, worker, batch, hits, row>>

-------------------------------------------------------------------------------
\* The batch thread's first, blocking get of a batch.
TakeFirst ==
    /\ worker = "waiting"
    /\ queue # <<>>
    /\ batch' = <<Head(queue)>>
    /\ queue' = Tail(queue)
    /\ worker' = "collecting"
    /\ UNCHANGED <<callVars, future, hits, row>>

\* Mutant of TakeMore: <= for <.
TakeMoreOneOver ==
    /\ worker = "collecting"
    /\ Len(batch) <= QueryBatchSize
    /\ queue # <<>>
    /\ batch' = Append(batch, Head(queue))
    /\ queue' = Tail(queue)
    /\ UNCHANGED <<callVars, future, worker, hits, row>>

\* A further get before the deadline.
TakeMore ==
    /\ worker = "collecting"
    /\ Len(batch) < QueryBatchSize
    /\ queue # <<>>
    /\ batch' = Append(batch, Head(queue))
    /\ queue' = Tail(queue)
    /\ UNCHANGED <<callVars, future, worker, hits, row>>

\* The batch is full or the deadline has passed, which it may at any moment.
CloseBatch ==
    /\ worker = "collecting"
    /\ worker' = "searching"
    /\ UNCHANGED <<callVars, future, queue, batch, hits, row>>

\* One search for the whole batch, with the batch's largest top_n.
SearchBatch ==
    /\ worker = "searching"
    /\ \E k \in 1..MaxTopN :
           /\ IsMaxTopN(k)
           /\ hits' = [i \in DOMAIN batch |-> SearchIndex(ask[batch[i]].query, k)]
    /\ row' = 1
    /\ worker' = "answering"
    /\ UNCHANGED <<callVars, future, queue, batch>>

\* Mutant of SearchRaises: the exception is logged and the batch forgotten.
SearchRaisesLogged ==
    /\ SearchMayFail
    /\ worker = "searching"
    /\ row' = 1
    /\ batch' = <<>>
    /\ worker' = "waiting"
    /\ UNCHANGED <<callVars, future, queue, hits>>

\* encode_queries or index.search raises: the handler starts at the first future.
SearchRaises ==
    /\ SearchMayFail
    /\ worker = "searching"
    /\ row' = 1
    /\ worker' = "failing"
    /\ UNCHANGED <<callVars, future, queue, batch, hits>>

\* After the last future the thread goes back to its blocking get.
Advance ==
    IF row = Len(batch)
    THEN /\ worker' = "waiting"
         /\ batch' = <<>>
         /\ row' = 1
    ELSE /\ row' = row + 1
         /\ UNCHANGED <<worker, batch>>

\* set_result of the next request of the batch.
AnswerRow ==
    /\ worker = "answering"
    /\ LET r == batch[row]
       IN  /\ ~ReadFails(hits[row], ask[r].top_n)
           /\ future' = [future EXCEPT ![r] =
                             Result(MaterializeResults(hits[row], ask[r].top_n))]
    /\ Advance
    /\ UNCHANGED <<callVars, queue, hits>>

\* Reading a document of the next request raises: on to the except clause.
ReadRaises ==
    /\ worker = "answering"
    /\ ReadFails(hits[row], ask[batch[row]].top_n)
    /\ row' = 1
    /\ worker' = "failing"
    /\ UNCHANGED <<callVars, future, queue, batch, hits>>

\* Mutant of FailRow: the exception replaces a result that is already set.
FailRowAnyway ==
    /\ worker = "failing"
    /\ future' = [future EXCEPT ![batch[row]] = Raised]
    /\ Advance
    /\ UNCHANGED <<callVars, queue, hits>>

\* set_exception of the next future of the batch.
FailRow ==
    /\ worker = "failing"
    /\ ~Done(batch[row])
    /\ future' = [future EXCEPT ![batch[row]] = Raised]
    /\ Advance
    /\ UNCHANGED <<callVars, queue, hits>>

\* set_exception of a future that already has a result raises
\* InvalidStateError inside the except clause: the thread ends.
WorkerDies ==
    /\ worker = "failing"
    /\ Done(batch[row])
    /\ worker' = "dead"
    /\ UNCHANGED <<callVars, future, queue, batch, hits, row>>

BatchLoop ==
    \/ TakeFirst \/ TakeMore \/ CloseBatch
    \/ SearchBatch \/ SearchRaises
    \/ AnswerRow \/ ReadRaises \/ FailRow \/ WorkerDies

Next ==
    \/ \E r \in Request : Post(r) \/ PutRequest(r) \/ Reply(r) \/ GiveUp(r)
    \/ StartSearch
    \/ BatchLoop

SafeSpec == Init /\ [][Next]_vars

\* The operating system runs the executor's threads, the event loop and the batch thread, a
\* timed get returns, and a client's timeout expires.  Nobody has to post.
Fairness ==
    /\ WF_vars(BatchLoop)
    /\ WF_vars(StartSearch)
    /\ \A r \in Request : WF_vars(PutRequest(r)) /\ WF_vars(Reply(r)) /\ WF_vars(GiveUp(r))

Spec == SafeSpec /\ Fairness

-------------------------------------------------------------------------------
DocSeq == Seq([id : Row, missing : BOOLEAN])

TypeOK ==
    /\ ask \in [Request -> [query : Query, top_n : 1..MaxTopN]]
    /\ client \in [Request -> {"idle", "waiting", "answered", "failed", "timed_out"}]
    /\ thread \in [Request -> {"none", "backlog", "starting", "blocked", "returned"}]
    /\ backlog \in Seq(Request)
    /\ starting \in Seq(Request)
    /\ \A r \in Request :
           \/ future[r] \in {Absent, Pending, Raised}
           \/ future[r].kind = "docs" /\ future[r].docs \in DocSeq
    /\ DOMAIN future = Request
    /\ queue \in Seq(Request)
    /\ worker \in {"waiting", "collecting", "searching", "answering", "failing", "dead"}
    /\ batch \in Seq(Request)
    /\ Len(batch) <= QueryBatchSize
    /\ row \in 1..(QueryBatchSize + 1)

-------------------------------------------------------------------------------
\* What the exhaustive search returns for one call alone, at its own top_n.
DirectAnswer(a) == MaterializeResults(SearchIndex(a.query, a.top_n), a.top_n)

\* Calls of one batch share one search at the batch's largest top_n; each
\* still gets what a search of its own would have returned: its own query's
\* rows, no other's, and no more than its own top_n (_search_batch and
\* _materialize_results pair requests and rows by position).
OwnAnswer ==
    \A r \in Request : future[r].kind = "docs" => future[r].docs = DirectAnswer(ask[r])

\* set_result and set_exception happen at most once per future: whatever the
\* except clause of _search_batch does, a caller never sees its answer change.
CompletedOnce ==
    [][\A r \in Request : Done(r) => future'[r] = future[r]]_vars

\* Among the calls in the queue and in the batch nothing overtakes and nothing
\* is lost or answered twice; before the queue a call can be overtaken, but only
\* by one that is among the PoolSize oldest still to be queued, since a thread
\* of the pool has it: the retriever implements SearchService.
NotDone(s) == Where(s, LAMBDA r : ~Done(r))
ServedOutcome ==
    [r \in Request |-> IF Done(r) THEN future[r] ELSE [kind |-> "none"]]
Service == INSTANCE SearchService
               WITH Answer <- DirectAnswer,
                    Width <- PoolSize,
                    door <- starting \o backlog,
                    line <- NotDone(batch \o queue),
                    outcome <- ServedOutcome
ServesTheLine == Service!SafeSpec

\* With rows that all read back, even if searches raise, the service never
\* stops: every call passes the door and the line is served.
ServiceContinues == Service!Spec

\* A handler that was given to the executor returns, so its pool thread is
\* free again: future.result() has no timeout and relies on the batch thread.
CallsReturn == \A r \in Request : thread[r] = "backlog" ~> thread[r] = "returned"
==============================================================================
