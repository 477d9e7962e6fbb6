-------------------------- MODULE MCBatchedRetriever --------------------------
(* Small instances of BatchedRetriever: two queries, one with a short FAISS   *)
(* row (-1 padding), one whose best row is beyond the corpus and whose second *)
(* is the one that may not read back.                                         *)
EXTENDS BatchedRetriever

CONSTANTS q1, q2

MCQuery == {q1, q2}
MCRow == 1..3
MCCorpusRow == 1..2
MCNoRow == -1
MCRanking == [q \in Query |-> IF q = q1 THEN <<1, MCNoRow>> ELSE <<3, 2>>]
MCOneQuery == {q2}
MCNoBadRow == {}
MCBadRow == {2}
===============================================================================
