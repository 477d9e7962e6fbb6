--------------------------- MODULE MCSearchRollout ---------------------------
(* Small instances of SearchRollout: a pair of trajectories over two turns,   *)
(* one trajectory over many, two groups over one, and the other arguments.    *)
(* Of the two queries only one has gold evidence, so that an output can be    *)
(* repeated and can differ, and with one piece of free text an output can be  *)
(* the end of another.  What a launch's policy puts out is what its size      *)
(* allows.                                                                    *)
EXTENDS SearchRollout

CONSTANTS q1, q2, hm

MCQuery == {q1, q2}
MCThought == {hm}
MCGold == {q1}
MCShort == {q2}

Hm == <<[says |-> "piece", of |-> hm]>>
MCText == {<<>>, Hm}

Pair == [labels |-> <<"true">>, group_size |-> 2, max_turns |-> 2, force_final |-> TRUE,
         summary_mode |-> "llm", search_cost |-> 5, micro_batch |-> 2,
         policy |-> {Search(q1, <<>>), Search(q2, <<>>), Answer("true"), Empty}]
Deep == [Pair EXCEPT !.group_size = 1, !.max_turns = 4, !.force_final = FALSE,
                     !.policy = {Search(q1, <<>>), Search(q1, Hm), Think(Hm), Answer("true")}]

MCArgs ==
    {Pair, Deep,
     [Deep EXCEPT !.max_turns = 3, !.force_final = TRUE, !.summary_mode = "truncate",
                  !.policy = Output],
     [Pair EXCEPT !.labels = <<"false", "unknown">>, !.max_turns = 1, !.force_final = FALSE,
                  !.policy = {Search(q1, <<>>), Search(q2, <<>>), Answer("true"),
                              Answer("false")}]}

ASSUME CheapSearches == SearchesNeverOutweigh
===============================================================================
