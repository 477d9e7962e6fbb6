---------------------------- MODULE MCToolRollout ----------------------------
(* Settings for ToolRollout: one prompt over many turns, two prompts over one, *)
(* greedy decoding, prompts that leave little padding, a batch without         *)
(* environments, and an engine that gives up.                                  *)
EXTENDS ToolRollout

CONSTANTS q1, q2

MCQuery == {q1, q2}
MCShort == {q2}
MCNone == {}

Deep == [n |-> 2, turns |-> 2, length |-> 10, width |-> 20, maxNew |-> 5, mode |-> "llm",
         doSample |-> TRUE, truths |-> TRUE, balanced |-> TRUE, env |-> TRUE, aborts |-> FALSE,
         prompts |-> <<3>>]

\* Two prompts of which one leaves no padding behind a refined prefix.
Wide == [Deep EXCEPT !.turns = 1, !.length = 4, !.width = 5, !.maxNew = 3, !.prompts = <<3, 1>>]

MCSetting ==
    {Deep, Wide,
     [Deep EXCEPT !.mode = "truncate"],
     [Deep EXCEPT !.mode = "truncate", !.length = 7],
     [Deep EXCEPT !.mode = "none", !.length = 8, !.maxNew = 2],
     [Deep EXCEPT !.balanced = FALSE, !.maxNew = 2],
     [Deep EXCEPT !.doSample = FALSE, !.turns = 3, !.length = 14, !.maxNew = 2,
                  !.width = 4],
     [Deep EXCEPT !.width = 3, !.length = 10, !.maxNew = 2],
     [Wide EXCEPT !.truths = FALSE],
     [Wide EXCEPT !.env = FALSE],
     [Wide EXCEPT !.aborts = TRUE, !.prompts = <<2>>]}

MCUnbalanced == {[Deep EXCEPT !.balanced = FALSE]}
===============================================================================
