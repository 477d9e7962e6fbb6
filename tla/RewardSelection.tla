--------------------------- MODULE RewardSelection ---------------------------
(***************************************************************************)
(* What train_search_policy_grpo.py makes of a finished rollout:           *)
(* compute_reward, select_grpo_samples and the micro-batches of            *)
(* sequence_logprobs.  Rewards are counted in hundredths, so they differ   *)
(* by more than advantage_epsilon or are equal.                            *)
(***************************************************************************)
EXTENDS Integers, Sequences, FiniteSets, SequencesExt, FiniteSetsExt

\* compute_reward: R_correct, R_evidence for a correct prediction, and the cost of
\* every search after the first.
Reward(prediction, label, evidence, searches, cost) ==
    LET correct == prediction = label /\ prediction # "unknown"
        R_correct == CASE correct -> 100
                       [] prediction = "unknown" -> -50
                       [] OTHER -> 0
        R_evidence == IF evidence /\ correct THEN 50 ELSE 0
    IN  R_correct + R_evidence - cost * Max({0, searches - 1})

\* The k-th trajectory of group g: groups are consecutive trajectories.
Member(g, size, k) == (g - 1) * size + k

Total(reward, g, size) == MapThenSumSet(LAMBDA k : reward[Member(g, size, k)], 1..size)

\* What select_grpo_samples takes of group g: nothing if its rewards are equal.  An
\* advantage is given times the group's size and without its positive divisor, the
\* standard deviation.
SamplesOf(reward, g, size) ==
    IF Cardinality({reward[Member(g, size, k)] : k \in 1..size}) = 1 THEN <<>>
    ELSE [k \in 1..size |->
             [state |-> Member(g, size, k),
              advantage |-> size * reward[Member(g, size, k)] - Total(reward, g, size)]]

SelectGrpoSamples(reward, groups, size) ==
    FlattenSeq([g \in 1..groups |-> SamplesOf(reward, g, size)])

\* sequence_logprobs: the pairs go through the model in micro-batches, whose results
\* are concatenated.
InMicroBatches(pairs, size) ==
    FlattenSeq([c \in 1..((Len(pairs) + size - 1) \div size) |->
        SubSeq(pairs, (c - 1) * size + 1, Min({c * size, Len(pairs)}))])
==============================================================================
