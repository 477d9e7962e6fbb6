------------------------------ MODULE MCPpoStep ------------------------------
(* Configurations for PpoStep: two or four ranks, batches of up to eight rows. *)
EXTENDS PpoStep

Base == [backend |-> "fsdp", world |-> 2, sp |-> 1, tp |-> 1, pp |-> 1, infer |-> 1,
         batch |-> 2, n |-> 2, mini |-> 1, micro |-> 0, microPerGpu |-> 1, epochs |-> 1,
         estimator |-> "grpo", dynamic |-> FALSE, maxTokens |-> 4, balance |-> TRUE,
         ref |-> TRUE, rm |-> FALSE, warmup |-> 0, saves |-> TRUE, valBefore |-> TRUE,
         testFreq |-> 2, valSize |-> 3, valN |-> 1, lens |-> {1, 2, 4}, finite |-> TRUE]

\* Three rows on each of two ranks.
Threes == [Base EXCEPT !.batch = 6, !.n = 1, !.mini = 6, !.lens = {1, 3}]

\* Two ranks of an Ulysses group and two of an engine among four.
Grouped4 == [Base EXCEPT !.world = 4, !.sp = 2, !.infer = 2, !.batch = 4, !.mini = 2,
                         !.microPerGpu = 2, !.lens = {1, 3}]

Megatron == [Base EXCEPT !.backend = "megatron", !.world = 4, !.tp = 2, !.batch = 4,
                         !.n = 1, !.mini = 2, !.lens = {1, 2}]

Pipelines == [Megatron EXCEPT !.tp = 1, !.pp = 2]

MCSettings ==
    {Base,
     [Base EXCEPT !.estimator = "rloo", !.valSize = 1, !.valN = 3, !.world = 4,
                  !.batch = 4, !.mini = 4, !.lens = {1, 2}],
     [Base EXCEPT !.estimator = "reinforce_plus_plus_baseline", !.balance = FALSE],
     [Base EXCEPT !.estimator = "reinforce_plus_plus", !.rm = TRUE, !.ref = FALSE],
     [Base EXCEPT !.estimator = "remax", !.micro = 2, !.microPerGpu = 0, !.mini = 2],
     [Base EXCEPT !.micro = 2],
     [Base EXCEPT !.batch = 3],
     [Base EXCEPT !.mini = 2, !.microPerGpu = 4],
     [Base EXCEPT !.estimator = "gae", !.finite = FALSE, !.lens = {1, 2}],
     [Base EXCEPT !.saves = FALSE],
     [Base EXCEPT !.saves = FALSE, !.valBefore = FALSE, !.testFreq = 1],
     [Base EXCEPT !.dynamic = TRUE, !.maxTokens = 3],
     [Threes EXCEPT !.estimator = "gae", !.dynamic = TRUE, !.maxTokens = 4, !.epochs = 2,
                    !.lens = {1, 4}, !.testFreq = 0],
     [Threes EXCEPT !.dynamic = TRUE, !.mini = 4, !.maxTokens = 3, !.rm = TRUE],
     [Threes EXCEPT !.microPerGpu = 2],
     [Threes EXCEPT !.mini = 4, !.estimator = "gae", !.warmup = 2],
     Grouped4,
     [Grouped4 EXCEPT !.dynamic = TRUE, !.maxTokens = 2, !.mini = 4,
                      !.estimator = "gae"],
     Megatron,
     [Megatron EXCEPT !.infer = 2, !.estimator = "gae", !.balance = FALSE],
     [Megatron EXCEPT !.infer = 4],
     [Megatron EXCEPT !.finite = FALSE, !.lens = {1}],
     [Megatron EXCEPT !.mini = 3, !.batch = 8, !.lens = {2}],
     [Megatron EXCEPT !.world = 2, !.tp = 1, !.pp = 2],
     Pipelines,
     [Pipelines EXCEPT !.estimator = "rloo", !.n = 2, !.lens = {1}]}

MCPipelines == {Pipelines}
===============================================================================
