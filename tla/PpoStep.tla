------------------------------- MODULE PpoStep -------------------------------
(***************************************************************************)
(* The training loop of a VERL run, RayPPOTrainer.fit: a driver that sends *)
(* a batch to groups of ranks and unites what comes back with the batch.   *)
(*                                                                         *)
(* A value is modelled by what it was computed from: a column of a row is  *)
(* the set of what its entry is made of, empty while the row has none, so  *)
(* that a step which moves rows or answers out of order shows in the       *)
(* columns.  A response is identified by the prompt it answers, its number *)
(* and the version of the policy that wrote it.  The optimizer's steps are *)
(* counted; of their gradients only whether they are finite, of parameters,*)
(* losses and texts nothing is kept.                                       *)
(***************************************************************************)
EXTENDS Integers, Sequences, FiniteSets, FiniteSetsExt, SeqlenBalancing, DataDispatch

CONSTANTS
    Settings,     \* the configurations to start from
    TotalSteps    \* total_training_steps

Estimators == {"gae", "grpo", "rloo", "reinforce_plus_plus", "reinforce_plus_plus_baseline",
               "remax"}

ASSUME PpoAssumption ==
    /\ TotalSteps \in Nat \ {0}
    /\ \A s \in Settings :
        /\ s.backend \in {"fsdp", "megatron"} /\ s.estimator \in Estimators
        /\ {s.world, s.sp, s.tp, s.pp, s.infer, s.batch, s.n, s.mini, s.epochs, s.valSize,
            s.valN, s.maxTokens} \subseteq Nat \ {0}
        /\ {s.micro, s.microPerGpu, s.warmup, s.testFreq} \subseteq Nat
        /\ s.world % (s.sp * s.tp * s.pp) = 0 /\ s.world % s.infer = 0
        /\ {s.dynamic, s.balance, s.ref, s.rm, s.saves, s.valBefore, s.finite} \subseteq BOOLEAN
        /\ s.lens \subseteq Nat \ {0} /\ s.lens # {} /\ IsFiniteSet(s.lens)
        /\ s.backend = "megatron" => s.sp = 1 /\ ~s.dynamic

VARIABLES
    setting,  \* the layout of DataDispatch, with train_batch_size (batch), rollout.n (n),
              \* ppo_mini_batch_size (mini), ppo_micro_batch_size (micro) and
              \* ppo_micro_batch_size_per_gpu, 0 for none, ppo_epochs (epochs), adv_estimator,
              \* use_dynamic_bsz (dynamic), ppo_max_token_len_per_gpu (maxTokens),
              \* balance_batch, whether there is a reference policy (ref) and a reward model
              \* (rm), critic_warmup, val_before_train, test_freq, the validation set's size
              \* and repeats; saves: the reward manager takes curr_save_path; finite: no
              \* gradient overflows; lens: the token counts a row may have, of which the
              \* largest is the padded width
    pc,       \* where fit is
    step,     \* global_steps
    gen,      \* gen_batch_output, until it is united with the batch
    rows,     \* the batch
    actor,    \* optimizer steps the policy has made
    engine,   \* the version of the policy the inference engine holds
    updates,  \* the optimizer steps of this global step, of critic and policy
    val       \* the rows of the last validation

vars == <<setting, pc, step, gen, rows, actor, engine, updates, val>>

Critic == setting.estimator = "gae"

Width == Max(setting.lens)

-------------------------------------------------------------------------------
(* Configuration *)

\* _validate_config, for the actor and for the critic, which has the actor's sizes.
ConfigAccepted ==
    /\ (setting.batch * setting.n) % setting.world = 0
    /\ ~setting.dynamic =>
        /\ (setting.micro = 0) # (setting.microPerGpu = 0)
        /\ setting.batch >= setting.mini
        /\ setting.micro # 0 =>
            /\ setting.mini % setting.micro = 0
            /\ setting.micro * setting.sp >= setting.world

\* Mutant of Mini: divided by the ranks, not by the data parallel ranks.
MiniOfWorld == (setting.mini * setting.n) \div setting.world

\* The sizes per data parallel rank, once every worker has normalised them.
Mini == (setting.mini * setting.n) \div Dp(setting)
Micro == IF setting.micro = 0 THEN setting.microPerGpu ELSE setting.micro \div Dp(setting)

WorkersStart ==
    IF setting.backend = "fsdp"
    THEN Mini > 0 /\ (setting.micro # 0 => Mini % Micro = 0)
    ELSE setting.infer <= setting.tp /\ setting.tp % setting.infer = 0

-------------------------------------------------------------------------------
(* A rank's work on its rows *)

Lens(part) == [i \in DOMAIN part |-> part[i].resp.len]

\* Mutant of MicroBatches: every rank takes as many as it needs itself.
OwnMicroBatches(part, others) ==
    IF setting.dynamic
    THEN BalancedPartitions(Lens(part),
             MicroBatchesNeeded(Lens(part), setting.maxTokens * setting.sp), FALSE)
    ELSE SplitBy([i \in DOMAIN part |-> i], Micro)

\* rearrange_micro_batches, or split: the micro-batches of part, which is what one
\* rank has of a batch, as indices into it; others has the parts of all ranks.  The
\* number of micro-batches is the largest of all ranks (all_reduce with MAX).
MicroBatches(part, others) ==
    IF setting.dynamic
    THEN LET needed == {MicroBatchesNeeded(Lens(o), setting.maxTokens * setting.sp) : o \in others}
         IN  BalancedPartitions(Lens(part), Max(needed), FALSE)
    ELSE SplitBy([i \in DOMAIN part |-> i], Micro)

Ranks == 0..(Dp(setting) - 1)

\* The order the micro-batches put the rows of rank d in.
ForwardOrder(d) ==
    FlattenSeq(MicroBatches(LocalRows(setting, rows, d),
                            {LocalRows(setting, rows, e) : e \in Ranks}))

\* Mutant of LogProbs: the results stay in the order of the micro-batches.
LogProbsNotPutBack(d) ==
    LET part == LocalRows(setting, rows, d)
        order == ForwardOrder(d)
    IN  [i \in DOMAIN part |-> part[order[i]].resp]

\* compute_log_prob: the rows go through the model in that order; the results are
\* put back.
LogProbs(d) ==
    LET part == LocalRows(setting, rows, d)
        order == ForwardOrder(d)
        back == ReverseIdx(order)
    IN  [i \in DOMAIN part |-> part[order[back[i]]].resp]

\* compute_values: the same, but DataParallelPPOCritic masks the values by the
\* rows' attention masks before it puts them back.
StateValues(d) ==
    LET part == LocalRows(setting, rows, d)
        order == ForwardOrder(d)
        back == ReverseIdx(order)
    IN  [i \in DOMAIN part |-> [of |-> part[order[back[i]]].resp,
                                mask |-> part[back[i]].resp]]

\* An assertion or a split fails in a forward pass.
ForwardRaises ==
    \/ setting.dynamic /\ setting.maxTokens * setting.sp < Width
    \/ setting.backend = "megatron" /\ Len(LocalRows(setting, rows, 0)) % Micro # 0

\* FSDP gathers the parameters for every forward and backward pass: a rank with
\* fewer micro-batches than another leaves it waiting.
InStep(batches) == \A d, e \in Ranks : Len(batches[d]) = Len(batches[e])

ForwardInStep ==
    LET parts == {LocalRows(setting, rows, e) : e \in Ranks}
    IN  InStep([d \in Ranks |-> MicroBatches(LocalRows(setting, rows, d), parts)])

MiniBatchesOf(d) == SplitBy(LocalRows(setting, rows, d), Mini)

\* Mutant of MiniBatch: every rank trains the first rank's rows.
SameMiniBatch(d, at) ==
    LET all == MiniBatchesOf(0) IN all[((at - 1) % Len(all)) + 1]

MiniBatch(d, at) ==
    LET all == MiniBatchesOf(d) IN all[((at - 1) % Len(all)) + 1]

\* Mutant of Weight: gradient_accumulation also with dynamic micro-batches.
WeightAlike(micro, count) == <<1, Mini \div setting.microPerGpu>>

\* The factor update_policy and update_critic give the loss of a micro-batch: its
\* share of a mini-batch or one over gradient_accumulation, which may be zero;
\* Megatron's schedule averages over the micro-batches.
Weight(micro, count) ==
    CASE setting.backend = "megatron" -> <<1, count>>
      [] setting.dynamic -> <<Len(micro), Mini>>
      [] OTHER -> <<1, Mini \div Micro>>

MicroBatchesAt(d, at) ==
    MicroBatches(MiniBatch(d, at), {MiniBatch(e, at) : e \in Ranks})

\* What rank d does for the optimizer step numbered at.
Gradients(d, at) ==
    LET mine == MiniBatch(d, at)
        micros == MicroBatchesAt(d, at)
    IN  [j \in DOMAIN micros |->
            [rows |-> [i \in DOMAIN micros[j] |-> mine[micros[j][i]].resp],
             weight |-> Weight(micros[j], Len(micros))]]

\* An assertion, a split or a range fails before the first optimizer step.
UpdateRaises ==
    \/ ForwardRaises
    \/ setting.backend = "megatron" /\ Mini = 0
    \/ setting.backend = "megatron" /\ Len(LocalRows(setting, rows, 0)) % Mini # 0
    \/ setting.backend = "megatron" /\ Mini % Micro # 0

\* A tensor divided by a gradient_accumulation of zero raises nothing: the loss and
\* its gradient are infinite or not a number.
DividesByZero == setting.backend = "fsdp" /\ ~setting.dynamic /\ Mini \div Micro = 0

\* Whether an optimizer step is made: _optimizer_step of actor and critic skips one
\* whose gradient is not finite, with a warning.  Megatron's ends the job instead.
Made ==
    IF setting.backend = "megatron" \/ (setting.finite /\ ~DividesByZero) THEN {TRUE}
    ELSE IF DividesByZero THEN {FALSE}
    ELSE BOOLEAN

\* update_successful may be false.
StepRaises == setting.backend = "megatron" /\ ~setting.finite

-------------------------------------------------------------------------------
(* The driver *)

Response(p, k, by, len) == [of |-> p, k |-> k, by |-> by, len |-> len]

\* The sharding manager copies the actor's parameters into the engine as it is
\* entered, before every generation.
Synced == actor

Raise == pc' = "raised" /\ UNCHANGED <<step, gen, rows, actor, engine, updates, val>>

Go(to) == pc' = to /\ UNCHANGED <<step, actor>>

Init ==
    /\ setting \in Settings
    /\ pc = "config" /\ step = 0
    /\ gen = <<>> /\ rows = <<>> /\ updates = <<>> /\ val = <<>>
    /\ actor = 0 /\ engine = 0

ValidateConfig ==
    /\ pc = "config"
    /\ Go(IF ConfigAccepted THEN "init" ELSE "rejected")
    /\ UNCHANGED <<setting, gen, rows, engine, updates, val>>

InitWorkers ==
    /\ pc = "init"
    /\ Go(IF ~WorkersStart THEN "rejected"
          ELSE IF setting.valBefore THEN "validate" ELSE "next")
    /\ UNCHANGED <<setting, gen, rows, engine, updates, val>>

\* global_steps moves on, and the next batch is fetched.
NextBatch ==
    /\ pc = "next"
    /\ pc' = IF step = TotalSteps THEN "finished" ELSE "generate"
    /\ step' = IF step = TotalSteps THEN step ELSE step + 1
    /\ rows' = <<>> /\ updates' = <<>> /\ val' = <<>>
    /\ UNCHANGED <<setting, gen, actor, engine>>

Prompts == [p \in 1..setting.batch |-> p]

Generate ==
    /\ pc = "generate"
    /\ IF setting.batch % PromptsDivisor(setting) # 0 THEN Raise
       ELSE \E lens \in [1..(setting.batch * setting.n) -> setting.lens] :
            LET answers == [p \in 1..setting.batch |->
                    [k \in 1..setting.n |->
                        Response(p, k, Synced, lens[(p - 1) * setting.n + k])]]
            IN  /\ gen' = Generations(setting, Prompts, answers)
                /\ engine' = Synced
                /\ Go(IF setting.estimator = "remax" THEN "baseline" ELSE "unite")
                /\ UNCHANGED <<rows, updates, val>>
    /\ UNCHANGED setting

NewRow(p) ==
    [uid |-> p, prompt |-> p, resp |-> {}, base |-> {}, old |-> {}, ref |-> {}, values |-> {},
     score |-> {}, reward |-> {}, adv |-> {}, scale |-> {}]

\* ReMax: a greedy response to every prompt, scored and dropped again.
GenerateBaseline ==
    /\ pc = "baseline"
    /\ LET greedy == Generations(setting, Prompts,
                         [p \in DOMAIN Prompts |-> <<Response(p, 0, Synced, Width)>>])
       IN  rows' = [i \in DOMAIN Prompts |-> [NewRow(i) EXCEPT !.base = {greedy[i]}]]
    /\ engine' = Synced
    /\ Go("unite")
    /\ UNCHANGED <<setting, gen, updates, val>>

\* uid, repeat and union with the responses.
UniteResponses ==
    /\ pc = "unite"
    /\ LET prompts == IF rows = <<>> THEN [p \in DOMAIN Prompts |-> NewRow(p)] ELSE rows
           repeated == Repeat(prompts, setting.n)
       IN  rows' = [i \in DOMAIN repeated |-> [repeated[i] EXCEPT !.resp = gen[i]]]
    /\ gen' = <<>>
    /\ Go(IF setting.balance THEN "balance" ELSE "old_log_prob")
    /\ UNCHANGED <<setting, engine, updates, val>>

\* DataProto.reorder takes every column of the batch along, tensors or not.
Reorder(q, order) == [i \in DOMAIN order |-> q[order[i]]]

\* Mutant of BalanceOrder: only the first part is kept.
OwnOrder(lens) == BalancedPartitions(lens, setting.world, TRUE)[1]

BalanceOrder(lens) == FlattenSeq(BalancedPartitions(lens, setting.world, TRUE))

BalanceBatch ==
    /\ pc = "balance"
    /\ rows' = Reorder(rows, BalanceOrder(Lens(rows)))
    /\ Go("old_log_prob")
    /\ UNCHANGED <<setting, gen, engine, updates, val>>

OldLogProb ==
    /\ pc = "old_log_prob"
    /\ \/ ForwardRaises /\ Raise
       \/ /\ ~ForwardRaises /\ ForwardInStep
          /\ LET out == Collected(setting, [d \in Ranks |-> LogProbs(d)])
             IN  rows' = [i \in DOMAIN rows |->
                             [rows[i] EXCEPT !.old = {[of |-> out[i], under |-> actor]}]]
          /\ Go("ref")
          /\ UNCHANGED <<gen, engine, updates, val>>
    /\ UNCHANGED setting

RefLogProb ==
    /\ pc = "ref"
    /\ IF setting.ref
       THEN ForwardInStep /\
            LET out == Collected(setting, [d \in Ranks |-> LogProbs(d)])
            IN  rows' = [i \in DOMAIN rows |->
                            [rows[i] EXCEPT !.ref = {[of |-> out[i], under |-> 0]}]]
       ELSE UNCHANGED rows
    /\ Go("values")
    /\ UNCHANGED <<setting, gen, engine, updates, val>>

ComputeValues ==
    /\ pc = "values"
    /\ IF Critic
       THEN ForwardInStep /\
            LET out == Collected(setting, [d \in Ranks |-> StateValues(d)])
            IN  rows' = [i \in DOMAIN rows |-> [rows[i] EXCEPT !.values = {out[i]}]]
       ELSE UNCHANGED rows
    /\ Go("score")
    /\ UNCHANGED <<setting, gen, engine, updates, val>>

\* The reward model's score, or the reward manager's by the row's ground truth.
\* The first call of the manager fails whichever it is: re_call has no
\* reward_extra_info to return, the others take no curr_save_path; fit scores again
\* in its except branch.
ComputeScores ==
    /\ pc = "score"
    /\ LET out == Collected(setting, [d \in Ranks |-> LogProbs(d)])
           Scored(i) ==
               IF setting.rm THEN {[of |-> out[i], truth |-> out[i].of]}
               ELSE {[of |-> rows[i].resp, truth |-> rows[i].prompt]}
       IN  rows' = [i \in DOMAIN rows |-> [rows[i] EXCEPT !.score = Scored(i)]]
    /\ setting.rm => ForwardInStep
    /\ Go("reward")
    /\ UNCHANGED <<setting, gen, engine, updates, val>>

\* token_level_rewards: the scores, less the KL penalty when there is one.
ApplyKlPenalty ==
    /\ pc = "reward"
    /\ rows' = [i \in DOMAIN rows |->
                   LET from == IF setting.ref
                               THEN rows[i].score \cup rows[i].old \cup rows[i].ref
                               ELSE rows[i].score
                   IN  [rows[i] EXCEPT !.reward = {c.of : c \in from}]]
    /\ Go("advantage")
    /\ UNCHANGED <<setting, gen, engine, updates, val>>

Grouped == setting.estimator \in {"grpo", "rloo", "reinforce_plus_plus_baseline"}

\* masked_whiten takes mean and variance over all rows.
Whitens == setting.estimator \in {"gae", "reinforce_plus_plus", "reinforce_plus_plus_baseline"}

\* Mutant of GroupOf: groups are looked for where the responses were generated.
NeighboursOf(i) == {j \in DOMAIN rows : (j - 1) \div setting.n = (i - 1) \div setting.n}

\* The rows the estimator compares row i with.
GroupOf(i) == {j \in DOMAIN rows : rows[j].uid = rows[i].uid}

\* An advantage is what adv is made of, whitened with what scale is made of.
ComputeAdvantage ==
    /\ pc = "advantage"
    /\ LET Sources(i) ==
               IF Grouped THEN UNION {rows[j].reward : j \in GroupOf(i)}
               ELSE rows[i].reward \cup {v.of : v \in rows[i].values} \cup rows[i].base
           all == IF Whitens THEN UNION {Sources(i) : i \in DOMAIN rows} ELSE {}
       IN  rows' = [i \in DOMAIN rows |-> [rows[i] EXCEPT !.adv = Sources(i), !.scale = all]]
    /\ Go(IF Critic THEN "update_critic"
          ELSE IF setting.warmup <= step THEN "update_actor" ELSE "test")
    /\ UNCHANGED <<setting, gen, engine, updates, val>>

Steps(who) == Where(updates, LAMBDA u : u.who = who)

LastUpdate == setting.epochs * Len(MiniBatchesOf(0))

\* One optimizer step of the group who, on all its ranks, made or skipped.
OptimizerStep(who, made) ==
    LET at == Len(Steps(who)) + 1
    IN  /\ InStep([d \in Ranks |-> MicroBatchesAt(d, at)])
        /\ updates' = Append(updates, [who |-> who, at |-> at, made |-> made,
                                       parts |-> [d \in Ranks |-> Gradients(d, at)]])

UpdateCritic ==
    /\ pc = "update_critic"
    /\ \/ (UpdateRaises \/ StepRaises) /\ Raise
       \/ /\ ~UpdateRaises /\ \E made \in Made : OptimizerStep("critic", made)
          /\ Go(IF Len(Steps("critic")) + 1 < LastUpdate THEN "update_critic"
                ELSE IF setting.warmup <= step THEN "update_actor" ELSE "test")
          /\ UNCHANGED <<gen, rows, engine, val>>
    /\ UNCHANGED setting

UpdateActor ==
    /\ pc = "update_actor"
    /\ \/ (UpdateRaises \/ StepRaises) /\ Raise
       \/ /\ ~UpdateRaises
          /\ \E made \in Made :
                /\ OptimizerStep("actor", made)
                /\ actor' = IF made THEN actor + 1 ELSE actor
          /\ pc' = IF Len(Steps("actor")) + 1 < LastUpdate THEN "update_actor" ELSE "test"
          /\ UNCHANGED <<step, gen, rows, engine, val>>
    /\ UNCHANGED setting

Test ==
    /\ pc = "test"
    /\ Go(IF setting.testFreq > 0 /\ (step = TotalSteps \/ step % setting.testFreq = 0)
          THEN "validate" ELSE "next")
    /\ UNCHANGED <<setting, gen, rows, engine, updates, val>>

\* _validate: every prompt of the validation set valN times, padded to the number
\* of ranks.  A manager that takes no curr_save_path raises here: nothing catches it.
Validate ==
    /\ pc = "validate"
    /\ IF ~setting.saves THEN Raise
       ELSE LET tests == Repeat([p \in 1..setting.valSize |-> p], setting.valN)
                out == Generations(setting, Padded(tests, setting.world),
                           [p \in 1..setting.valSize |-> <<Response(p, 0, Synced, Width)>>])
                answers == Unpadded(out, PadSize(tests, setting.world))
            IN  /\ val' = [i \in DOMAIN answers |->
                              [prompt |-> tests[i], resp |-> answers[i]]]
                /\ engine' = Synced
                /\ Go("next")
                /\ UNCHANGED <<gen, rows, updates>>
    /\ UNCHANGED setting

Done == pc \in {"rejected", "raised", "finished"} /\ UNCHANGED vars

Next ==
    \/ ValidateConfig \/ InitWorkers \/ NextBatch
    \/ Generate \/ GenerateBaseline \/ UniteResponses \/ BalanceBatch
    \/ OldLogProb \/ RefLogProb \/ ComputeValues
    \/ ComputeScores \/ ApplyKlPenalty \/ ComputeAdvantage
    \/ UpdateCritic \/ UpdateActor \/ Test \/ Validate
    \/ Done

Spec == Init /\ [][Next]_vars

-------------------------------------------------------------------------------
(* Properties *)

Columns == {"uid", "prompt", "resp", "base", "old", "ref", "values", "score", "reward", "adv",
            "scale"}

\* The driver's state: a batch is a sequence of whole rows, and versions of the
\* policy are numbers of optimizer steps made.
TypeOK ==
    /\ setting \in Settings /\ step \in 0..TotalSteps
    /\ pc \in {"config", "init", "next", "generate", "baseline", "unite", "balance",
              "old_log_prob", "ref", "values", "score", "reward", "advantage",
              "update_critic", "update_actor", "test", "validate"}
             \cup {"rejected", "raised", "finished"}
    /\ actor \in Nat /\ engine \in 0..actor
    /\ Len(rows) \in {0, setting.batch, setting.batch * setting.n}
    /\ \A i \in DOMAIN rows : DOMAIN rows[i] = Columns
    /\ Len(gen) \in {0, setting.batch * setting.n}

\* Megatron generates out of order when pipeline ranks and data parallel ranks are
\* both several (see PipelineKeepsOrder).
Misplaces == setting.backend = "megatron" /\ setting.pp > 1 /\ Dp(setting) > 1

United == rows # <<>> /\ pc \notin {"unite", "baseline"}

\* Through dispatch, gathering, micro-batching, balancing and union, whatever a row
\* holds was computed for its own response, and its response for its own prompt
\* (union takes columns by position; protocol.py checks only the length).  The
\* ratio starts from the policy that wrote the response, the reference is the policy
\* before any update.  Values are masked by the row's own attention mask, unless its
\* rank put several micro-batches of rows in another order (dp_critic.py masks first
\* and puts the rows back afterwards).  An advantage is made of responses to the row's
\* own prompt, before masked_whiten shifts and scales it with all the batch.
RowsStayAligned ==
    United => \A i \in DOMAIN rows :
        LET r == rows[i]
        IN  /\ \A c \in r.old \cup r.ref \cup r.values \cup r.score : c.of = r.resp
            /\ \A c \in r.old : c.under = r.resp.by
            /\ \A c \in r.ref : c.under = 0
            /\ \A c \in r.base : c.by = r.resp.by
            /\ \A v \in r.values : v.mask = r.resp \/ setting.dynamic
            /\ r.reward \subseteq {r.resp}
            /\ ~Misplaces =>
                /\ r.resp.of = r.prompt
                /\ \A c \in r.base \cup r.adv : c.of = r.prompt
                /\ \A c \in r.score : c.truth = r.prompt

\* The generation of a batch and its collection keep the order of the prompts, n
\* responses to each: decorator.py:182-191 draws a batch ABCDEFGH that is
\* dispatched over pp and dp ranks and collected as ABCDEFGH.
PipelineKeepsOrder ==
    \A i \in DOMAIN gen : gen[i].of = ((i - 1) \div setting.n) + 1

\* An estimator with groups compares a response with exactly the n responses to its
\* prompt, although the batch was reordered before (ray_trainer.py:890-892 warns of
\* it), the others start from the row's own alone; and of the advantages GAE,
\* REINFORCE++ and its baseline whiten none is left out of mean and variance, while
\* those of grpo, rloo and remax depend on nothing but the row's own prompt.
GroupsAreWhole ==
    (pc \in {"update_critic", "update_actor", "test"} /\ ~Misplaces) =>
        \A i \in DOMAIN rows :
            /\ IF Grouped
               THEN /\ Cardinality(rows[i].adv) = setting.n
                    /\ \A r \in rows[i].adv : r.of = rows[i].prompt /\ r.k \in 1..setting.n
               ELSE rows[i].adv = {rows[i].resp} \cup rows[i].base
            /\ rows[i].scale = IF setting.estimator \in {"grpo", "rloo", "remax"} THEN {}
                               ELSE {rows[j].resp : j \in DOMAIN rows}

\* Every ppo epoch takes the gradient of every row once: over the mini-batches, ranks
\* and micro-batches of an epoch none is left out and none is taken twice.  Whether
\* the optimizer then makes its step is Made.
TrainedOncePerEpoch ==
    pc = "test" => \A who \in {updates[u].who : u \in DOMAIN updates} :
        \A e \in 1..setting.epochs :
            LET inEpoch == Where(Steps(who), LAMBDA u :
                               ((u.at - 1) \div Len(MiniBatchesOf(0))) + 1 = e)
                trained == FlattenSeq([u \in DOMAIN inEpoch |->
                               ConcatParts(Dp(setting), [d \in Ranks |->
                                   FlattenSeq([j \in DOMAIN inEpoch[u].parts[d] |->
                                                  inEpoch[u].parts[d][j].rows])])])
            IN  /\ Len(trained) = Len(rows)
                /\ ToSet(trained) = {rows[i].resp : i \in DOMAIN rows}

\* Every optimizer step gives its mini-batch weight one on every rank, whatever the
\* micro-batches, except when the micro-batch size does not divide the mini-batch
\* or the batch leaves a short last mini-batch; and a step whose weight is divided by
\* zero never reaches the parameters.
UpdatesWeighOne ==
    \A u \in DOMAIN updates : \A d \in Ranks :
        LET parts == updates[u].parts[d]
            total[j \in 0..Len(parts)] ==
                IF j = 0 THEN 0 ELSE total[j - 1] + parts[j].weight[1]
        IN  IF parts[1].weight[2] = 0 THEN ~updates[u].made
            ELSE \/ total[Len(parts)] = parts[1].weight[2]
                 \/ ~setting.dynamic /\ Mini % Micro # 0
                 \/ (Len(rows) \div Dp(setting)) % Mini # 0

\* For whatever lengths a batch has, and however many parts it is dealt to, the
\* assertions of the partitioner hold: every row is in one part, no part is empty,
\* equal sizes are equal.
Partitioned ==
    LET lens == Lens(rows)
    IN  /\ IsPartition(lens, setting.world, TRUE, BalancedPartitions(lens, setting.world, TRUE))
        /\ \A k \in 1..Len(rows) :
               IsPartition(lens, k, FALSE, BalancedPartitions(lens, k, FALSE))

\* The work is dealt evenly: after balance_batch no two ranks' token counts differ by
\* more than a row's length, and a micro-batch exceeds max_token_len by less than one
\* row of full width (rearrange_micro_batches means not to exceed it at all).
WorkIsBalanced ==
    /\ pc = "balance" => Partitioned
    /\ (setting.balance /\ United /\ pc # "balance") =>
        LET tokens == {Tokens(Lens(rows), Chunk([i \in DOMAIN rows |-> i], setting.world, r)) :
                       r \in 0..(setting.world - 1)}
        IN  Max(tokens) - Min(tokens) <= Width
    /\ setting.dynamic => \A u \in DOMAIN updates : \A d \in Ranks :
        \A j \in DOMAIN updates[u].parts[d] :
            LET micro == updates[u].parts[d][j].rows
            IN  Tokens([i \in DOMAIN micro |-> micro[i].len], [i \in DOMAIN micro |-> i])
                    < setting.maxTokens * setting.sp + Width

\* Validation scores every prompt of its set val_kwargs.n times and no padding row,
\* each with a response of the current policy to it.
ValidationCoversAll ==
    val # <<>> =>
        /\ \A p \in 1..setting.valSize :
               Cardinality({i \in DOMAIN val : val[i].prompt = p}) = setting.valN
        /\ Len(val) = setting.valSize * setting.valN
        /\ \A i \in DOMAIN val :
               /\ val[i].resp.by = actor
               /\ Misplaces \/ val[i].resp.of = val[i].prompt

\* A configuration that passed all checks still raises during training, but only
\* one of these: its prompts, not the responses that _validate_config counts, do
\* not divide among the ranks; its reward manager cannot validate; a row's width is
\* above the token limit; under Megatron, sizes that do not divide one another or
\* leave a rank's mini-batch empty, and a gradient that overflows.  Under FSDP a
\* mini-batch smaller than a micro-batch is no reason: its updates are lost silently.
RaisesOnlyWhen ==
    LET micro == IF setting.micro = 0 THEN setting.microPerGpu
                 ELSE setting.micro \div Dp(setting)
        mini == (setting.mini * setting.n) \div Dp(setting)
        share == (setting.batch * setting.n) \div Dp(setting)
    IN  pc = "raised" =>
            \/ setting.batch % setting.world # 0
            \/ ~setting.saves
            \/ setting.dynamic /\ setting.maxTokens * setting.sp < Width
            \/ /\ setting.backend = "megatron"
               /\ \/ ~setting.finite \/ mini = 0
                  \/ share % micro # 0 \/ share % mini # 0 \/ mini % micro # 0

\* No rank waits for another in a pass the other does not make: the ranks have as
\* many micro-batches each, although their rows have different lengths.
NoRankWaits ==
    /\ (pc \in {"old_log_prob", "ref", "values"} /\ ~ForwardRaises) => ForwardInStep
    /\ (pc \in {"update_critic", "update_actor"} /\ ~UpdateRaises) =>
           LET at == Len(Steps(IF pc = "update_actor" THEN "actor" ELSE "critic")) + 1
           IN  InStep([d \in Ranks |-> MicroBatchesAt(d, at)])
===============================================================================
