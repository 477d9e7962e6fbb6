# Verification of the search-policy GRPO code

TLA+ modules of the parts of this repository in which order, failure or
position decide whether it is right. There are two stacks. `run.sh` trains with
`train_search_policy_grpo.py` against a batching retriever server; of it the
server, the iterative rollout with reward, selection and loss pairing, and the
multi-process training loop are modelled. `run_verl.sh` trains with the VERL
fork in `src/`; of it the tool rollout, one training step over groups of ranks,
and the checkpoints are modelled. TLC checks all modules on small instances,
and TLAPS proves the results listed under *Proofs* for every value of the
constants.

Paths are relative to the repository (`src/...` is its VERL fork).

## 1. Inventory

| part | state it keeps | operations | hard about it |
|---|---|---|---|
| Retriever server (`bge_retriever_server.py`) | executor backlog, request queue, a Future per call, the batch thread's batch | `POST /search`, `BGERetriever.search`, `_batch_loop`, `_search_batch`, `_materialize_results` | many handler threads and one batch thread; calls of different `top_n` share a search; an exception half way through a batch; no timeout on `future.result()` |
| Offset cache (`JsonlCorpus`) | `*.offsets.npy` beside the corpus | build, load | never compared with the corpus; written in place |
| HTTP client and rollout (`search_many`, `rollout_batch`) | per trajectory: prompt, trajectory text, steps, result history, counters | one turn, one search round, compaction, forced answers | answers come back in any order and are paired by position three times; compaction by string replacement is repeated every turn |
| Reward, selection, log-probabilities (`compute_reward`, `select_grpo_samples`, `trajectory_logprobs`) | none across batches | one pass each after a rollout | steps are flattened, micro-batched and added up by a position that is no longer the one in the batch |
| GRPO training loop (`main`) | per process: `global_step`, batches drawn, accumulated gradients | draw, skip, backward, update, evaluate, save | processes meet in collectives that are matched by order alone, and decide by themselves what to do |
| Evaluation (`evaluate`) | none | rollout on a slice, gathers | unequal slices |
| VERL tool rollout (`vLLMRolloutWithTool`, `generate_new_prompts.py`) | token ids, loss mask, results of each prompt | generate, call tools, summarise, force, refine, truncate, repeat | ids and mask cut and rewritten separately; the loop repeats until every prompt has `n` responses |
| VERL PPO data flow (`RayPPOTrainer.fit`) | the batch, `global_steps`, weights in actor and engine | one step: a pipeline of calls to groups of ranks | columns come back from different calls and are united by position |
| `DataProto`, dispatch (`protocol.py`, `decorator.py`) | none across calls | chunk, pad, concatenate, repeat, union, dispatch, collect | inverse operations in different files |
| Sequence-length balancing | none | Karmarkar-Karp, micro-batches, reverse order | pure algorithm with assertions in the middle of a step |
| FSDP actor and critic, sharding managers | optimizer steps, engine's weights | forward, update, regroup, synchronise | ranks must make as many passes each; results are put back in order |
| VERL checkpoints (`RayPPOTrainer`, `FSDPCheckpointManager`) | shards, `data.pt`, the tracker file, `previous_saved_paths` | save, load, remove old ones | a kill between any two writes; resubmission |
| Reward managers, datasets, Megatron | little | one pass each | which of them can be called at all |
| SFT trainer, graders, SGLang, trackers, launch scripts | none or I/O | - | not run by the two launches |

How they interact: `run.sh` starts the retriever, waits for `/health` and then
launches `train_search_policy_grpo.py` on every process. Each process rolls out
its batch (`rollout_batch`), whose searches are HTTP calls from a thread pool
to the one retriever; the retriever's only promise to the rollout is "an answer
to your own query, or an error, or your 30 s timeout". `main` turns the
trajectories into rewards, selected samples and sums of log-probabilities, and
the processes meet in the gradient reduction, the metric gathers and the
barriers of `save_checkpoint`. `run_verl.sh` is the second stack:
`RayPPOTrainer.fit` on a driver sends `DataProto` batches to groups of ranks,
whose rollout worker is the tool rollout, unites what comes back, and keeps
checkpoints on disk between submissions.

What makes each part right:

* retriever - each call gets its own documents, once, in the order of the queue; handlers come back;
* rollout - the prompt is the iterative context of the trajectory; training steps are conditioned on what the policy saw; rewards are for what happened; a trajectory's loss is its own; it ends;
* training loop - the processes make the same collective calls; updates have the size asked for; a checkpoint is complete before anybody goes on;
* tool rollout - the mask tells who wrote a token; memory stands behind its search; a refined response continues its parent; every prompt gets its responses;
* PPO step - whatever a row holds was computed for that row; groups are whole; every row is trained once an epoch with weight one; no rank waits for another;
* checkpoints - what the tracker names loads, whenever the job dies; nothing saved is trained again; disk use is bounded.

`PROJECT.json` lists every component with its status and every hazard at its
line with the properties that cover it.

## 2. Modules

| module | models | abstracts |
|---|---|---|
| `SearchService` | abstract specification: a service with one line, which calls join through a door | everything about threads and batches |
| `BatchedRetriever` | `/search`, executor, queue, batch thread, client timeouts | embedding, scores, document text |
| `SearchRollout` | `rollout_batch`, `search_many`, `compact_previous_results`, and what `main` does with a rollout up to the sums of log-probabilities | text to tagged segments and pieces of free text, tokens away |
| `RewardSelection` | `compute_reward`, `select_grpo_samples`, micro-batches | advantages up to a positive divisor |
| `GrpoTrainer` | `main`'s loops and `save_checkpoint` on every process | loss, rewards, logging |
| `ToolRollout` | `vLLMRolloutWithTool.generate_sequences`, `generate_new_prompts` | a token is a piece of text the code looks for |
| `PpoStep` | `RayPPOTrainer.fit`, `_validate`, actor, critic, reward and rollout workers | a value is what it was computed from |
| `DataDispatch` | `DataProto` operations, dispatch and collect, regrouping | a batch is a sequence of rows |
| `SeqlenBalancing` | `karmarkar_karp`, `rearrange_micro_batches` | - |
| `CheckpointRecovery` | `fit`, `_save_checkpoint`, `_load_checkpoint`, the checkpoint manager, `find_latest_ckpt_path` | file contents to "which run wrote it" |
| `ListOps` | list comprehensions with a condition (`Where`) and stable sorts (`SortedBy`) | - |
| `MC*` | instances for TLC | |
| `SequenceFacts` | - (lemmas about sequences, folds, sums and `Where`) | - |
| `BatchedRetrieverProofs`, `SearchRolloutProofs`, `GrpoTrainerProofs`, `CheckpointRecoveryProofs`, `SeqlenBalancingProofs`, `PpoStepProofs`, `ToolRolloutProofs` | theorems of the module they are named after | |

`BatchedRetriever` refines `SearchService`; `SearchRollout` composes the turn
loop with `RewardSelection`; `PpoStep` composes the driver with `DataDispatch`
and `SeqlenBalancing`.

A definition commented "Mutant of X" is a plausible bug of X; no specification
uses it. Each property is shown to fail with one of them put in the place of X.

### BatchedRetriever

`Post(r)` is the HTTP request and `asyncio.to_thread`: the call goes to the
executor's `backlog`. `StartSearch` is a free pool thread taking it into
`BGERetriever.search`; `PutRequest(r)` is that thread's `put`, after which it
blocks in `future.result()`. Between the two other threads may run, so calls
are queued in another order than they were made: `starting` keeps the order in
which they were taken, for `SearchService`'s door. `PoolSize` bounds the threads
in `search`. `TakeFirst`, `TakeMore` and `CloseBatch` are
`_batch_loop`: the deadline is real time, so `CloseBatch` may happen at any
moment after the first request. `SearchBatch` is one `index.search` with the
batch's largest `top_n`; `AnswerRow` is one turn of the `set_result` loop, so
callers run between two rows. `ReadRaises` (a document line does not parse) and
`SearchRaises` go to the `except` clause, whose loop is `FailRow`, and
`WorkerDies` is its `set_exception` meeting a future that is already done: the
exception leaves `_batch_loop` and the daemon thread ends. `Reply` and `GiveUp`
are the end of a handler and the client's own timeout. No code cancels a future
of this queue (`GiveUp` does not reach the server), so the `cancelled()`
filters are identities.

### SearchRollout, RewardSelection

`args` is one launch: group size, turns, summary mode, forced answers, search
cost and the labels of the batch. `Generate` is one `generate_turns` for all
active trajectories and the loop over its outputs (one action: nothing else
runs); `FetchResult(i)` is one thread of `search_many` coming back, in any
order; `ApplyResults` the loop over `search_items` with `update_gold_hits`,
compaction of the earlier results and the new result block; `EndTurns` and
`ForceAnswers` the forced final answers and the predictions. Then come
`RewardRollout`, `SelectSamples`, `CollectPairs` and `SumLogProbs`: the reward
of every trajectory, the groups that are not all alike with their advantages,
the flattened prompt-output pairs with `step_to_traj`, and the `index_add` of
the micro-batches' results. What is summed is the pair itself, so a shift of
positions shows.

A trajectory is a sequence of segments; what stands in an output before its
search is a sequence of pieces of free text. The prompt is a string to the code,
so here it is a sequence of words without the borders of the outputs (`Flat`),
and `ReplaceFirst` is `prompt.replace(output + block, summary, 1)`: the first
place where the words of the entry stand, also in the end of a later output. Two
outputs with the same result, of which the one ends in the words of the other
(`Overlap`), are what the code can confuse: compaction then leaves free text of
the later output behind, or takes free text along, and still puts the right
summaries in the right order. `PromptIsIterativeContext` says so: what is
remembered is the iterative context in every case, and the prompt is exactly it
where no such pair has been compacted (`Distinct`). Left out is free text that
copies a whole result block or summary. `IsGold` takes a result text as it comes,
like `update_gold_hits`: the documents of a query in `GoldQuery`, or an error
text that names gold evidence (`search_error ... body=...`), which counts too
although `README.md:25` speaks of a retrieved document.
Rewards are integers in hundredths; an advantage is left undivided by the
group's standard deviation, which is positive.

### GrpoTrainer

A process draws a batch (`DrawBatch`, which may skip it), makes a backward pass
without (`AccumulateStep`) or with (`Backward`, `UpdateStep`) a gradient
reduction, gathers metrics, and evaluates and saves when its own `global_step`
says so. `calls[r]` counts the collective calls of process `r` and `op[r]` is
the kind of the last: the n-th calls of all processes belong together and
return only when they are of one kind (`Complete`). How the backend fails when
kinds differ - by waiting or by an error - is not modelled beyond "does not
return".

### ToolRollout

A row has its token ids and beside them the mask, and every operation changes
the two separately, as the code does. `Turn` is a step of the loop: engine
output for the active rows, tool calls, summaries of the earlier results, the
new result, the length check. `TurnRaises` is how one ends the job: the engine
gives up a generation (`setting.aborts`; line 737), or a tool is called in a batch
without environments (`setting.env`; line 757). `PrefixTurn` is the first step of a
batch of refined prefixes, which generates nothing. `ForceAnswers` (or `NoneForced`, or
`EngineRefuses` when prompt and forced prefix exceed what the engine takes)
ends the loop. The remaining actions collect the responses, ask the refining
service about them and start the next round, with or without refined prefixes,
until every prompt has `n`. A token records in `src` who wrote it, which the
code does not keep: the mask must agree with it.

The engine, the retriever, the summarising model and the refining service
answer arbitrarily. Constants of the code are scaled with the lengths:
`MaxShift` stands for 50, `AnswerRoom` for 4, `MaxAnswer` for 64 tokens.
Assumed: the policy writes no result tags, encoding a decoded text gives its
tokens back, and the tensor-parallel ranks of an engine hold the same rows.

### PpoStep, DataDispatch, SeqlenBalancing

`DataDispatch` is the way of a batch to the ranks and back: a rank's rows under
FSDP with Ulysses groups or under Megatron, the regrouping around an inference
engine, and the order in which the driver concatenates the answers.
`SeqlenBalancing` is the largest differencing method with its heap, its order
of ties and its assertions. `PpoStep` is the driver: `ValidateConfig` and
`InitWorkers` the checks of the configuration, then one action for each call of
a step (`Generate`, `GenerateBaseline`, `UniteResponses`, `BalanceBatch`,
`OldLogProb`, `RefLogProb`, `ComputeValues`, `ComputeScores`, `ApplyKlPenalty`,
`ComputeAdvantage`), one action for every optimizer step of critic and actor,
and `Test` and `Validate`. What raises in the middle of a step goes to
`"raised"`. A forward or update action is enabled only when the ranks have as
many micro-batches each; otherwise nobody can go on, which deadlock checking
and `NoRankWaits` exclude.

An update records with `made` whether the optimizer's step was made: both
`_optimizer_step`s of FSDP skip one whose gradient is not finite with a warning,
Megatron's raises (`Made`, `StepRaises`). A gradient is not finite if it
overflows, which `finite` in the setting excludes or leaves open for every step,
or if the loss was divided by a `gradient_accumulation` of zero
(`DividesByZero`), a tensor's division that raises nothing. `adv` holds what an
advantage is made of before `masked_whiten`, `scale` what that takes mean and
variance of: every row of the batch, under the three estimators in `Whitens`.

Assumed: critic and log-probability micro-batches have the actor's sizes, the
context parallel size is 1, mini-batches are not shuffled, the rollout returns
`n` responses for each prompt in order (which is `EveryPromptServed` of
`ToolRollout`), the KL penalty is in the reward whenever there is a reference
policy, rewards are rule-based, and Megatron's schedule averages over the
micro-batches (outside `src/`).

### CheckpointRecovery

`MakeRoom` removes old checkpoints and makes the directory, `OpenShard`,
`CloseShard` write one rank's files, `OpenData`, `OpenTracker`, `CloseTracker`
are `data.pt` and the tracker. Opening a file truncates it, so a job killed in
between (`Resubmit`, possible in every state) leaves it `Torn`. `StartFresh`,
`Resume` and `FailToStart` are `_load_checkpoint`. The schedule (batches an
epoch, epochs) is chosen in `Init` and is the same for every submission.

## 3. Runs

All finish within two minutes. No symmetry reduction is used. Deadlock checking
is on in the two `ppo` runs, where every stop is a named end (`Done`), and off
in the others: those systems stop when their calls, turns, epochs or
submissions are over, and the liveness properties say where they may stop.

| run | instance | states | shows |
|---|---|---|---|
| `retriever_safety` | 3 calls, 2 queries, `top_n` 1..2, batches of 2, 3 pool threads, a short row, a row beyond the corpus, an unreadable row, failing searches | 911 392 | `OwnAnswer`, `CompletedOnce`, refinement `ServesTheLine` |
| `retriever_progress` | 3 calls, 2 pool threads, readable rows, searches that may raise | 78 656 | refinement with liveness `ServiceContinues` |
| `retriever_ready` | 2 calls, an unreadable row | violation | finding 1 |
| `rollout` | 2 trajectories over 2 turns, 1 over 4 with searches that overlap, 1 over 3 with every output, truncated summaries and a forced answer, 2 groups of 2 over one turn | 414 989 | context, replay, rewards, loss, ending |
| `trainer_skips` | 3 processes, 7 examples (3, 2, 2), 2 epochs, at most 4 steps, accumulation 2, eval every 2, save every 3 | 18 409 | how processes stay together and where they part |
| `trainer_hangs` | 2 processes, 4 examples (2, 2) | violation | finding 2 |
| `recovery_keep_two` | 2 ranks, 5 steps, 4 submissions, save every 2, keep 2, epochs 3x2 or 6x1 | 6 882 | what a kill can and cannot break |
| `recovery_keep_one` | the same, keep 1, 2 submissions | violation | finding 3 |
| `tool_rollout` | 11 settings: 1 prompt over up to 3 turns with `n` 2, 2 prompts over 1; three summary modes; responses of 4 to 14 tokens; narrow prompts; no ground truths, no environments, an engine that gives up | 157 038 | mask, memory, refinement, termination |
| `tool_refine` | 1 prompt under a template with unbalanced search tags | violation | finding 4 |
| `ppo_step` | 26 configurations: 2 or 4 ranks, FSDP with and without Ulysses and engine groups, Megatron, six estimators, accepted and rejected sizes, a mini-batch smaller than a micro-batch, gradients that overflow; 1 to 8 rows of every combination of lengths; 2 steps | 42 631 | alignment, groups, weights, balance, ends |
| `ppo_megatron` | 2 pipeline and 2 data parallel ranks | violation | finding 5 |

Why the bounds are enough. *Retriever*: three calls with batches of two give a
full batch, a batch cut short by the deadline, a call left in the queue while a
batch is served, different `top_n` in one batch, and an unreadable row as the
first and as the second of a batch; one query's best row is missing and its
second unreadable, so that `top_n` 1 and 2 differ in whether they raise; with
fewer pool threads than calls the backlog is used. *Rollout*: pairing needs two
trajectories and either order of answers; compaction goes wrong, if it does,
with the third result and with two equal ones, whose outputs are equal or end in
each other (one piece of free text is enough), which need four turns, and no
state of one trajectory depends on another's except through the pairing; two
groups of two make one group selected and the other not, so that positions in
the selection and in the batch differ. *Trainer*: slices of 3, 2 and 2 batches
over two epochs make accumulation cross an epoch, and every subset of batches
can be skipped; the theorems cover all sizes. *Recovery*: four submissions
allow a torn save, a save over the torn files of an earlier run, a finished run
that is submitted again, and a fourth; with saves at steps 2, 4 and 5 and two
kept, something is removed. *Tool rollout*: a response of ten tokens holds two
calls with results, the summary of the first and a forced answer; one of 14
holds three; shorter ones are cut in a result, a summary and an answer; `n` = 2
needs a second round and lets a refined response be one too many. *PPO step*:
four ranks are the least with two groups of two; three rows a rank are the
least for micro-batches of different sizes in another order than the rows'; two
steps let the policy change between two generations.

The bounds of the models themselves: `MaxRuns` in `CheckpointRecovery` (how
often the job is submitted) and `TotalSteps` in `PpoStep` (the code's own
parameter). The other modules are bounded by their own inputs (calls,
`max_turns`, examples and epochs, `n`).

### Fairness

* `BatchedRetriever`: weak fairness of the batch thread, of `StartSearch`, and
  of each `PutRequest(r)`, `Reply(r)` and `GiveUp(r)`: the operating system runs
  the threads, a timed `get` returns, a client's timeout expires. Nobody has to
  post.
* `SearchRollout`: weak fairness of `Next`: one thread runs the loop, and every
  search ends because `requests.post` has a timeout.
* `ToolRollout`: weak fairness of `Proceed`: one thread of the rollout worker
  runs the loop, the engine runs in its process, and searches have a timeout
  (`vllm_rollout_spmd.py:572`). A request to the refining service has none
  (`generate_new_prompts.py:11`), so nothing is assumed of the step that makes
  one: `EveryPromptServed` says that the prompts are served or the rollout waits
  for that service for ever.
* `GrpoTrainer`: weak fairness of each process; a complete collective returns.
* `CheckpointRecovery`: weak fairness of `Work`: a job that runs goes on.
  Nobody has to kill it, and nobody has to submit it again.
* `SearchService`: weak fairness of serving the line, and of each call that is
  among the oldest at the door joining it.
* `PpoStep` states none: it has no loop without progress, and what could stop
  it (ranks out of step) is checked as a state.

The two runs that check a temporal property only to see it fail
(`retriever_ready`, `trainer_hangs`) use the same fair specifications, so the
counterexamples are real ends, not systems that were not run.

## 4. Findings

1. `retriever_ready`: a document that does not parse, read for a request that
   is not the first of its batch, sends `_search_batch` into its `except`
   clause (`bge_retriever_server.py:214`), where `set_exception` meets a future
   that has its result, raises `InvalidStateError`, and ends the only batch
   thread. All later calls block without a timeout and `/health` still says
   "healthy", which `run.sh:66` reports as "existing retriever is ready".
2. `trainer_hangs`: a process that skips a batch
   (`train_search_policy_grpo.py:1294`) makes fewer steps than the others; at
   the end it waits in the barrier of `save_checkpoint` while they wait in a
   step. `README.md:11` and `README.md:73-79` describe skipping and several
   processes as features used together.
3. `recovery_keep_one`: with `max_actor_ckpt_to_keep=1` the checkpoint that the
   tracker names is removed before its successor is written
   (`fsdp_checkpoint_manager.py:124`), against `checkpoint_manager.py:146`.
4. `tool_refine`: a refined prefix is searched only if the tags of its whole
   text balance (`vllm_rollout_spmd.py:741`), prompt included, and those of the
   search-policy template do not: the refined query is never searched and the
   row ends unanswered, against `generate_new_prompts.py:93`.
5. `ppo_megatron`: what `dispatch_megatron_pp_as_dp` gives out by data and
   pipeline parallel rank is collected in the order of global ranks
   (`decorator.py:220`); with both sizes above 1 the responses meet other
   prompts, against the drawing at `decorator.py:182-191`.

What the passing runs say next to these: the processes of the trainer part only
at the end, never at an evaluation or periodic checkpoint
(`MismatchOnlyAtTheEnd`), and nothing else stops a launch (`EndsOrRunsApart`);
with two checkpoints kept only a torn tracker file can stop a job from
starting (`FinishesOrStuck`); what an accepted configuration can still fail of is listed
in `RaisesOnlyWhen`; rows stay aligned everywhere but in the two places named
in `RowsStayAligned`: behind `Misplaces` (finding 5), and the critic's values
with dynamic micro-batches, which `dp_critic.py:162` masks before it puts them
back in order.

Two ends that these properties permit because the code reaches them, and that a
team would want to exclude:

* the tracker is opened with `'w'` before it is written (`ray_trainer.py:728`); a
  job killed in between leaves it empty, and every later submission raises in
  `int('')` (`checkpoint_manager.py:134`) with whole checkpoints beside it, though
  `ray_trainer.py:725` means it "for atomic usage" (`FinishesOrStuck` has this as
  the only way to be stuck);
* if `ppo_micro_batch_size_per_gpu` is above a rank's mini-batch,
  `gradient_accumulation` is 0 (`dp_actor.py:285`), the loss is divided by it (line
  349; the critic's at `dp_critic.py:235`) and every optimizer step is skipped with
  a warning (lines 180-182): the run trains nothing and ends well.
  `fsdp_workers.py:128` says the mini-batch "should be larger", but that assertion
  is reached only with the deprecated `ppo_micro_batch_size` (line 121).
  `RaisesOnlyWhen` says that nothing raises, `UpdatesWeighOne` that no such step is
  made.

Seen in the code while modelling, and not properties of a run:

* the target of a forced answer always ends in `</answer>`
  (`train_search_policy_grpo.py:461`), also where generation stopped before it;
* the progress bar's total is in optimizer updates, its progress in backward
  passes (line 1324);
* no reward manager survives its first call in `fit`: `re_call` returns no
  `reward_extra_info`, the others take no `curr_save_path`; `fit` scores a
  second time in its `except` branch, and `_validate`, which has none, raises
  with every manager but `re_call`;
* `rearrange_micro_batches` exceeds `max_token_len`, by less than one row
  (`WorkIsBalanced` states the bound that holds);
* `megatron_actor.py:229-232` drops the `loss_mask` that the FSDP actor applies.

## 5. Proofs

Assumed are only the named `ASSUME`s of the modules (`RetrieverAssumption`,
`TrainerAssumption`, `RecoveryAssumption`, `RolloutAssumption`,
`PpoAssumption`, `ToolAssumption`): sizes are positive naturals, rows
beyond the corpus are allowed, a FAISS row has `MaxTopN` columns, the epochs
hold `total_training_steps` batches, a batch has a label for every example,
the marks for a missing and a torn file are none of the contents, ranks divide
into whole parallel groups, rows have lengths from a finite set, and Megatron
has neither Ulysses groups nor dynamic micro-batches (`PpoAssumption`; what the
code *checks* of a configuration is not assumed but modelled), and in the tool
rollout no prompt is empty or longer than `max_prompt_length` and a launch with
`max_turns` 0 has a `response_length` above `AnswerRoom`, the 4 tokens under
which no answer is forced: without turns and without forced answers a response
would have no token. One theorem,
`RewardsReflectTheRollout`, has a hypothesis of its own
(`SearchesNeverOutweigh`, below).

**`SequenceFacts`** has the induction. The library's induction theorems take an
operator as a parameter, which the provers cannot instantiate, but `WFMin`,
that a nonempty set of numbers has a least one, takes a set. With it
`InductionOnNat` and `InductionOnSeq` are stated for membership in a set, and
from them what the recursive functions compute: that an unfolding exists and is
unique (`UnfoldingExists`), hence that `Pick`, `FlattenSeq` and folds over sets
obey their equations, and what `Pick` does on `Append` and concatenation. This
is why a filter is written `Where` and a sort `SortedBy` (module `ListOps`) and
not `SelectSeq` and `SortSeq`, which the prover knows only by name, and why no module that is proved about
declares a RECURSIVE operator.

**`GrpoTrainerProofs`.** `TypeCorrect` (`TypeOK`) and `UpdatesAreWhole`
(`WholeUpdates`: `global_step = updates * GradAccum + micro`). `WholeUpdates`
is not inductive alone, because `UpdateStep` happens one step after `Backward`
decided that the pass is the last one. `AccumulationInv` adds
`ReducesTheLastPass`: a process in the reduction has `micro + 1 = GradAccum`.

The same module proves `ProcessesStayTogether` (`Lockstep`),
`MismatchesAreAtTheEnd` (`MismatchOnlyAtTheEnd`) and `CheckpointsAreWritten`
(`CheckpointBeforeLeaving`), for any number of processes. None is inductive.
The argument: the *slot* of a process is its last collective call and the step
it made it in. What may follow a slot (`Follows`) is decided by the slot alone,
by `global_step`, the schedule and, through `UpdatesAreWhole`, the position in
the accumulation window, except for the choice to train or to leave the loop.
`LockInv` says that processes with the same number of calls are in the same
slot, or one has left the loop and the other trains, and that a process one
call ahead is in a slot that follows the other's (`PairInv`). Such a parted
pair never completes a call, so the difference cannot grow: this is where
`Complete` enters (`CompleteMeansSame`). The steps of a process are of two
kinds, "enters its next call" and "goes on without one", and each kind keeps
`PairInv` by one lemma. `CheckpointInv` adds that what the main process is past
is written.

**`BatchedRetrieverProofs`.** `AnswersAreOwn` (`OwnAnswer`) and
`FuturesCompleteOnce` (`CompletedOnce`), for any calls, batch and pool sizes
and rankings. `OwnAnswer` is not inductive: when a row is answered one must
know what `hits[row]` is (`HitsState`: the request's own query searched with
one `k` that is at least its `top_n`), and that the first `top_n` columns of
the first `k` are the first `top_n` (`WiderSearchSameAnswer`). `CompletedOnce`
needs that a call stands at one place of backlog, starting calls, queue and batch
(`Places`) and that rows not yet answered are pending (`BatchState`). Together
they are `BatchInv`, kept by each action in a lemma of its own.

`TypeCorrect` (`TypeOK`) and `ServesInLine` (`ServesTheLine`, the refinement of
`SearchService`) also need `FrontInv`: the batch is no longer than
`query_batch_size`, and what stands in it before `row` is completed. The
abstract line is what is pending of the batch and then the queue, the door is
the calls being started and then the backlog. Handing a call on within one of
them leaves it as it is (`HandedOn`, `InnerSteps`); `Post` appends to the door
(`PostCalls`); `PutRequest` takes a call from the door to the end of the line
(`PutJoins`), one of the first `PoolSize`, because each call being started holds
a thread of its own (`PoolInv`, `StartingFits`); `AnswerRow` and `FailRow`
complete the row that stands first in the line (`FirstIsServed`), by `OwnAnswer`
with the documents of its own query (`AnswerServes`) or with an error
(`FailureServes`).

**`SearchRolloutProofs`.** `RolloutTypeCorrect` (`TypeOK`),
`ResultsAnswerTheirSearch` (`ResultsFollowTheirSearch`), `PromptsAreIterative`
(`PromptIsIterativeContext`), `StepsReplayTheRollout` (`StepsReplay`),
`RewardsReflectTheRollout` (`RewardsAreEarned`) and `LossesAreOwn`
(`LossIsOwn`), for any number of groups, trajectories, turns, queries and
micro-batches. None is inductive; `RolloutInv` has five parts:

* `RolloutTypes`: what everything is;
* `Searching`: a trajectory that waits in `search_items` is unfinished and ends
  in the very search whose answer it waits for, so the order in which threads
  come back does not matter;
* `Threads`: for each trajectory alone, that its text, prompt, steps, history
  and counters fit together (`Thread`);
* `Counted`: no trajectory searched more often than turns are over;
* `Rewarded`: predictions and rewards are computed from the final texts.

`Thread` holds the two arguments of this module. `Coherent`: the prompt is the
context of the text with only the latest result whole. `compact_previous_results`
replaces *every* entry of the history each turn. A prompt holds one result
block, the latest (`Latest`), and the words sought end in a block, so any entry
is found at that place or nowhere (`FoundOnce`): whichever entry of the history
is found first there has the same block and query as the latest one, hence the
same summary (`SummedUp`), and once it is replaced no block is left and all
later replacements find nothing (`ReplaceNothing`, `CompactOne`). What the words
taken away differ by, if the entry found is not the latest one, is free text
(`Leftover`), and then the two outputs overlap (`Confused`). To the text so
compacted the next result is appended (`CoherentResult`). `Replays`: the k-th step was prompted with the context of
the text before the k-th output; outputs that are empty leave no text and are
the last of their trajectory.

`RewardsReflectTheRollout` assumes `SearchesNeverOutweigh`: a search costs
something, and all searches of `max_turns` together less than half a point
(`search_cost * (max_turns - 1) < 50` hundredths). The launch's defaults, 0.05
and 4 turns, give 15; `MCSearchRollout` has TLC evaluate it for the instance of
the run. Without it the order of rewards that the property states is false.

The first half of the module is what `LossIsOwn` needs of the pure functions of
`RewardSelection`.
The total of a group is a fold over a set in an order that CHOOSE picks;
`TotalIsSum` shows that it is the sum in any order. Advantages then sum to zero,
so one that is not zero has an opposite (`AdvantagesOppose`), and they stand in
the order of the rewards (`AdvantagesOrder`). `SelectsWholeMixedGroups` goes by
induction over the groups: the selection is the concatenation, in their order,
of those whose rewards differ. `MicroBatchesJoin`: cutting pairs into
micro-batches and concatenating the results is the identity, also when the last
is shorter. `OwnOfTagged`: the pairs that carry the index of a selected
trajectory are the steps of that trajectory, whatever stands between. `LossInv`
keeps that the texts do not change between selection and sum.

**`CheckpointRecoveryProofs`.** `TypeCorrect` (`TypeOK`), `OvershootIsBounded`
(`OvershootsByReruns`), `TrackerNamesWhole` (`TrackerNamesWholeCheckpoint`,
unless `Keep = 1`, where it is false) and `ResumesBehind`
(`ResumesBehindLastSave`), for any ranks, schedules, save frequencies and
numbers of submissions. The types alone need `StepsBounded`: a step is bounded
by `TotalSteps + finishes`, and `finishes` by the submissions before this one.
What the tracker names survives a step for three reasons that make up
`RecoveryInv`: it is the last completed save and behind the step being written
(`TrackerIsLast`), so opening files does not touch it; it is the newest of the
remembered paths and these are in order (`KeptInOrder`), so making room, which
takes all but the newest of them if two or more are kept (`ExcessBound`), does
not remove it; and it moves only when the files of the step are complete
(`HalfWritten`). `ResumeInv` adds that the batches handed out and the step are
whole epochs apart, in memory and in every readable `data.pt`
(`PositionFollowsStep`), and that a tracker never names a torn one
(`TrackerHasData`), for every `Keep`; that an epoch less is still a whole number
of epochs is `OneEpochLess`.

`DiskIsBounded` (`DiskBounded`) counts the directories of all submissions, of
which a running job remembers only its own. `DiskInv` splits them: those the job
remembers or is writing, at most `Keep`, and the rest, `LeftBehind`, at most
`Keep` for every earlier submission. Within a submission nothing is added to the
rest (`NothingMoreLeft`); a resubmission adds what the job had, which
`DiskInvBounds` has just counted.

**`SeqlenBalancingProofs`.** `PartitionHolds`: the assertions of
`karmarkar_karp` and `_check_and_sort_partitions` never fail, for any lengths
and any number of parts. The heap always holds every row once (`HeapOf`): a
sort is a permutation (`ArrangedIsArranged`), and merging two states in
opposite orders joins their rows and makes the spread no larger than the larger
of the two. No part is empty, because as long as some part is, no part has two
rows: that is the invariant (`Shape`) that a merge keeps, and it needs that
every length is positive. The same induction gives `Even`: two parts differ by
at most one row's tokens (`BalancedPartitionsDeal`).

**`PpoStepProofs`.** `PpoTypeCorrect` (`TypeOK`), `RaisesForItsReasons`
(`RaisesOnlyWhen`), `NoneWaits` (`NoRankWaits`), `ValidatesAll`
(`ValidationCoversAll`), `RowsAligned` (`RowsStayAligned`), `GroupsWhole`
(`GroupsAreWhole`), `WeightsAddUp` (`UpdatesWeighOne`), `WorkBalanced`
(`WorkIsBalanced`) and `EveryRowTrained` (`TrainedOncePerEpoch`), every
invariant the run checks, for every setting: any number of ranks, Ulysses and engine
groups, tensor and pipeline ranks, batch, mini- and micro-batch sizes and
lengths of rows. The first half of the module is about data: concatenating the
parts of a batch lays them out one behind the other (`FlattenAt`), so chunks,
micro-batches and mini-batches deal the rows once each and in their order;
collecting by layout gives back what was dispatched, or, with pipeline and data
parallel ranks both above one, the order of `PipelineKeepsOrder`; `ReverseIdx`
undoes the order of dynamic micro-batches; padding is taken off where it was
put. The second half has seven invariants, each with a lemma for every action:

* `PpoInv`: what everything is at each stage, that the rows are the batch's
  prompts or all their responses, and that what was checked of the
  configuration has passed. `RaisesOnlyWhen` and `NoRankWaits` follow because a
  split can then only fail for a size the checks let through, and the number of
  micro-batches is the maximum over the ranks, which `PartitionHolds` can serve.
* `ValidationNow`: what validation asked is every prompt of the set with its
  repeats, once; what came back was made by the weights of the last copy.
* `OwnInv`: for each column that is filled, at which version and for which
  response it was computed. `RowsStayAligned` alone is not inductive: the
  advantage is made from the reward and the KL penalty from two columns, so
  each column must be known to be the row's own before it is used, and fresh.
  `Grouping` adds that the responses of one prompt are `n` rows wherever they
  stand, which `BalanceBatch` keeps because it permutes.
* `ScaleInv`: only ReMax gives a row a baseline, and behind `ComputeAdvantage`
  `scale` is the responses of the batch as it is now, or nothing. With `OwnInv`
  it gives `GroupsAreWhole` for all six estimators.
* `UpdatesAreGradients`: an update is what `Gradients` gives for
  its number on the batch as it is now, because no stage after the advantage
  changes the rows. That makes a property of the updates one of `Gradients`:
  the weights of a mini-batch's micro-batches are their rows over the
  mini-batch's, and these add up because the micro-batches deal its rows out. A
  weight over zero is that of `DividesByZero`, under which `Made` allows no step
  (`ZeroWeight`).
* `BalancedInv`: between `BalanceBatch` and the next batch the tokens of two
  ranks differ by at most one row. It holds after the step because the parts of
  `BalancedPartitions` are `Even` and the rank's chunk of the reordered batch is
  its part (equal sizes), and later stages fill columns but leave lengths alone.
  The limit of a micro-batch is a theorem about `Even` parts alone: were one
  part over the limit by a row, all parts would be over the limit, and together
  more than the tokens that `MicroBatchesNeeded` counted.
* `EpochInv`: a group numbers its updates from one without a gap
  (`StepsInOrder`), and has made none of them or all `LastUpdate` at the stages
  where it does not train. So the updates of an epoch are an interval of
  numbers (`EpochIsInTurn`), one per mini-batch of the data-parallel chunks, and
  flattening their micro-batches gives each row once (`EpochTrainsAll`).

**`ToolRolloutProofs`.** `ToolTypeCorrect` (`TypeOK`), `MaskTells`
(`MaskTellsWhoWrote`), `SearchesAnswered` (`MemoryFollowsItsSearch`),
`BreaksOffFull` (`BreaksOffOnlyWhenFull`), `RefinedContinues`
(`RefinedContinuesParent`) and `ContextsDigested` (the action property
`ContextsOnlyDigested`), for any prompts, `n`, turns, lengths, summary modes and
queries, over any number of rounds. `IndInv` says of every row of the batch
(`RowIn`) and of every finished response (`ResponseIn`):

* `Sound`, for each of its tokens with its mask bit (`PlaceOk`): generated
  tokens are marked, and behind the given prefix no others (`ToldOk`); a hidden
  memory begins behind generated text with the query of the last search before
  it (`HeadOk`); it is a beginning and an end, and only the prefix of a forced
  answer may follow it hidden (`TailOk`); no memory follows such a prefix
  (`EndOk`). Every condition looks backward only. So a cut row keeps all of them
  (`SoundSame`), an extended one needs them of its new tokens alone
  (`ExtendSound`), and mask and ids may be rebuilt one after the other.
* `InTurn` while the turns last (an active row is new or ends in a whole result,
  one that left is full or ends in generated text) and `Done` after them, which
  is `BreaksOffOnlyWhenFull` for a row that is not cut yet.
* `IsChild`: the parent of a refined row stands in the list of its prompt, and
  the prefix is the parent's text but for the refined search. `Keep` takes the
  first responses of a list, so a parent is never dropped before its child.

`MemoryFollowsItsSearch` alone is not inductive: `_summarize_previous_results`
writes the query of the last search before a *span* of the mask, so one must
know where spans begin (`SpanIs`, `HiddenIs`). Then summarising replaces each
hidden result by a summary with the same query in the same two places
(`IsDigest`; a result that is cut after its first token is at the end of a full
row, which is not summarised again), and everything `Sound` looks at stays
(`DigestAlike`).

The mask of a refined prefix is the j-th piece of its parent's mask beside the
text up to the j-th result. Both are places in ascending order: the results'
ends and the falls of the mask. Each result that ends has a fall two tokens
before, so with as many of one as of the other the j-th fall lies at or before
the j-th result (`RisesFromBelow`), and if the parent ends in generated text and
padding, whose fall is the one that is dropped, exactly before it
(`RisesWithin`, `Paired`). Where the parent quotes a result or ends otherwise,
the pieces may be too short and the rest is filled with ones: that is the one
error `MaskTellsWhoWrote` allows, and the proof shows that there is no other.

`ContextsDigested`: a row whose first tokens are another's tells what the other
tells first (`LongerTells`), for appended text and for cuts; summarising keeps
which tokens are memories and what they answer, so every part of the digest
(`KeepsTells`); and when a row is extended and then cut, its old and its new
digest begin the same list, so one begins the other (`BeginsEither`).

Every invariant and every safety action property of the passing runs is now a
theorem. Only model-checked:

* liveness (`ServiceContinues`, `RolloutEnds`, `EveryPromptServed`,
  `EndsOrRunsApart`, `FinishesOrStuck`): fairness and ENABLED are out of this
  prover's reach;
* the five runs that end in a violation: TLC's counterexamples are the result.

## 6. Not modelled, and why

* The offset cache (`JsonlCorpus._load_or_build_offsets`): one process, once,
  before the server starts. What a stale cache does later, a row that does not
  parse, is an input of `BatchedRetriever`.
* The text of documents, embeddings, scores and the arithmetic of losses and
  advantages: no control depends on them.
* The wording of `search_many`'s error texts: there are two, one that names gold
  evidence and one that does not. The cut to `max_result_chars` inside a result
  is abstracted, and with it the lost credit of late documents; so is free text
  that copies a result block or a summary. The tokenizer's padding in decoded outputs: both branches
  of the test for an empty output are modelled, how often each occurs is not.
* `SearchCostController` is created disabled; the cost is a constant.
* DeepSpeed's own reductions; the model wrapper is DistributedDataParallel.
* In `ToolRollout`: re-tokenisation that changes tokens, result tags the policy
  makes up, tensor-parallel ranks that diverge (`vllm_rollout_spmd.py:756-771`),
  restoring the sampling parameters after an exception (the job ends), and the
  plain `vLLMRollout`, which has no loop.
* In `PpoStep`: `val_only`, offloading, Ray actors and their creation,
  serialisation, and the numbers, with the errors that depend on them alone, such
  as `masked_var`'s for a batch of one response token (`torch_functional.py:131-135`).
* `verl_search_policy/reward.py` and the `prime` graders: functions of one text
  without state.
* The critic and HDFS branches of VERL's checkpoints: GRPO uses neither.
* Megatron models, weight resharding, SGLang, `third_party/`, the SFT trainer
  and trackers: numerical code, vendored code or alternatives that the
  search-policy launches do not run. They are most of the repository's lines.

## 7. What would come next

1. The offset cache with a crash in `np.save` and a corpus that changes,
   composed with `BatchedRetriever` through `BadRow`.
2. The gathers of `evaluate` over unequal slices, with the weights of their
   metrics.
3. Divergence of tensor-parallel ranks in the tool rollout, where every rank
   calls the services itself.
4. Hypotheses under which the refuted statements of *Findings* hold, where no
   theorem says so yet: no skipped batch, balanced templates, readable documents.
