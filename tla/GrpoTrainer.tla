----------------------------- MODULE GrpoTrainer -----------------------------
(***************************************************************************)
(* train_search_policy_grpo.py, main: the training loop that every process *)
(* of an accelerate launch runs on its own slice of the examples, and the  *)
(* collectives in which the processes meet: the gradient reduction of      *)
(* every GradAccum-th backward pass, the gathers of metrics, and the       *)
(* barriers of save_checkpoint.                                            *)
(*                                                                         *)
(* Nothing but these collectives keeps the processes together: a batch     *)
(* whose groups all have identical rewards is skipped by the process that  *)
(* drew it, with no word to the others.  A collective is matched by order  *)
(* alone: the n-th call of each process belongs to the n-th of every       *)
(* other, and a process leaves it when all have entered it.  Calls of      *)
(* different kinds never complete.                                         *)
(*                                                                         *)
(* Left out: the rollout (SearchRollout.tla), the arithmetic of the loss,  *)
(* logging, and the search cost, which its controller never changes (main  *)
(* constructs it with enabled=False). The two gathers after a step, and    *)
(* those of evaluate, which follow each other with nothing between, are    *)
(* one collective each. The wrapper of the model is                        *)
(* DistributedDataParallel; DeepSpeed has a reduction of its own.          *)
(***************************************************************************)
EXTENDS Integers, FiniteSets

CONSTANTS
    NumProcesses,     \* accelerator.num_processes
    NumExamples,      \* len(train_examples)
    TrainBatchSize,   \* args.train_batch_size
    NumEpochs,        \* args.num_train_epochs
    MaxSteps,         \* args.max_steps, 0 for none
    GradAccum,        \* args.gradient_accumulation_steps
    EvalSteps,        \* args.eval_steps, 0 for never
    SaveSteps,        \* args.save_steps, 0 for only the last
    HasEval,          \* whether there are eval examples
    MaySkip           \* whether a batch can have no group with different rewards

ASSUME TrainerAssumption ==
    /\ NumProcesses \in Nat \ {0}
    /\ NumExamples \in Nat
    /\ TrainBatchSize \in Nat \ {0}
    /\ NumEpochs \in Nat
    /\ MaxSteps \in Nat
    /\ GradAccum \in Nat \ {0}
    /\ EvalSteps \in Nat
    /\ SaveSteps \in Nat
    /\ HasEval \in BOOLEAN
    /\ MaySkip \in BOOLEAN

Rank == 0..(NumProcesses - 1)
Main == 0

\* len(train_examples[process_index :: num_processes]) and len(dataloader)
CeilDiv(a, b) == (a + b - 1) \div b
LocalExamples(r) == IF r < NumExamples THEN CeilDiv(NumExamples - r, NumProcesses) ELSE 0
LocalBatches(r) == CeilDiv(LocalExamples(r), TrainBatchSize)

VARIABLES
    pc,           \* pc[r]: where process r is
    epoch,        \* epoch[r]: epochs it has finished
    batch,        \* batch[r]: batches it has drawn in this epoch
    global_step,  \* global_step[r]
    micro,        \* micro[r]: backward passes since its last optimizer update
    updates,      \* updates[r]: optimizer updates it has made
    calls,        \* calls[r]: collectives it has entered
    op,           \* op[r]: the kind of the last one
    saved,        \* the steps for which the main process has written a checkpoint
    left          \* left[r]: the steps whose save_checkpoint it has left

loopVars == <<epoch, batch>>
stepVars == <<global_step, micro, updates>>
diskVars == <<saved, left>>
vars == <<pc, loopVars, stepVars, calls, op, diskVars>>

Kind == {"reduce", "gather", "eval_gather", "barrier"}

-------------------------------------------------------------------------------
Init ==
    /\ pc = [r \in Rank |-> "draw"]
    /\ epoch = [r \in Rank |-> 0]
    /\ batch = [r \in Rank |-> 0]
    /\ global_step = [r \in Rank |-> 0]
    /\ micro = [r \in Rank |-> 0]
    /\ updates = [r \in Rank |-> 0]
    /\ calls = [r \in Rank |-> 0]
    /\ op = [r \in Rank |-> "barrier"]
    /\ saved = {}
    /\ left = [r \in Rank |-> {}]

Go(r, where) == pc' = [pc EXCEPT ![r] = where]

\* Process r makes its next collective call and waits in it.
Enter(r, kind, where) ==
    /\ calls' = [calls EXCEPT ![r] = @ + 1]
    /\ op' = [op EXCEPT ![r] = kind]
    /\ Go(r, where)

\* Mutant of Complete: a process leaves when the others have left the call
\* before.
CompleteEarly(r) ==
    \A p \in Rank : /\ calls[p] >= calls[r] - 1
                    /\ calls[p] = calls[r] => op[p] = op[r]

\* Its call is complete: every other process has made its own n-th call, of
\* the same kind.  One that has made more has already left this one.
Complete(r) ==
    \A p \in Rank : /\ calls[p] >= calls[r]
                    /\ calls[p] = calls[r] => op[p] = op[r]

\* args.max_steps and global_step >= args.max_steps
StepLimit(r) == MaxSteps > 0 /\ global_step[r] >= MaxSteps

\* Mutant of DrawBatch: <= for <.
DrawBatchOneOver(r) ==
    /\ pc[r] = "draw"
    /\ epoch[r] < NumEpochs
    /\ batch[r] <= LocalBatches(r)
    /\ ~StepLimit(r)
    /\ batch' = [batch EXCEPT ![r] = @ + 1]
    /\ Go(r, "train") \/ (MaySkip /\ UNCHANGED pc)
    /\ UNCHANGED <<epoch, stepVars, calls, op, diskVars>>

\* A batch is drawn, rolled out and rewarded; it trains if select_grpo_samples
\* selects anything, and else is skipped.
DrawBatch(r) ==
    /\ pc[r] = "draw"
    /\ epoch[r] < NumEpochs
    /\ batch[r] < LocalBatches(r)
    /\ ~StepLimit(r)
    /\ batch' = [batch EXCEPT ![r] = @ + 1]
    /\ Go(r, "train") \/ (MaySkip /\ UNCHANGED pc)
    /\ UNCHANGED <<epoch, stepVars, calls, op, diskVars>>

\* Mutant of EndEpoch: gradients left over from the epoch are zeroed.
EndEpochZeroed(r) ==
    /\ pc[r] = "draw"
    /\ epoch[r] < NumEpochs
    /\ batch[r] = LocalBatches(r)
    /\ ~StepLimit(r)
    /\ epoch' = [epoch EXCEPT ![r] = @ + 1]
    /\ batch' = [batch EXCEPT ![r] = 0]
    /\ micro' = [micro EXCEPT ![r] = 0]
    /\ UNCHANGED <<pc, global_step, updates, calls, op, diskVars>>

\* The dataloader is exhausted, and another epoch follows or none.
EndEpoch(r) ==
    /\ pc[r] = "draw"
    /\ epoch[r] < NumEpochs
    /\ batch[r] = LocalBatches(r)
    /\ ~StepLimit(r)
    /\ epoch' = [epoch EXCEPT ![r] = @ + 1]
    /\ batch' = [batch EXCEPT ![r] = 0]
    /\ UNCHANGED <<pc, stepVars, calls, op, diskVars>>

\* The loops are left, by max_steps or by the end of the last epoch, and the
\* last checkpoint is begun.
LeaveLoop(r) ==
    /\ pc[r] = "draw"
    /\ epoch[r] = NumEpochs \/ StepLimit(r)
    /\ Enter(r, "barrier", "final_begin")
    /\ UNCHANGED <<loopVars, stepVars, diskVars>>

\* A backward pass within accumulate(): no_sync keeps its gradients local, and
\* the optimizer and zero_grad do nothing.  global_step counts it all the same.
AccumulateStep(r) ==
    /\ pc[r] = "train"
    /\ micro[r] + 1 < GradAccum
    /\ micro' = [micro EXCEPT ![r] = @ + 1]
    /\ global_step' = [global_step EXCEPT ![r] = @ + 1]
    /\ Enter(r, "gather", "metrics")
    /\ UNCHANGED <<loopVars, updates, diskVars>>

\* Every GradAccum-th backward pass reduces the gradients over all processes ...
Backward(r) ==
    /\ pc[r] = "train"
    /\ micro[r] + 1 = GradAccum
    /\ Enter(r, "reduce", "backward")
    /\ UNCHANGED <<loopVars, stepVars, diskVars>>

\* ... and the optimizer steps and zeroes them.
UpdateStep(r) ==
    /\ pc[r] = "backward"
    /\ Complete(r)
    /\ micro' = [micro EXCEPT ![r] = 0]
    /\ updates' = [updates EXCEPT ![r] = @ + 1]
    /\ global_step' = [global_step EXCEPT ![r] = @ + 1]
    /\ Enter(r, "gather", "metrics")
    /\ UNCHANGED <<loopVars, diskVars>>

\* eval_steps or save_steps is positive and divides global_step.
Due(r, every) == every > 0 /\ global_step[r] % every = 0

\* Mutant of SaveOrDraw: only the main process calls save_checkpoint.
SaveOrDrawOnMain(r) ==
    IF r = Main /\ Due(r, SaveSteps)
    THEN Enter(r, "barrier", "save_begin")
    ELSE Go(r, "draw") /\ UNCHANGED <<calls, op>>

\* What follows the evaluation: a checkpoint that is due, or the next batch.
SaveOrDraw(r) ==
    IF Due(r, SaveSteps)
    THEN Enter(r, "barrier", "save_begin")
    ELSE Go(r, "draw") /\ UNCHANGED <<calls, op>>

\* The metrics are gathered: evaluate if that is due.
GatherMetrics(r) ==
    /\ pc[r] = "metrics"
    /\ Complete(r)
    /\ IF Due(r, EvalSteps) /\ HasEval
       THEN Enter(r, "eval_gather", "eval")
       ELSE SaveOrDraw(r)
    /\ UNCHANGED <<loopVars, stepVars, diskVars>>

Evaluate(r) ==
    /\ pc[r] = "eval"
    /\ Complete(r)
    /\ SaveOrDraw(r)
    /\ UNCHANGED <<loopVars, stepVars, diskVars>>

\* save_checkpoint after its first barrier: the main process writes the model
\* and the tokenizer, the others go straight to the second barrier.
WriteCheckpoint(r) ==
    /\ pc[r] \in {"save_begin", "final_begin"}
    /\ Complete(r)
    /\ saved' = IF r = Main THEN saved \cup {global_step[r]} ELSE saved
    /\ Enter(r, "barrier", IF pc[r] = "save_begin" THEN "save_end" ELSE "final_end")
    /\ UNCHANGED <<loopVars, stepVars, left>>

\* Mutant of LeaveCheckpoint: without the second barrier.
LeaveCheckpointAtOnce(r) ==
    /\ pc[r] \in {"save_end", "final_end"}
    /\ left' = [left EXCEPT ![r] = @ \cup {global_step[r]}]
    /\ Go(r, IF pc[r] = "save_end" THEN "draw" ELSE "done")
    /\ UNCHANGED <<loopVars, stepVars, calls, op, saved>>

\* save_checkpoint returns after its second barrier.
LeaveCheckpoint(r) ==
    /\ pc[r] \in {"save_end", "final_end"}
    /\ Complete(r)
    /\ left' = [left EXCEPT ![r] = @ \cup {global_step[r]}]
    /\ Go(r, IF pc[r] = "save_end" THEN "draw" ELSE "done")
    /\ UNCHANGED <<loopVars, stepVars, calls, op, saved>>

Process(r) ==
    \/ DrawBatch(r) \/ EndEpoch(r) \/ LeaveLoop(r)
    \/ AccumulateStep(r) \/ Backward(r) \/ UpdateStep(r)
    \/ GatherMetrics(r) \/ Evaluate(r)
    \/ WriteCheckpoint(r) \/ LeaveCheckpoint(r)

Next == \E r \in Rank : Process(r)

SafeSpec == Init /\ [][Next]_vars

\* Every process runs; a collective that is complete returns.
Spec == SafeSpec /\ \A r \in Rank : WF_vars(Process(r))

-------------------------------------------------------------------------------
Waiting == {"backward", "metrics", "eval", "save_begin", "save_end", "final_begin", "final_end"}

TypeOK ==
    /\ pc \in [Rank -> Waiting \cup {"draw", "train", "done"}]
    /\ epoch \in [Rank -> 0..NumEpochs]
    /\ batch \in [Rank -> Nat]
    /\ \A r \in Rank : batch[r] <= LocalBatches(r)
    /\ global_step \in [Rank -> Nat]
    /\ micro \in [Rank -> 0..(GradAccum - 1)]
    /\ updates \in [Rank -> Nat]
    /\ calls \in [Rank -> Nat]
    /\ op \in [Rank -> Kind]
    /\ saved \in SUBSET Nat
    /\ left \in [Rank -> SUBSET Nat]

\* However the processes skip and whatever the sizes of their slices, they
\* never run apart: no process is more than one collective call ahead, and
\* never more than one step, so eval_steps, save_steps and max_steps, which each
\* process tests on its own global_step, decide alike on all of them.
Lockstep ==
    \A p, r \in Rank :
        /\ calls[p] <= calls[r] + 1
        /\ global_step[p] <= global_step[r] + 1

\* A process that has left save_checkpoint(step) finds the checkpoint written,
\* though only the main process writes it: the second barrier holds the others.
CheckpointBeforeLeaving == \A r \in Rank : left[r] \subseteq saved

\* Gradient accumulation: an update is made of exactly GradAccum backward
\* passes, skipped batches and epoch ends do not count and lose nothing.
WholeUpdates ==
    \A r \in Rank : global_step[r] = updates[r] * GradAccum + micro[r]

\* Two processes make different calls as the same collective in one situation
\* only: one has left the loop and saves the last checkpoint, the other still
\* has a batch to train on.  Evaluations and periodic checkpoints never mix,
\* though each process decides on them by itself.
Training == {"backward", "metrics"}
MismatchOnlyAtTheEnd ==
    \A p, r \in Rank :
        /\ pc[p] \in Waiting /\ pc[r] \in Waiting
        /\ calls[p] = calls[r] /\ op[p] # op[r]
        => \/ pc[p] = "final_begin" /\ pc[r] \in Training
           \/ pc[r] = "final_begin" /\ pc[p] \in Training

\* Training ends, or some process has run out of batches while another, that
\* skipped fewer, waits for it in a step: nothing else can stop the launch.
RunsApart == \E p, r \in Rank : pc[p] = "final_begin" /\ pc[r] \in Training
EndsOrRunsApart == <>[]((\A r \in Rank : pc[r] = "done") \/ RunsApart)

\* README.md:11 and README.md:73-79: identical-reward group skipping is a feature
\* of a trainer that is launched on several processes; every process comes to
\* the end of main.
TrainingEnds == \A r \in Rank : <>(pc[r] = "done")
==============================================================================
