-------------------------- MODULE CheckpointRecovery --------------------------
(***************************************************************************)
(* The checkpoints of a VERL run: RayPPOTrainer.fit, _save_checkpoint and  *)
(* _load_checkpoint, FSDPCheckpointManager.save_checkpoint on every rank,  *)
(* and find_latest_ckpt_path, with the job killed at any moment and        *)
(* submitted again.                                                        *)
(*                                                                         *)
(* The files of one rank (model, optimizer, extra state) are one shard.  A *)
(* file that is open for writing when the job dies stays torn: opening it  *)
(* truncates it and it is readable once it is closed.  A file remembers    *)
(* the run of the job that wrote it.  The train dataloader (torchdata's    *)
(* StatefulDataLoader, modelled from how it is used) hands out epoch_steps *)
(* batches and stops; restored from data.pt it hands out the rest of the   *)
(* epoch that was saved, while fit counts its epochs from 0 again.  There  *)
(* is no critic (GRPO) and no HDFS directory, resume_mode is "auto", and   *)
(* the directories of a run are not touched by anyone else.                *)
(***************************************************************************)
EXTENDS Integers, Sequences, FiniteSets

CONSTANTS
    Rank,         \* the ranks of the actor's worker group
    TotalSteps,   \* self.total_training_steps
    Schedule,     \* the pairs of len(self.train_dataloader) and trainer.total_epochs
    SaveFreq,     \* trainer.save_freq
    Keep,         \* trainer.max_actor_ckpt_to_keep, 0 for null
    MaxRuns,      \* bound: how often the job is submitted
    None, Torn    \* a file that does not exist, and one that does not load

ASSUME RecoveryAssumption ==
    /\ Rank # {} /\ IsFiniteSet(Rank)
    /\ TotalSteps \in Nat \ {0}
    /\ Schedule \subseteq [epoch_steps : Nat \ {0}, total_epochs : Nat \ {0}]
    /\ \A s \in Schedule : TotalSteps <= s.epoch_steps * s.total_epochs
    /\ SaveFreq \in Nat \ {0}
    /\ Keep \in Nat
    /\ MaxRuns \in Nat \ {0}
    /\ None \notin Nat /\ Torn \notin Nat /\ None # Torn
    /\ \A s \in Schedule : \A n \in 1..MaxRuns, p \in 0..s.epoch_steps :
           [run |-> n, position |-> p] \notin {None, Torn}

VARIABLES
    pc,           \* where fit is; "down" when no job runs, "stuck" when it cannot start
    run,          \* which submission of the job this is
    global_step,  \* self.global_steps
    schedule,     \* the pair of this run, the same for every submission
    epoch,        \* epochs fit has finished
    position,     \* batches the train dataloader has handed out in this epoch
    kept,         \* previous_saved_paths, as steps
    shard,        \* shard[s][r]: the run that wrote rank r's files of step s
    data,         \* data[s]: data.pt of step s, the dataloader's state
    dirs,         \* the steps whose global_step_ directory exists
    tracker,      \* the content of latest_checkpointed_iteration.txt
    completed,    \* the last step whose _save_checkpoint has returned
    finishes      \* how often fit has reached its last step

loop == <<schedule, epoch, position>>
memory == <<global_step, loop, kept>>
disk == <<shard, data, dirs, tracker>>
vars == <<pc, run, memory, disk, completed, finishes>>

\* A job that starts on a finished run does one more step.
Step == 1..(TotalSteps + MaxRuns)
Contents == {None, Torn} \cup (1..MaxRuns)

\* Mutant of IsLastStep: > for >=.
IsPastLastStep == global_step > TotalSteps

\* Mutant of IsLastStep: = for >=.
IsExactlyLastStep == global_step = TotalSteps

IsLastStep == global_step >= TotalSteps
SaveDue == IsLastStep \/ global_step % SaveFreq = 0

-------------------------------------------------------------------------------
Init ==
    /\ pc = "down"
    /\ run = 1
    /\ global_step = 0
    /\ schedule \in Schedule
    /\ epoch = 0
    /\ position = 0
    /\ kept = <<>>
    /\ shard = [s \in Step |-> [r \in Rank |-> None]]
    /\ data = [s \in Step |-> None]
    /\ dirs = {}
    /\ tracker = None
    /\ completed = 0
    /\ finishes = 0

Readable(content) == content \notin {None, Torn}

\* _load_checkpoint finds no checkpoint, and training starts from scratch.
StartFresh ==
    /\ pc = "down"
    /\ tracker = None \/ (tracker \in Step /\ tracker \notin dirs)
    /\ global_step' = 1
    /\ position' = 0
    /\ pc' = "train"
    /\ UNCHANGED <<run, schedule, epoch, kept, disk, completed, finishes>>

\* Mutant of Resume: the dataloader's state is not loaded.
ResumeModelOnly ==
    /\ pc = "down"
    /\ tracker \in dirs
    /\ \A r \in Rank : Readable(shard[tracker][r])
    /\ global_step' = tracker + 1
    /\ position' = 0
    /\ pc' = "train"
    /\ UNCHANGED <<run, schedule, epoch, kept, disk, completed, finishes>>

\* It loads the checkpoint the tracker names.  Without data.pt the dataloader
\* starts over, with a warning.
Resume ==
    /\ pc = "down"
    /\ tracker \in dirs
    /\ \A r \in Rank : Readable(shard[tracker][r])
    /\ data[tracker] # Torn
    /\ global_step' = tracker + 1
    /\ position' = IF data[tracker] = None THEN 0 ELSE data[tracker].position
    /\ pc' = "train"
    /\ UNCHANGED <<run, schedule, epoch, kept, disk, completed, finishes>>

\* It raises: the tracker holds no number, or a file it names does not load.
FailToStart ==
    /\ pc = "down"
    /\ \/ tracker = Torn
       \/ /\ tracker \in dirs
          /\ \/ \E r \in Rank : ~Readable(shard[tracker][r])
             \/ data[tracker] = Torn
    /\ pc' = "stuck"
    /\ UNCHANGED <<run, memory, disk, completed, finishes>>

\* The end of a pass of the training loop: fit returns after the last step.
Advance ==
    IF IsLastStep
    THEN /\ pc' = "finished"
         /\ finishes' = finishes + 1
         /\ UNCHANGED global_step
    ELSE /\ pc' = "train"
         /\ global_step' = global_step + 1
         /\ UNCHANGED finishes

\* One batch is drawn and trained on; a checkpoint follows when it is due.
Train ==
    /\ pc = "train"
    /\ epoch < schedule.total_epochs
    /\ position < schedule.epoch_steps
    /\ position' = position + 1
    /\ IF SaveDue
       THEN pc' = "save" /\ UNCHANGED <<global_step, finishes>>
       ELSE Advance
    /\ UNCHANGED <<run, schedule, epoch, kept, disk, completed>>

\* The dataloader is exhausted: the next pass over it starts a new epoch.
EndEpoch ==
    /\ pc = "train"
    /\ epoch < schedule.total_epochs
    /\ position = schedule.epoch_steps
    /\ epoch' = epoch + 1
    /\ position' = 0
    /\ UNCHANGED <<pc, run, global_step, schedule, kept, disk, completed, finishes>>

\* All epochs are over and the last step never came: fit returns all the same.
RunOut ==
    /\ pc = "train"
    /\ epoch = schedule.total_epochs
    /\ pc' = "finished"
    /\ UNCHANGED <<run, memory, disk, completed, finishes>>

\* Mutant of Excess: one checkpoint too many makes room.
ExcessAndOne == IF Keep > 0 /\ Len(kept) >= Keep THEN Len(kept) - Keep + 2 ELSE 0

\* keep_start, if max_ckpt_to_keep is set and reached.
Excess == IF Keep > 0 /\ Len(kept) >= Keep THEN Len(kept) - Keep + 1 ELSE 0

\* Every rank, up to the first barrier of save_checkpoint: the oldest
\* checkpoints make room first, then the directory is made.
MakeRoom ==
    /\ pc = "save"
    /\ LET removed == {kept[i] : i \in 1..Excess}
       IN  /\ shard' = [s \in Step |-> IF s \in removed
                                       THEN [r \in Rank |-> None] ELSE shard[s]]
           /\ kept' = SubSeq(kept, Excess + 1, Len(kept))
    /\ dirs' = dirs \cup {global_step}
    /\ pc' = "write"
    /\ UNCHANGED <<run, global_step, loop, data, tracker, completed, finishes>>

\* Mutant of OpenShard: files that are there from an earlier run are kept.
OpenMissingShard(r) ==
    /\ pc = "write"
    /\ shard[global_step][r] = None
    /\ shard' = [shard EXCEPT ![global_step][r] = Torn]
    /\ UNCHANGED <<pc, run, memory, data, dirs, tracker, completed, finishes>>

\* Rank r opens its files for writing and closes them.
OpenShard(r) ==
    /\ pc = "write"
    /\ shard[global_step][r] \notin {Torn, run}
    /\ shard' = [shard EXCEPT ![global_step][r] = Torn]
    /\ UNCHANGED <<pc, run, memory, data, dirs, tracker, completed, finishes>>

\* A file that an earlier run left torn is opened and written in one go.
CloseShard(r) ==
    /\ pc = "write"
    /\ shard[global_step][r] = Torn
    /\ shard' = [shard EXCEPT ![global_step][r] = run]
    /\ UNCHANGED <<pc, run, memory, data, dirs, tracker, completed, finishes>>

\* Mutant of OpenData: the path is not remembered.
OpenDataForgets ==
    /\ pc = "write"
    /\ \A r \in Rank : shard[global_step][r] = run
    /\ data' = [data EXCEPT ![global_step] = Torn]
    /\ pc' = "data"
    /\ UNCHANGED <<run, memory, shard, dirs, tracker, completed, finishes>>

\* Every rank has passed its last barrier and returned; the driver opens
\* data.pt.
OpenData ==
    /\ pc = "write"
    /\ \A r \in Rank : shard[global_step][r] = run
    /\ kept' = Append(kept, global_step)
    /\ data' = [data EXCEPT ![global_step] = Torn]
    /\ pc' = "data"
    /\ UNCHANGED <<run, global_step, loop, shard, dirs, tracker, completed, finishes>>

\* data.pt is closed, and the tracker opened, which truncates it.
OpenTracker ==
    /\ pc = "data"
    /\ data' = [data EXCEPT ![global_step] = [run |-> run, position |-> position]]
    /\ tracker' = Torn
    /\ pc' = "track"
    /\ UNCHANGED <<run, memory, shard, dirs, completed, finishes>>

\* The tracker is written: _save_checkpoint returns.
CloseTracker ==
    /\ pc = "track"
    /\ tracker' = global_step
    /\ completed' = global_step
    /\ Advance
    /\ UNCHANGED <<run, loop, kept, shard, data, dirs>>

\* The job is killed, or it is over, and it is submitted again.
Resubmit ==
    /\ pc \notin {"down", "stuck"}
    /\ run < MaxRuns
    /\ run' = run + 1
    /\ pc' = "down"
    /\ global_step' = 0
    /\ epoch' = 0
    /\ position' = 0
    /\ kept' = <<>>
    /\ UNCHANGED <<schedule, disk, completed, finishes>>

Work ==
    \/ StartFresh \/ Resume \/ FailToStart
    \/ Train \/ EndEpoch \/ RunOut \/ MakeRoom
    \/ \E r \in Rank : OpenShard(r) \/ CloseShard(r)
    \/ OpenData \/ OpenTracker \/ CloseTracker

Next == Work \/ Resubmit

SafeSpec == Init /\ [][Next]_vars

\* A job that runs makes progress; nobody has to kill it.
Spec == SafeSpec /\ WF_vars(Work)

-------------------------------------------------------------------------------
TypeOK ==
    /\ pc \in {"down", "stuck", "train", "save", "write", "data", "track", "finished"}
    /\ run \in 1..MaxRuns
    /\ global_step \in 0..(TotalSteps + MaxRuns)
    /\ schedule \in Schedule
    /\ epoch \in 0..schedule.total_epochs
    /\ position \in 0..schedule.epoch_steps
    /\ kept \in Seq(Step)
    /\ shard \in [Step -> [Rank -> Contents]]
    /\ data \in [Step -> {None, Torn}
                         \cup [run : 1..MaxRuns, position : 0..schedule.epoch_steps]]
    /\ dirs \subseteq Step
    /\ tracker \in Step \cup {None, Torn}
    /\ completed \in 0..(TotalSteps + MaxRuns)
    /\ finishes \in 0..MaxRuns

\* All files of a checkpoint load, and one run wrote them all.
Whole(s) ==
    /\ Readable(data[s])
    /\ \A r \in Rank : shard[s][r] = data[s].run

\* checkpoint_manager.py:146: the tracker "rescords the latest chckpoint during
\* training to restart from".  What it names is complete at every moment,
\* also while a later checkpoint is being written and old ones are removed.
TrackerNamesWholeCheckpoint == tracker \in Step => Whole(tracker)

\* What has been saved is never trained again: a job that starts continues
\* behind the last checkpoint whose save returned, with the batch after it,
\* whichever epoch that was in and however often the job was submitted before.
ResumesBehindLastSave ==
    [][pc = "down" /\ pc' = "train" =>
           /\ global_step' > completed
           /\ (position' - (global_step' - 1)) % schedule.epoch_steps = 0]_vars

\* One submission of the job leaves at most Keep actor directories behind; the
\* paths to remove are remembered in memory, so no more than that can be said.
Occupied == {s \in Step : \E r \in Rank : shard[s][r] # None}
DiskBounded == Keep > 0 => Cardinality(Occupied) <= Keep * run

\* fit goes beyond total_training_steps by one step for each time it is run
\* again after it had finished, and by no other way.
OvershootsByReruns ==
    /\ pc \notin {"down", "stuck"} => global_step <= TotalSteps + finishes
    /\ completed <= TotalSteps + finishes

\* A job that is not killed any more trains and saves its last step, unless it
\* cannot start, which only a torn tracker can cause, never torn shards or a torn
\* data.pt: fit counts its epochs from 0 again in every submission, and
\* still never runs out of batches before the last step.
FinishesOrStuck ==
    <>[]((pc = "stuck" /\ tracker = Torn) \/ (pc = "finished" /\ completed >= TotalSteps))
===============================================================================
