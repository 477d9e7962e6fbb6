------------------------- MODULE MCCheckpointRecovery -------------------------
(* Two ranks, a few steps and a few submissions of the job.  The data of a    *)
(* run is three batches seen twice, or six batches seen once, so that a job   *)
(* submitted again after its end has a batch left, or none.                   *)
EXTENDS CheckpointRecovery

CONSTANTS r1, r2

MCSchedule == {[epoch_steps |-> 3, total_epochs |-> 2], [epoch_steps |-> 6, total_epochs |-> 1]}
===============================================================================
