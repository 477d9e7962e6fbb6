--------------------------- MODULE GrpoTrainerProofs ---------------------------
(***************************************************************************)
(* Theorems about GrpoTrainer.tla, for every number of processes, of       *)
(* examples and of epochs, and every schedule.                             *)
(***************************************************************************)
EXTENDS GrpoTrainer, TLAPS

USE TrainerAssumption

\* len(dataloader) is a natural number.
LEMMA LocalBatchesIsNat ==
    ASSUME NEW r \in Rank
    PROVE  LocalBatches(r) \in Nat
<1>1. ASSUME NEW a \in Nat, NEW b \in Nat \ {0}
      PROVE  CeilDiv(a, b) \in Nat
    <2>1. a + b - 1 \in Nat
        OBVIOUS
    <2> QED BY <2>1 DEF CeilDiv
<1>2. LocalExamples(r) \in Nat
    <2>1. r < NumExamples => NumExamples - r \in Nat
        BY DEF Rank
    <2> QED BY <1>1, <2>1 DEF LocalExamples
<1> QED BY <1>1, <1>2 DEF LocalBatches

LEMMA TypeInit == Init => TypeOK
BY LocalBatchesIsNat DEF Init, TypeOK, Kind, Rank, Main

\* A collective call changes pc, calls and op within their types.
LEMMA EnterType ==
    ASSUME TypeOK, NEW r \in Rank, NEW kind \in Kind, NEW where \in Waiting,
           Enter(r, kind, where)
    PROVE  /\ pc' \in [Rank -> Waiting \cup {"draw", "train", "done"}]
           /\ calls' \in [Rank -> Nat]
           /\ op' \in [Rank -> Kind]
BY DEF TypeOK, Enter, Go

LEMMA TypeStep == TypeOK /\ [Next]_vars => TypeOK'
<1> SUFFICES ASSUME TypeOK, [Next]_vars PROVE TypeOK'
    OBVIOUS
<1> USE DEF loopVars, stepVars, diskVars
<1>1. ASSUME NEW r \in Rank, DrawBatch(r) PROVE TypeOK'
    <2>1. batch' \in [Rank -> Nat] /\ \A q \in Rank : batch'[q] <= LocalBatches(q)
        BY <1>1, LocalBatchesIsNat DEF DrawBatch, TypeOK
    <2>2. pc' \in [Rank -> Waiting \cup {"draw", "train", "done"}]
        BY <1>1 DEF DrawBatch, TypeOK, Go
    <2> QED BY <1>1, <2>1, <2>2 DEF DrawBatch, TypeOK, LocalBatches, LocalExamples, CeilDiv
<1>2. ASSUME NEW r \in Rank, EndEpoch(r) PROVE TypeOK'
    <2>1. batch' \in [Rank -> Nat] /\ \A q \in Rank : batch'[q] <= LocalBatches(q)
        BY <1>2, LocalBatchesIsNat DEF EndEpoch, TypeOK
    <2>2. epoch' \in [Rank -> 0..NumEpochs]
        BY <1>2 DEF EndEpoch, TypeOK
    <2> QED BY <1>2, <2>1, <2>2 DEF EndEpoch, TypeOK, LocalBatches, LocalExamples, CeilDiv
<1>3. ASSUME NEW r \in Rank, LeaveLoop(r) PROVE TypeOK'
    <2>1. "barrier" \in Kind /\ "final_begin" \in Waiting
        BY DEF Kind, Waiting
    <2> QED BY <1>3, <2>1, EnterType DEF LeaveLoop, TypeOK
<1>4. ASSUME NEW r \in Rank, AccumulateStep(r) PROVE TypeOK'
    <2>1. "gather" \in Kind /\ "metrics" \in Waiting
        BY DEF Kind, Waiting
    <2>2. micro' \in [Rank -> 0..(GradAccum - 1)] /\ global_step' \in [Rank -> Nat]
        BY <1>4 DEF AccumulateStep, TypeOK
    <2> QED BY <1>4, <2>1, <2>2, EnterType DEF AccumulateStep, TypeOK
<1>5. ASSUME NEW r \in Rank, Backward(r) PROVE TypeOK'
    <2>1. "reduce" \in Kind /\ "backward" \in Waiting
        BY DEF Kind, Waiting
    <2> QED BY <1>5, <2>1, EnterType DEF Backward, TypeOK
<1>6. ASSUME NEW r \in Rank, UpdateStep(r) PROVE TypeOK'
    <2>1. "gather" \in Kind /\ "metrics" \in Waiting
        BY DEF Kind, Waiting
    <2>2. /\ micro' \in [Rank -> 0..(GradAccum - 1)]
          /\ global_step' \in [Rank -> Nat]
          /\ updates' \in [Rank -> Nat]
        BY <1>6 DEF UpdateStep, TypeOK
    <2> QED BY <1>6, <2>1, <2>2, EnterType DEF UpdateStep, TypeOK
<1>7. ASSUME NEW r \in Rank, SaveOrDraw(r)
      PROVE  /\ pc' \in [Rank -> Waiting \cup {"draw", "train", "done"}]
             /\ calls' \in [Rank -> Nat]
             /\ op' \in [Rank -> Kind]
    <2>1. "barrier" \in Kind /\ "save_begin" \in Waiting
        BY DEF Kind, Waiting
    <2>2. CASE Due(r, SaveSteps)
        BY <1>7, <2>1, <2>2, EnterType DEF SaveOrDraw
    <2>3. CASE ~Due(r, SaveSteps)
        BY <1>7, <2>3 DEF SaveOrDraw, Go, TypeOK
    <2> QED BY <2>2, <2>3
<1>8. ASSUME NEW r \in Rank, GatherMetrics(r) PROVE TypeOK'
    <2>1. "eval_gather" \in Kind /\ "eval" \in Waiting
        BY DEF Kind, Waiting
    <2> QED BY <1>8, <1>7, <2>1, EnterType DEF GatherMetrics, TypeOK
<1>9. ASSUME NEW r \in Rank, Evaluate(r) PROVE TypeOK'
    BY <1>9, <1>7 DEF Evaluate, TypeOK
<1>10. ASSUME NEW r \in Rank, WriteCheckpoint(r) PROVE TypeOK'
    <2>1. "barrier" \in Kind /\ "save_end" \in Waiting /\ "final_end" \in Waiting
        BY DEF Kind, Waiting
    <2>2. saved' \in SUBSET Nat
        BY <1>10 DEF WriteCheckpoint, TypeOK
    <2> QED BY <1>10, <2>1, <2>2, EnterType DEF WriteCheckpoint, TypeOK
<1>11. ASSUME NEW r \in Rank, LeaveCheckpoint(r) PROVE TypeOK'
    <2>1. left' \in [Rank -> SUBSET Nat]
        BY <1>11 DEF LeaveCheckpoint, TypeOK
    <2>2. pc' \in [Rank -> Waiting \cup {"draw", "train", "done"}]
        BY <1>11 DEF LeaveCheckpoint, TypeOK, Go
    <2> QED BY <1>11, <2>1, <2>2 DEF LeaveCheckpoint, TypeOK
<1>12. CASE UNCHANGED vars
    BY <1>12 DEF vars, TypeOK
<1> QED BY <1>1, <1>2, <1>3, <1>4, <1>5, <1>6, <1>8, <1>9, <1>10, <1>11, <1>12 DEF Next, Process

\* Type correctness of the training loop.
THEOREM TypeCorrect == SafeSpec => []TypeOK
<1>1. Init => TypeOK
    BY TypeInit
<1>2. TypeOK /\ [Next]_vars => TypeOK'
    BY TypeStep
<1> QED BY <1>1, <1>2, PTL DEF SafeSpec

-------------------------------------------------------------------------------
(* Gradient accumulation: global_step = updates * GradAccum + micro is not     *)
(* inductive alone.  A process that waits in the reduction of its gradients    *)
(* has still to count that pass, and must be known to be at the last of the    *)
(* GradAccum passes.                                                           *)
ReducesTheLastPass == \A r \in Rank : pc[r] = "backward" => micro[r] + 1 = GradAccum

AccumulationInv == TypeOK /\ WholeUpdates /\ ReducesTheLastPass

\* One more update takes the place of the GradAccum passes it is made of.
LEMMA OneMoreUpdate ==
    ASSUME NEW u \in Nat, NEW m \in Nat, m + 1 = GradAccum
    PROVE  u * GradAccum + m + 1 = (u + 1) * GradAccum + 0
<1>1. (u + 1) * GradAccum = u * GradAccum + GradAccum
    OBVIOUS
<1> QED BY <1>1

LEMMA AccumulationInit == Init => AccumulationInv
<1> SUFFICES ASSUME Init PROVE AccumulationInv
    OBVIOUS
<1>1. TypeOK
    BY TypeInit
<1>2. WholeUpdates
    <2>1. 0 * GradAccum = 0
        OBVIOUS
    <2> QED BY <2>1 DEF Init, WholeUpdates
<1>3. ReducesTheLastPass
    BY DEF Init, ReducesTheLastPass
<1> QED BY <1>1, <1>2, <1>3 DEF AccumulationInv

LEMMA AccumulationStep == AccumulationInv /\ [Next]_vars => AccumulationInv'
<1> SUFFICES ASSUME AccumulationInv, [Next]_vars PROVE AccumulationInv'
    OBVIOUS
<1>1. TypeOK'
    BY TypeStep DEF AccumulationInv
<1> SUFFICES WholeUpdates' /\ ReducesTheLastPass'
    BY <1>1 DEF AccumulationInv
<1> USE DEF AccumulationInv
\* The actions that count no pass only move pc.
<1>2. ASSUME UNCHANGED stepVars,
             \A q \in Rank : pc'[q] = "backward" => pc[q] = "backward" \/ micro[q] + 1 = GradAccum
      PROVE  WholeUpdates' /\ ReducesTheLastPass'
    BY <1>2 DEF WholeUpdates, ReducesTheLastPass, stepVars
<1>3. ASSUME NEW r \in Rank, NEW where, where # "backward", Go(r, where)
      PROVE  \A q \in Rank : pc'[q] = "backward" => pc[q] = "backward"
    BY <1>3 DEF Go, TypeOK
<1>4. ASSUME NEW r \in Rank, SaveOrDraw(r)
      PROVE  \A q \in Rank : pc'[q] = "backward" => pc[q] = "backward"
    BY <1>3, <1>4 DEF SaveOrDraw, Enter
<1>5. ASSUME NEW r \in Rank, DrawBatch(r) \/ EndEpoch(r) \/ LeaveLoop(r)
      PROVE  WholeUpdates' /\ ReducesTheLastPass'
    BY <1>2, <1>3, <1>5 DEF DrawBatch, EndEpoch, LeaveLoop, Enter, stepVars
<1>6. ASSUME NEW r \in Rank, AccumulateStep(r)
      PROVE  WholeUpdates' /\ ReducesTheLastPass'
    <2>1. WholeUpdates'
        BY <1>6 DEF AccumulateStep, WholeUpdates, TypeOK
    <2>2. \A q \in Rank : pc'[q] = "backward" => q # r /\ pc[q] = "backward"
        BY <1>6 DEF AccumulateStep, Enter, Go, TypeOK
    <2> QED BY <1>6, <2>1, <2>2 DEF AccumulateStep, ReducesTheLastPass, TypeOK
<1>7. ASSUME NEW r \in Rank, Backward(r)
      PROVE  WholeUpdates' /\ ReducesTheLastPass'
    <2>1. \A q \in Rank : pc'[q] = "backward" => pc[q] = "backward" \/ micro[q] + 1 = GradAccum
        BY <1>7 DEF Backward, Enter, Go, TypeOK
    <2> QED BY <1>2, <1>7, <2>1 DEF Backward
<1>8. ASSUME NEW r \in Rank, UpdateStep(r)
      PROVE  WholeUpdates' /\ ReducesTheLastPass'
    <2>1. micro[r] + 1 = GradAccum
        BY <1>8 DEF UpdateStep, ReducesTheLastPass
    <2>2. global_step[r] + 1 = (updates[r] + 1) * GradAccum + 0
        <3>1. updates[r] \in Nat /\ micro[r] \in Nat
            BY DEF TypeOK
        <3>2. updates[r] * GradAccum \in Nat
            BY <3>1
        <3>3. global_step[r] = updates[r] * GradAccum + micro[r]
            BY DEF WholeUpdates
        <3>4. updates[r] * GradAccum + micro[r] + 1 = (updates[r] + 1) * GradAccum + 0
            BY <2>1, <3>1, OneMoreUpdate
        <3> QED BY <3>3, <3>4
    <2>3. WholeUpdates'
        BY <1>8, <2>2 DEF UpdateStep, WholeUpdates, TypeOK
    <2>4. \A q \in Rank : pc'[q] = "backward" => q # r /\ pc[q] = "backward"
        BY <1>8 DEF UpdateStep, Enter, Go, TypeOK
    <2> QED BY <1>8, <2>3, <2>4 DEF UpdateStep, ReducesTheLastPass, TypeOK
<1>9. ASSUME NEW r \in Rank, GatherMetrics(r) \/ Evaluate(r)
      PROVE  WholeUpdates' /\ ReducesTheLastPass'
    BY <1>2, <1>3, <1>4, <1>9 DEF GatherMetrics, Evaluate, Enter
<1>10. ASSUME NEW r \in Rank, WriteCheckpoint(r) \/ LeaveCheckpoint(r)
       PROVE  WholeUpdates' /\ ReducesTheLastPass'
    BY <1>2, <1>3, <1>10 DEF WriteCheckpoint, LeaveCheckpoint, Enter
<1>11. CASE UNCHANGED vars
    BY <1>2, <1>11 DEF vars, stepVars
<1> QED BY <1>5, <1>6, <1>7, <1>8, <1>9, <1>10, <1>11 DEF Next, Process

\* Every optimizer update is made of exactly GradAccum backward passes, whatever
\* the processes skip and however the epochs end.
THEOREM UpdatesAreWhole == SafeSpec => []WholeUpdates
<1>1. Init => AccumulationInv
    BY AccumulationInit
<1>2. AccumulationInv /\ [Next]_vars => AccumulationInv'
    BY AccumulationStep
<1>3. AccumulationInv => WholeUpdates
    BY DEF AccumulationInv
<1> QED BY <1>1, <1>2, <1>3, PTL DEF SafeSpec

-------------------------------------------------------------------------------
(***************************************************************************)
(* Why the processes of GrpoTrainer.tla stay together, for any number of   *)
(* processes and any schedule.                                             *)
(*                                                                         *)
(* The slot of a process is the kind of the last collective call it made   *)
(* and the step it made it in.  What may follow a slot is decided by the   *)
(* slot itself (whether an evaluation, a checkpoint or a reduction is due) *)
(* but for one choice, to train or to leave the loop, which depends on     *)
(* what the process has skipped.  So processes that have made the same     *)
(* number of calls are in the same slot, or one has left the loop and the  *)
(* other trains; the latter never complete their calls.                    *)
(***************************************************************************)

USE TrainerAssumption

Stage(r) ==
    IF pc[r] \in Waiting THEN pc[r]
    ELSE IF pc[r] = "done" THEN "final_end"
    ELSE IF calls[r] = 0 THEN "start"
    ELSE IF op[r] = "gather" THEN "metrics"
    ELSE IF op[r] = "eval_gather" THEN "eval"
    ELSE "save_end"

OpOf(stage) ==
    IF stage = "backward" THEN "reduce"
    ELSE IF stage = "metrics" THEN "gather"
    ELSE IF stage = "eval" THEN "eval_gather"
    ELSE "barrier"

\* The pass after step s is the last of its update.
LastPass(s) == \E u \in Nat : s + 1 = u * GradAccum

DueAt(s, every) == every > 0 /\ s % every = 0

Evaluates(stage, s) == stage = "metrics" /\ DueAt(s, EvalSteps) /\ HasEval
Saves(stage, s) ==
    stage \in {"metrics", "eval"} /\ ~Evaluates(stage, s) /\ DueAt(s, SaveSteps)
Draws(stage, s) ==
    /\ stage \in {"start", "metrics", "eval", "save_end"}
    /\ ~Evaluates(stage, s)
    /\ ~Saves(stage, s)

\* Slot <<next, t>> may be the one after slot <<stage, s>>.
Follows(stage, s, next, t) ==
    \/ stage = "backward" /\ next = "metrics" /\ t = s + 1
    \/ stage = "save_begin" /\ next = "save_end" /\ t = s
    \/ stage = "final_begin" /\ next = "final_end" /\ t = s
    \/ Evaluates(stage, s) /\ next = "eval" /\ t = s
    \/ Saves(stage, s) /\ next = "save_begin" /\ t = s
    \/ Draws(stage, s) /\ LastPass(s) /\ next = "backward" /\ t = s
    \/ Draws(stage, s) /\ ~LastPass(s) /\ next = "metrics" /\ t = s + 1
    \/ Draws(stage, s) /\ next = "final_begin" /\ t = s

Same(p, r) == Stage(p) = Stage(r) /\ global_step[p] = global_step[r]

\* p has left the loop, and r makes its next step.
Apart(p, r) ==
    /\ Stage(p) = "final_begin" /\ Stage(r) \in Training
    /\ global_step[p] <= global_step[r] /\ global_step[r] <= global_step[p] + 1

SlotInv(r) ==
    /\ pc[r] \in Waiting => calls[r] > 0 /\ op[r] = OpOf(pc[r])
    /\ pc[r] = "done" => calls[r] > 0 /\ op[r] = "barrier"
    /\ pc[r] \in {"draw", "train"} => op[r] # "reduce" /\ Draws(Stage(r), global_step[r])
    /\ pc[r] \notin Waiting => Complete(r)

PairInv(p, r) ==
    /\ calls[p] <= calls[r] + 1
    /\ calls[p] = calls[r] => Same(p, r) \/ Apart(p, r) \/ Apart(r, p)
    /\ calls[p] = calls[r] + 1 =>
           Follows(Stage(r), global_step[r], Stage(p), global_step[p])

LockInv ==
    /\ AccumulationInv
    /\ \A r \in Rank : SlotInv(r)
    /\ \A p, r \in Rank : PairInv(p, r)

-------------------------------------------------------------------------------
(* Slots                                                                       *)

\* Two slots that may follow the same one are the same slot, or one leaves the
\* loop and the other trains.
LEMMA FollowersAgree ==
    ASSUME NEW stage, NEW s \in Nat, NEW next1, NEW t1, NEW next2, NEW t2,
           Follows(stage, s, next1, t1), Follows(stage, s, next2, t2)
    PROVE  \/ next1 = next2 /\ t1 = t2
           \/ next1 = "final_begin" /\ next2 \in Training /\ t1 <= t2 /\ t2 <= t1 + 1
           \/ next2 = "final_begin" /\ next1 \in Training /\ t2 <= t1 /\ t1 <= t2 + 1
BY DEF Follows, Evaluates, Saves, Draws, Training

\* Multiplication by GradAccum keeps the order.
LEMMA Monotone ==
    ASSUME NEW a \in Nat, NEW b \in Nat, a <= b
    PROVE  a * GradAccum <= b * GradAccum
<1> DEFINE d == b - a
<1>1. d \in Nat /\ b = a + d
    OBVIOUS
<1>2. d * GradAccum \in Nat
    BY <1>1
<1>3. (a + d) * GradAccum = a * GradAccum + d * GradAccum
    BY <1>1
<1>4. a * GradAccum \in Nat
    OBVIOUS
<1> QED BY <1>1, <1>2, <1>3, <1>4

\* micro tells the last pass of an update from the others.
LEMMA LastPassOf ==
    ASSUME NEW u \in Nat, NEW m \in Nat, m + 1 <= GradAccum,
           NEW s \in Nat, s = u * GradAccum + m
    PROVE  LastPass(s) <=> m + 1 = GradAccum
<1>1. u * GradAccum \in Nat
    OBVIOUS
<1>2. (u + 1) * GradAccum = u * GradAccum + GradAccum
    OBVIOUS
<1>3. ASSUME m + 1 = GradAccum PROVE LastPass(s)
    <2>1. s + 1 = (u + 1) * GradAccum
        BY <1>1, <1>2, <1>3
    <2>2. u + 1 \in Nat
        OBVIOUS
    <2> QED BY <2>1, <2>2, Zenon DEF LastPass
<1>4. ASSUME NEW v \in Nat, s + 1 = v * GradAccum PROVE m + 1 = GradAccum
    <2>1. CASE v <= u
        <3>1. v * GradAccum <= u * GradAccum
            BY <2>1, Monotone
        <3> QED BY <1>1, <1>4, <3>1
    <2>2. CASE u + 1 <= v
        <3>1. (u + 1) * GradAccum <= v * GradAccum
            BY <2>2, Monotone
        <3> QED BY <1>1, <1>2, <1>4, <3>1
    <2> QED BY <2>1, <2>2
<1> QED BY <1>3, <1>4 DEF LastPass

LEMMA MicroTellsLastPass ==
    ASSUME AccumulationInv, NEW r \in Rank
    PROVE  LastPass(global_step[r]) <=> micro[r] + 1 = GradAccum
<1>1. /\ global_step[r] \in Nat /\ updates[r] \in Nat
      /\ micro[r] \in Nat /\ micro[r] + 1 <= GradAccum
    BY DEF AccumulationInv, TypeOK
<1>2. global_step[r] = updates[r] * GradAccum + micro[r]
    BY DEF AccumulationInv, WholeUpdates
<1> QED BY <1>1, <1>2, LastPassOf

\* The kind of its last call is that of its slot.
LEMMA OpOfStage ==
    ASSUME TypeOK, NEW r \in Rank, SlotInv(r), calls[r] > 0
    PROVE  Stage(r) # "start" /\ op[r] = OpOf(Stage(r))
BY DEF TypeOK, SlotInv, Stage, OpOf, Waiting, Kind

\* A process whose call is complete shares its slot with all those that have
\* made no call since.
LEMMA CompleteMeansSame ==
    ASSUME LockInv, NEW p \in Rank, NEW r \in Rank, Complete(p), calls[r] = calls[p]
    PROVE  Same(p, r)
<1>1. op[p] = op[r]
    BY DEF Complete
<1>2. Same(p, r) \/ Apart(p, r) \/ Apart(r, p)
    BY DEF LockInv, PairInv
<1>3. CASE calls[p] = 0
    <2>1. Stage(p) = "start" /\ Stage(r) = "start"
        BY <1>3 DEF LockInv, AccumulationInv, TypeOK, SlotInv, Stage, Waiting
    <2> QED BY <1>2, <2>1 DEF Apart
<1>4. CASE calls[p] > 0
    <2>1. OpOf(Stage(p)) = OpOf(Stage(r))
        BY <1>1, <1>4, OpOfStage DEF LockInv, AccumulationInv
    <2>2. ~Apart(p, r) /\ ~Apart(r, p)
        BY <2>1 DEF Apart, OpOf, Training
    <2> QED BY <1>2, <2>2
<1> QED BY <1>3, <1>4 DEF LockInv, AccumulationInv, TypeOK

-------------------------------------------------------------------------------
(* The two kinds of steps: p enters its next call, or goes on between calls    *)

\* p enters the call of a slot that may follow its own.
EntersNext(p) ==
    \E next \in Waiting, t \in Nat :
        /\ Complete(p)
        /\ Follows(Stage(p), global_step[p], next, t)
        /\ Enter(p, OpOf(next), next)
        /\ global_step' = [global_step EXCEPT ![p] = t]

\* p goes on without a call.
GoesOn(p) ==
    \E where \in {"draw", "train", "done"} :
        /\ Complete(p)
        /\ Go(p, where)
        /\ UNCHANGED <<calls, op, global_step>>
        /\ IF where = "done" THEN calls[p] > 0 /\ Stage(p) = "final_end" /\ op[p] = "barrier"
           ELSE op[p] # "reduce" /\ Draws(Stage(p), global_step[p])
        /\ Stage(p)' = Stage(p)

PairsAgree ==
    /\ \A r \in Rank : SlotInv(r)
    /\ \A p, r \in Rank : PairInv(p, r)

LEMMA EntersNextKeepsPairs ==
    ASSUME LockInv, NEW p \in Rank, EntersNext(p)
    PROVE  PairsAgree'
<1> USE DEF LockInv, AccumulationInv
<1>1. PICK next \in Waiting, t \in Nat :
          /\ Complete(p)
          /\ Follows(Stage(p), global_step[p], next, t)
          /\ Enter(p, OpOf(next), next)
          /\ global_step' = [global_step EXCEPT ![p] = t]
    BY DEF EntersNext
<1>2. /\ calls \in [Rank -> Nat] /\ op \in [Rank -> Kind] /\ global_step \in [Rank -> Nat]
      /\ pc \in [Rank -> Waiting \cup {"draw", "train", "done"}]
    BY DEF TypeOK
<1>3. /\ calls' = [calls EXCEPT ![p] = calls[p] + 1]
      /\ op' = [op EXCEPT ![p] = OpOf(next)]
      /\ pc' = [pc EXCEPT ![p] = next]
    BY <1>1 DEF Enter, Go
<1>4. Stage(p)' = next
    BY <1>2, <1>3 DEF Stage
<1>5. \A r \in Rank \ {p} : Stage(r)' = Stage(r) /\ global_step'[r] = global_step[r]
                            /\ calls'[r] = calls[r] /\ op'[r] = op[r] /\ pc'[r] = pc[r]
    BY <1>1, <1>2, <1>3 DEF Stage
<1>6. \A r \in Rank : calls[p] <= calls[r]
    BY <1>1 DEF Complete
<1>7. ASSUME NEW r \in Rank PROVE SlotInv(r)'
    <2>1. CASE r = p
        BY <1>1, <1>2, <1>3, <2>1 DEF SlotInv, Waiting
    <2>2. CASE r # p
        <3>1. SlotInv(r)
            OBVIOUS
        <3>2. Draws(Stage(r), global_step[r]) => Draws(Stage(r), global_step[r])'
            BY <1>5, <2>2 DEF Draws, Evaluates, Saves, DueAt
        <3>3. ASSUME Complete(r) PROVE Complete(r)'
            <4>1. calls[r] <= calls[p]
                BY <3>3 DEF Complete
            <4> QED BY <1>2, <1>3, <2>2, <3>3, <4>1 DEF Complete
        <3> QED BY <1>5, <2>2, <3>1, <3>2, <3>3 DEF SlotInv
    <2> QED BY <2>1, <2>2
<1>8. ASSUME NEW r \in Rank, r # p PROVE PairInv(p, r)'
    <2>1. calls[p] <= calls[r] /\ calls[r] <= calls[p] + 1
        BY <1>6 DEF PairInv
    <2>2. CASE calls[r] = calls[p]
        <3>1. Same(p, r)
            BY <1>1, <2>2, CompleteMeansSame
        <3>2. Follows(Stage(r), global_step[r], next, t)
            BY <1>1, <3>1 DEF Same
        <3>3. /\ calls'[p] = calls'[r] + 1 /\ Stage(p)' = next /\ global_step'[p] = t
              /\ Stage(r)' = Stage(r) /\ global_step'[r] = global_step[r]
            BY <1>1, <1>2, <1>3, <1>4, <1>5, <1>8, <2>2
        <3> QED BY <1>2, <1>5, <1>8, <3>2, <3>3 DEF PairInv
    <2>3. CASE calls[r] = calls[p] + 1
        <3>1. Follows(Stage(p), global_step[p], Stage(r), global_step[r])
            BY <2>3 DEF PairInv
        <3>2. \/ next = Stage(r) /\ t = global_step[r]
              \/ next = "final_begin" /\ Stage(r) \in Training
                 /\ t <= global_step[r] /\ global_step[r] <= t + 1
              \/ Stage(r) = "final_begin" /\ next \in Training
                 /\ global_step[r] <= t /\ t <= global_step[r] + 1
            <4>1. global_step[p] \in Nat
                BY <1>2
            <4> HIDE DEF LockInv, AccumulationInv
            <4> QED BY <1>1, <3>1, <4>1, FollowersAgree
        <3>3. /\ calls'[p] = calls'[r] /\ Stage(p)' = next /\ global_step'[p] = t
              /\ Stage(r)' = Stage(r) /\ global_step'[r] = global_step[r]
            BY <1>1, <1>2, <1>3, <1>4, <1>5, <1>8, <2>3
        <3> QED BY <1>2, <1>5, <1>8, <3>2, <3>3 DEF PairInv, Same, Apart, Training
    <2> QED BY <1>2, <2>1, <2>2, <2>3
<1>9. ASSUME NEW r \in Rank, r # p PROVE PairInv(r, p)'
    <2>1. PairInv(p, r)'
        BY <1>8, <1>9
    <2>2. calls'[r] <= calls'[p]
        BY <1>2, <1>3, <1>9 DEF PairInv
    <2>3. calls'[r] \in Nat /\ calls'[p] \in Nat
        BY <1>2, <1>3
    <2> QED BY <2>1, <2>2, <2>3 DEF PairInv, Same, Apart
<1>10. ASSUME NEW q \in Rank, NEW r \in Rank, q # p, r # p PROVE PairInv(q, r)'
    <2>1. PairInv(q, r)
        OBVIOUS
    <2>2. Follows(Stage(r), global_step[r], Stage(q), global_step[q]) =>
              Follows(Stage(r), global_step[r], Stage(q), global_step[q])'
        BY <1>5, <1>10 DEF Follows, Draws, Evaluates, Saves, DueAt, LastPass
    <2> QED BY <1>5, <1>10, <2>1, <2>2 DEF PairInv, Same, Apart
<1>11. PairInv(p, p)'
    BY <1>2, <1>3 DEF PairInv, Same
<1> QED BY <1>7, <1>8, <1>9, <1>10, <1>11 DEF PairsAgree

LEMMA GoesOnKeepsPairs ==
    ASSUME LockInv, NEW p \in Rank, GoesOn(p)
    PROVE  PairsAgree'
<1> USE DEF LockInv, AccumulationInv
<1>1. PICK where \in {"draw", "train", "done"} :
          /\ Complete(p)
          /\ Go(p, where)
          /\ UNCHANGED <<calls, op, global_step>>
          /\ IF where = "done"
             THEN calls[p] > 0 /\ Stage(p) = "final_end" /\ op[p] = "barrier"
             ELSE op[p] # "reduce" /\ Draws(Stage(p), global_step[p])
          /\ Stage(p)' = Stage(p)
    BY DEF GoesOn
<1>2. pc \in [Rank -> Waiting \cup {"draw", "train", "done"}]
    BY DEF TypeOK
<1>3. \A r \in Rank : Stage(r)' = Stage(r)
    BY <1>1, <1>2 DEF Stage, Go
<1>4. \A r \in Rank : Complete(r)' <=> Complete(r)
    BY <1>1 DEF Complete
<1>5. ASSUME NEW r \in Rank PROVE SlotInv(r)'
    <2>1. Draws(Stage(r), global_step[r])' <=> Draws(Stage(r), global_step[r])
        BY <1>1, <1>3 DEF Draws, Evaluates, Saves, DueAt
    <2>2. CASE r = p
        <3>1. pc'[p] = where /\ where \notin Waiting
            BY <1>1, <1>2 DEF Go, Waiting
        <3> QED BY <1>1, <1>4, <2>1, <2>2, <3>1 DEF SlotInv
    <2>3. CASE r # p
        <3>1. pc'[r] = pc[r]
            BY <1>1, <1>2, <2>3 DEF Go
        <3> QED BY <1>1, <1>4, <2>1, <3>1 DEF SlotInv
    <2> QED BY <2>2, <2>3
<1>6. ASSUME NEW q \in Rank, NEW r \in Rank PROVE PairInv(q, r)'
    <2>1. PairInv(q, r)
        OBVIOUS
    <2>2. Follows(Stage(r), global_step[r], Stage(q), global_step[q]) =>
              Follows(Stage(r), global_step[r], Stage(q), global_step[q])'
        BY <1>1, <1>3 DEF Follows, Draws, Evaluates, Saves, DueAt, LastPass
    <2> QED BY <1>1, <1>3, <2>1, <2>2 DEF PairInv, Same, Apart
<1> QED BY <1>5, <1>6 DEF PairsAgree

-------------------------------------------------------------------------------
(* Every action is one of the two                                              *)

LEMMA DrawsWhenDrawing ==
    ASSUME LockInv, NEW r \in Rank, pc[r] \in {"draw", "train"}
    PROVE  Complete(r) /\ op[r] # "reduce" /\ Draws(Stage(r), global_step[r])
BY DEF LockInv, SlotInv, Waiting

LEMMA DueIsDueAt ==
    ASSUME NEW r \in Rank, NEW every
    PROVE  Due(r, every) <=> DueAt(global_step[r], every)
BY DEF Due, DueAt

\* A step that stays between calls.
LEMMA GoesOnDrawing ==
    ASSUME LockInv, NEW r \in Rank, NEW where \in {"draw", "train"}, Complete(r),
           Go(r, where), UNCHANGED <<calls, op, global_step>>,
           calls[r] > 0, op[r] # "reduce", Draws(Stage(r), global_step[r]),
           pc[r] \in {"metrics", "eval", "save_end"}
    PROVE  GoesOn(r)
<1>1. op[r] = OpOf(pc[r]) /\ pc[r] \in Waiting
    BY DEF LockInv, SlotInv, Waiting
<1>2. pc'[r] = where
    BY DEF Go, LockInv, AccumulationInv, TypeOK
<1>3. Stage(r)' = Stage(r)
    BY <1>1, <1>2 DEF Stage, OpOf, Waiting
<1> QED BY <1>3 DEF GoesOn

\* The two actions that draw or skip, and the end of an epoch.
LEMMA DrawIsGoesOn ==
    ASSUME LockInv, NEW r \in Rank, DrawBatch(r) \/ EndEpoch(r)
    PROVE  GoesOn(r)
<1> USE DEF LockInv, AccumulationInv
<1>1. pc[r] = "draw" /\ UNCHANGED <<calls, op, global_step>>
    BY DEF DrawBatch, EndEpoch, stepVars
<1>2. PICK where \in {"draw", "train"} : Go(r, where)
    <2>1. UNCHANGED pc => Go(r, "draw")
        BY <1>1 DEF Go, TypeOK
    <2> QED BY <2>1 DEF DrawBatch, EndEpoch
<1>3. Complete(r) /\ op[r] # "reduce" /\ Draws(Stage(r), global_step[r])
    BY <1>1, DrawsWhenDrawing
<1>4. Stage(r)' = Stage(r)
    BY <1>1, <1>2 DEF Go, Stage, TypeOK, Waiting
<1> QED BY <1>1, <1>2, <1>3, <1>4 DEF GoesOn

LEMMA EnterIsEntersNext ==
    ASSUME LockInv, NEW r \in Rank, NEW next \in Waiting, NEW t \in Nat,
           Complete(r), Follows(Stage(r), global_step[r], next, t),
           Enter(r, OpOf(next), next), global_step' = [global_step EXCEPT ![r] = t]
    PROVE  EntersNext(r)
BY DEF EntersNext

LEMMA SameStep ==
    ASSUME TypeOK, NEW r \in Rank, UNCHANGED global_step
    PROVE  global_step' = [global_step EXCEPT ![r] = global_step[r]] /\ global_step[r] \in Nat
BY DEF TypeOK

LEMMA TrainIsEntersNext ==
    ASSUME LockInv, NEW r \in Rank,
           LeaveLoop(r) \/ AccumulateStep(r) \/ Backward(r) \/ UpdateStep(r)
    PROVE  EntersNext(r)
<1> USE DEF LockInv, AccumulationInv, stepVars
<1>1. CASE LeaveLoop(r)
    <2>1. Complete(r) /\ Follows(Stage(r), global_step[r], "final_begin", global_step[r])
        BY <1>1, DrawsWhenDrawing DEF LeaveLoop, Follows
    <2>2. Enter(r, OpOf("final_begin"), "final_begin") /\ "final_begin" \in Waiting
        BY <1>1 DEF LeaveLoop, OpOf, Waiting
    <2> QED BY <1>1, <2>1, <2>2, SameStep DEF LeaveLoop, EntersNext
<1>2. CASE AccumulateStep(r)
    <2>1. ~LastPass(global_step[r])
        <3>1. micro[r] + 1 # GradAccum
            BY <1>2 DEF AccumulateStep, TypeOK
        <3> QED BY <3>1, MicroTellsLastPass
    <2>2. Complete(r) /\ Follows(Stage(r), global_step[r], "metrics", global_step[r] + 1)
        BY <1>2, <2>1, DrawsWhenDrawing DEF AccumulateStep, Follows
    <2>3. Enter(r, OpOf("metrics"), "metrics") /\ "metrics" \in Waiting
        BY <1>2 DEF AccumulateStep, OpOf, Waiting
    <2>4. /\ global_step' = [global_step EXCEPT ![r] = global_step[r] + 1]
          /\ global_step[r] + 1 \in Nat
        BY <1>2 DEF AccumulateStep, TypeOK
    <2> QED BY <2>2, <2>3, <2>4 DEF EntersNext
<1>3. CASE Backward(r)
    <2>1. LastPass(global_step[r])
        BY <1>3, MicroTellsLastPass DEF Backward
    <2>2. Complete(r) /\ Follows(Stage(r), global_step[r], "backward", global_step[r])
        BY <1>3, <2>1, DrawsWhenDrawing DEF Backward, Follows
    <2>3. Enter(r, OpOf("backward"), "backward") /\ "backward" \in Waiting
        BY <1>3 DEF Backward, OpOf, Waiting
    <2> QED BY <1>3, <2>2, <2>3, SameStep DEF Backward, EntersNext
<1>4. CASE UpdateStep(r)
    <2>1. Stage(r) = "backward" /\ Complete(r)
        BY <1>4 DEF UpdateStep, Stage, Waiting
    <2>2. Follows(Stage(r), global_step[r], "metrics", global_step[r] + 1)
        BY <2>1 DEF Follows
    <2>3. Enter(r, OpOf("metrics"), "metrics") /\ "metrics" \in Waiting
        BY <1>4 DEF UpdateStep, OpOf, Waiting
    <2>4. /\ global_step' = [global_step EXCEPT ![r] = global_step[r] + 1]
          /\ global_step[r] + 1 \in Nat
        BY <1>4 DEF UpdateStep, TypeOK
    <2> QED BY <2>1, <2>2, <2>3, <2>4 DEF EntersNext
<1> QED BY <1>1, <1>2, <1>3, <1>4

\* What follows the metrics, and the evaluation.
LEMMA SaveOrDrawIsEither ==
    ASSUME LockInv, NEW r \in Rank, Complete(r), SaveOrDraw(r), UNCHANGED global_step,
           pc[r] \in {"metrics", "eval"}, ~Evaluates(Stage(r), global_step[r])
    PROVE  EntersNext(r) \/ GoesOn(r)
<1> USE DEF LockInv, AccumulationInv
<1>1. Stage(r) = pc[r] /\ calls[r] > 0 /\ op[r] = OpOf(pc[r])
    BY DEF Stage, SlotInv, Waiting
<1>2. CASE Due(r, SaveSteps)
    <2>1. Follows(Stage(r), global_step[r], "save_begin", global_step[r])
        BY <1>1, <1>2, DueIsDueAt DEF Follows, Saves
    <2>2. Enter(r, OpOf("save_begin"), "save_begin") /\ "save_begin" \in Waiting
        BY <1>2 DEF SaveOrDraw, OpOf, Waiting
    <2> QED BY <2>1, <2>2, SameStep DEF EntersNext
<1>3. CASE ~Due(r, SaveSteps)
    <2>1. Draws(Stage(r), global_step[r])
        BY <1>1, <1>3, DueIsDueAt DEF Draws, Saves
    <2>2. Go(r, "draw") /\ UNCHANGED <<calls, op>>
        BY <1>3 DEF SaveOrDraw
    <2>3. op[r] # "reduce"
        BY <1>1 DEF OpOf
    <2> QED BY <1>1, <2>1, <2>2, <2>3, GoesOnDrawing
<1> QED BY <1>2, <1>3

LEMMA GatherIsEither ==
    ASSUME LockInv, NEW r \in Rank, GatherMetrics(r) \/ Evaluate(r)
    PROVE  EntersNext(r) \/ GoesOn(r)
<1> USE DEF LockInv, AccumulationInv, stepVars
<1>1. Complete(r) /\ UNCHANGED global_step
    BY DEF GatherMetrics, Evaluate
<1>2. CASE GatherMetrics(r)
    <2>1. Stage(r) = "metrics" /\ pc[r] = "metrics"
        BY <1>2 DEF GatherMetrics, Stage, Waiting
    <2>2. CASE Evaluates(Stage(r), global_step[r])
        <3>1. Follows(Stage(r), global_step[r], "eval", global_step[r])
            BY <2>2 DEF Follows
        <3>2. Enter(r, OpOf("eval"), "eval") /\ "eval" \in Waiting
            BY <1>2, <2>2, DueIsDueAt DEF GatherMetrics, Evaluates, OpOf, Waiting
        <3> QED BY <1>1, <3>1, <3>2, SameStep DEF EntersNext
    <2>3. CASE ~Evaluates(Stage(r), global_step[r])
        <3>1. SaveOrDraw(r)
            BY <1>2, <2>1, <2>3, DueIsDueAt DEF GatherMetrics, Evaluates
        <3> QED BY <1>1, <2>1, <2>3, <3>1, SaveOrDrawIsEither
    <2> QED BY <2>2, <2>3
<1>3. CASE Evaluate(r)
    <2>1. Stage(r) = "eval" /\ pc[r] = "eval"
        BY <1>3 DEF Evaluate, Stage, Waiting
    <2>2. ~Evaluates(Stage(r), global_step[r])
        BY <2>1 DEF Evaluates
    <2> QED BY <1>1, <1>3, <2>1, <2>2, SaveOrDrawIsEither DEF Evaluate
<1> QED BY <1>2, <1>3

LEMMA CheckpointIsEither ==
    ASSUME LockInv, NEW r \in Rank, WriteCheckpoint(r) \/ LeaveCheckpoint(r)
    PROVE  EntersNext(r) \/ GoesOn(r)
<1> USE DEF LockInv, AccumulationInv, stepVars
<1>1. Complete(r) /\ UNCHANGED global_step
    BY DEF WriteCheckpoint, LeaveCheckpoint
<1>2. CASE WriteCheckpoint(r) /\ pc[r] = "save_begin"
    <2>1. Follows(Stage(r), global_step[r], "save_end", global_step[r])
        BY <1>2 DEF Stage, Waiting, Follows
    <2>2. Enter(r, OpOf("save_end"), "save_end") /\ "save_end" \in Waiting
        BY <1>2 DEF WriteCheckpoint, OpOf, Waiting
    <2> QED BY <1>1, <2>1, <2>2, SameStep DEF EntersNext
<1>3. CASE WriteCheckpoint(r) /\ pc[r] = "final_begin"
    <2>1. Follows(Stage(r), global_step[r], "final_end", global_step[r])
        BY <1>3 DEF Stage, Waiting, Follows
    <2>2. Enter(r, OpOf("final_end"), "final_end") /\ "final_end" \in Waiting
        BY <1>3 DEF WriteCheckpoint, OpOf, Waiting
    <2> QED BY <1>1, <2>1, <2>2, SameStep DEF EntersNext
<1>4. CASE LeaveCheckpoint(r) /\ pc[r] = "save_end"
    <2>1. Stage(r) = "save_end" /\ calls[r] > 0 /\ op[r] = "barrier"
        BY <1>4 DEF Stage, SlotInv, Waiting, OpOf
    <2>2. Draws(Stage(r), global_step[r])
        BY <2>1 DEF Draws, Evaluates, Saves
    <2>3. Go(r, "draw") /\ UNCHANGED <<calls, op>>
        BY <1>4 DEF LeaveCheckpoint
    <2> QED BY <1>1, <1>4, <2>1, <2>2, <2>3, GoesOnDrawing
<1>5. CASE LeaveCheckpoint(r) /\ pc[r] = "final_end"
    <2>1. Stage(r) = "final_end" /\ calls[r] > 0 /\ op[r] = "barrier"
        BY <1>5 DEF Stage, SlotInv, Waiting, OpOf
    <2>2. Go(r, "done") /\ UNCHANGED <<calls, op>>
        BY <1>5 DEF LeaveCheckpoint
    <2>3. Stage(r)' = "final_end"
        BY <2>2 DEF Go, Stage, TypeOK, Waiting
    <2> QED BY <1>1, <2>1, <2>2, <2>3 DEF GoesOn
<1> QED BY <1>2, <1>3, <1>4, <1>5 DEF WriteCheckpoint, LeaveCheckpoint

-------------------------------------------------------------------------------
LEMMA LockInit == Init => LockInv
<1> SUFFICES ASSUME Init PROVE LockInv
    OBVIOUS
<1>1. AccumulationInv
    BY AccumulationInit
<1>2. ASSUME NEW r \in Rank
      PROVE  /\ pc[r] = "draw" /\ calls[r] = 0 /\ op[r] = "barrier" /\ global_step[r] = 0
             /\ Stage(r) = "start"
    BY DEF Init, Stage, Waiting
<1>3. ASSUME NEW r \in Rank PROVE SlotInv(r)
    BY <1>2 DEF SlotInv, Complete, Draws, Evaluates, Saves, Waiting
<1>4. ASSUME NEW p \in Rank, NEW r \in Rank PROVE PairInv(p, r)
    BY <1>2 DEF PairInv, Same
<1> QED BY <1>1, <1>3, <1>4 DEF LockInv

LEMMA ProcessIsEither ==
    ASSUME LockInv, NEW r \in Rank, Process(r)
    PROVE  EntersNext(r) \/ GoesOn(r)
BY DrawIsGoesOn, TrainIsEntersNext, GatherIsEither, CheckpointIsEither DEF Process

LEMMA LockStep == LockInv /\ [Next]_vars => LockInv'
<1> SUFFICES ASSUME LockInv, [Next]_vars PROVE LockInv'
    OBVIOUS
<1>1. AccumulationInv'
    BY AccumulationStep DEF LockInv
<1>2. ASSUME NEW r \in Rank, Process(r) PROVE PairsAgree'
    BY <1>2, ProcessIsEither, EntersNextKeepsPairs, GoesOnKeepsPairs
<1>3. ASSUME UNCHANGED vars PROVE PairsAgree'
    <2> USE DEF LockInv, vars, stepVars
    <2>1. \A r \in Rank : SlotInv(r)'
        BY <1>3 DEF SlotInv, Complete, Draws, Evaluates, Saves, DueAt, Stage
    <2>2. ASSUME NEW p \in Rank, NEW r \in Rank PROVE PairInv(p, r)'
        <3>1. Stage(p)' = Stage(p) /\ Stage(r)' = Stage(r)
            BY <1>3 DEF Stage
        <3>2. PairInv(p, r)
            OBVIOUS
        <3>3. Follows(Stage(r), global_step[r], Stage(p), global_step[p]) =>
                  Follows(Stage(r), global_step[r], Stage(p), global_step[p])'
            BY <1>3, <3>1 DEF Follows, Draws, Evaluates, Saves, DueAt, LastPass
        <3> QED BY <1>3, <3>1, <3>2, <3>3 DEF PairInv, Same, Apart
    <2> QED BY <2>1, <2>2 DEF PairsAgree
<1>4. PairsAgree'
    BY <1>2, <1>3 DEF Next
<1> QED BY <1>1, <1>4 DEF LockInv, PairsAgree

\* However the processes skip, none runs more than one collective call or one
\* step ahead of another: what depends on global_step is decided alike by all.
THEOREM ProcessesStayTogether == SafeSpec => []Lockstep
<1>1. LockInv => Lockstep
    <2> SUFFICES ASSUME LockInv, NEW p \in Rank, NEW r \in Rank
                 PROVE  calls[p] <= calls[r] + 1 /\ global_step[p] <= global_step[r] + 1
        BY DEF Lockstep
    <2>1. PairInv(p, r) /\ PairInv(r, p)
        BY DEF LockInv
    <2>2. /\ calls[p] \in Nat /\ calls[r] \in Nat
          /\ global_step[p] \in Nat /\ global_step[r] \in Nat
        BY DEF LockInv, AccumulationInv, TypeOK
    <2>3. CASE calls[p] = calls[r]
        BY <2>1, <2>2, <2>3 DEF PairInv, Same, Apart
    <2>4. CASE calls[p] = calls[r] + 1
        BY <2>1, <2>2, <2>4 DEF PairInv, Follows
    <2>5. CASE calls[r] = calls[p] + 1
        BY <2>1, <2>2, <2>5 DEF PairInv, Follows
    <2> QED BY <2>1, <2>2, <2>3, <2>4, <2>5 DEF PairInv
<1> QED BY <1>1, LockInit, LockStep, PTL DEF SafeSpec

\* Different calls meet as one collective only when a process has left the loop
\* while another still trains.
THEOREM MismatchesAreAtTheEnd == SafeSpec => []MismatchOnlyAtTheEnd
<1>1. LockInv => MismatchOnlyAtTheEnd
    <2> SUFFICES ASSUME LockInv, NEW p \in Rank, NEW r \in Rank,
                        pc[p] \in Waiting, pc[r] \in Waiting,
                        calls[p] = calls[r], op[p] # op[r]
                 PROVE  \/ pc[p] = "final_begin" /\ pc[r] \in Training
                        \/ pc[r] = "final_begin" /\ pc[p] \in Training
        BY DEF MismatchOnlyAtTheEnd
    <2>1. Stage(p) = pc[p] /\ Stage(r) = pc[r]
        BY DEF Stage
    <2>2. op[p] = OpOf(pc[p]) /\ op[r] = OpOf(pc[r])
        BY DEF LockInv, SlotInv
    <2> QED BY <2>1, <2>2 DEF LockInv, PairInv, Same, Apart
<1> QED BY <1>1, LockInit, LockStep, PTL DEF SafeSpec

-------------------------------------------------------------------------------
(* Checkpoints                                                                 *)

Ends == {"save_end", "final_end"}

\* What the main process is past is written: it is in the slot of the second
\* barrier, or another process is and it has gone on.
CheckpointInv ==
    /\ LockInv
    /\ CheckpointBeforeLeaving
    /\ Stage(Main) \in Ends => global_step[Main] \in saved
    /\ \A r \in Rank :
           calls[Main] = calls[r] + 1 /\ Stage(r) \in Ends => global_step[r] \in saved

LEMMA MainIsRank == Main \in Rank
BY DEF Main, Rank

\* Only WriteCheckpoint brings a process into the slot of a second barrier.
LEMMA EndsAreWritten ==
    ASSUME LockInv, NEW p \in Rank, Process(p), Stage(p)' \in Ends
    PROVE  WriteCheckpoint(p) \/ (Stage(p)' = Stage(p) /\ global_step'[p] = global_step[p])
<1> USE DEF LockInv, AccumulationInv
<1>1. pc \in [Rank -> Waiting \cup {"draw", "train", "done"}]
    BY DEF TypeOK
<1>2. ASSUME pc'[p] \in {"backward", "metrics", "eval", "save_begin", "final_begin"} PROVE FALSE
    BY <1>2 DEF Stage, Waiting, Ends
<1>3. ASSUME pc'[p] \notin Waiting
      PROVE  Stage(p)' = Stage(p) /\ global_step'[p] = global_step[p]
    <2>1. ~EntersNext(p)
        BY <1>1, <1>3 DEF EntersNext, Enter, Go
    <2>2. GoesOn(p)
        BY <2>1, ProcessIsEither
    <2> QED BY <2>2 DEF GoesOn
<1>4. CASE DrawBatch(p) \/ EndEpoch(p)
    BY <1>4, DrawIsGoesOn DEF GoesOn
<1>5. CASE LeaveLoop(p) \/ AccumulateStep(p) \/ Backward(p) \/ UpdateStep(p)
    BY <1>1, <1>2, <1>5 DEF LeaveLoop, AccumulateStep, Backward, UpdateStep, Enter, Go
<1>6. CASE GatherMetrics(p) \/ Evaluate(p)
    <2>1. pc'[p] \in {"eval", "save_begin", "draw"}
        BY <1>1, <1>6 DEF GatherMetrics, Evaluate, SaveOrDraw, Enter, Go
    <2> QED BY <1>2, <1>3, <2>1 DEF Waiting
<1>7. CASE LeaveCheckpoint(p)
    <2>1. pc'[p] \in {"draw", "done"}
        BY <1>1, <1>7 DEF LeaveCheckpoint, Go
    <2> QED BY <1>3, <2>1 DEF Waiting
<1> QED BY <1>4, <1>5, <1>6, <1>7 DEF Process

LEMMA CheckpointStep == CheckpointInv /\ [Next]_vars => CheckpointInv'
<1> SUFFICES ASSUME CheckpointInv, [Next]_vars PROVE CheckpointInv'
    OBVIOUS
<1>1. LockInv /\ LockInv'
    BY LockStep DEF CheckpointInv
<1>2. /\ calls \in [Rank -> Nat] /\ op \in [Rank -> Kind] /\ global_step \in [Rank -> Nat]
      /\ left \in [Rank -> SUBSET Nat]
      /\ pc \in [Rank -> Waiting \cup {"draw", "train", "done"}]
    BY <1>1 DEF LockInv, AccumulationInv, TypeOK
<1>3. saved \subseteq saved'
    BY DEF Next, Process, DrawBatch, EndEpoch, LeaveLoop, AccumulateStep, Backward, UpdateStep,
           GatherMetrics, Evaluate, WriteCheckpoint, LeaveCheckpoint, diskVars, vars
<1>4. CheckpointBeforeLeaving'
    <2>1. CASE UNCHANGED left
        BY <1>3, <2>1 DEF CheckpointInv, CheckpointBeforeLeaving
    <2>2. ASSUME NEW r \in Rank, LeaveCheckpoint(r) PROVE CheckpointBeforeLeaving'
        <3>1. Stage(r) \in Ends /\ Complete(r)
            BY <2>2 DEF LeaveCheckpoint, Stage, Waiting, Ends
        <3>2. global_step[r] \in saved
            <4>1. CASE calls[Main] = calls[r]
                <5>1. Same(r, Main)
                    BY <1>1, <3>1, <4>1, MainIsRank, CompleteMeansSame
                <5> QED BY <3>1, <5>1 DEF Same, CheckpointInv
            <4>2. CASE calls[Main] = calls[r] + 1
                BY <3>1, <4>2 DEF CheckpointInv
            <4>3. calls[Main] >= calls[r] /\ calls[Main] <= calls[r] + 1
                BY <1>1, <3>1, MainIsRank DEF Complete, LockInv, PairInv
            <4> QED BY <1>2, <4>1, <4>2, <4>3, MainIsRank
        <3>3. left' = [left EXCEPT ![r] = left[r] \cup {global_step[r]}]
            BY <2>2 DEF LeaveCheckpoint
        <3> QED BY <1>2, <1>3, <3>2, <3>3 DEF CheckpointInv, CheckpointBeforeLeaving
    <2> QED BY <2>1, <2>2 DEF Next, Process, DrawBatch, EndEpoch, LeaveLoop, AccumulateStep,
               Backward, UpdateStep, GatherMetrics, Evaluate, WriteCheckpoint, diskVars, vars
<1>5. ASSUME NEW p \in Rank, NEW r \in Rank, r # p, Process(p)
      PROVE  Stage(r)' = Stage(r) /\ global_step'[r] = global_step[r] /\ calls'[r] = calls[r]
    <2>1. EntersNext(p) \/ GoesOn(p)
        BY <1>1, <1>5, ProcessIsEither
    <2>2. /\ pc'[r] = pc[r] /\ op'[r] = op[r] /\ calls'[r] = calls[r]
          /\ global_step'[r] = global_step[r]
        BY <1>2, <1>5, <2>1 DEF EntersNext, GoesOn, Enter, Go
    <2> QED BY <2>2 DEF Stage
<1>6. CASE UNCHANGED vars
    <2>1. \A r \in Rank : Stage(r)' = Stage(r)
        BY <1>6 DEF Stage, vars
    <2> QED BY <1>1, <1>4, <1>6, <2>1, MainIsRank DEF CheckpointInv, vars, stepVars, diskVars
<1>7. ASSUME NEW p \in Rank, Process(p) PROVE CheckpointInv'
    <2>1. ASSUME Stage(Main)' \in Ends PROVE global_step'[Main] \in saved'
        <3>1. CASE p # Main
            BY <1>3, <1>5, <1>7, <2>1, <3>1, MainIsRank DEF CheckpointInv
        <3>2. CASE p = Main /\ WriteCheckpoint(Main)
            BY <3>2 DEF WriteCheckpoint, stepVars
        <3>3. CASE p = Main /\ ~WriteCheckpoint(Main)
            <4>1. Stage(Main)' = Stage(Main) /\ global_step'[Main] = global_step[Main]
                BY <1>1, <1>7, <2>1, <3>3, EndsAreWritten
            <4> QED BY <1>3, <2>1, <4>1 DEF CheckpointInv
        <3> QED BY <3>1, <3>2, <3>3
    <2>2. ASSUME NEW r \in Rank, calls'[Main] = calls'[r] + 1, Stage(r)' \in Ends
          PROVE  global_step'[r] \in saved'
        <3>1. EntersNext(p) \/ GoesOn(p)
            BY <1>1, <1>7, ProcessIsEither
        <3>2. r # Main
            BY <1>1, <2>2, MainIsRank DEF LockInv, AccumulationInv, TypeOK
        <3>3. CASE p # r /\ p # Main
            BY <1>3, <1>5, <1>7, <2>2, <3>3, MainIsRank DEF CheckpointInv
        <3>4. CASE p = r /\ EntersNext(p)
            <4>1. calls'[r] = calls[r] + 1
                BY <1>2, <3>4 DEF EntersNext, Enter
            <4>2. calls'[Main] = calls[Main]
                BY <1>5, <1>7, <3>2, <3>4, MainIsRank
            <4>3. calls[Main] <= calls[r] + 1
                BY <1>1, MainIsRank DEF LockInv, PairInv
            <4> QED BY <1>2, <2>2, <4>1, <4>2, <4>3, MainIsRank
        <3>5. CASE p = r /\ GoesOn(p)
            <4>1. /\ calls'[r] = calls[r] /\ global_step'[r] = global_step[r]
                  /\ Stage(r)' = Stage(r)
                BY <3>5 DEF GoesOn
            <4>2. calls'[Main] = calls[Main]
                BY <1>5, <1>7, <3>2, <3>5, MainIsRank
            <4> QED BY <1>3, <2>2, <4>1, <4>2 DEF CheckpointInv
        <3>6. CASE p = Main /\ EntersNext(p)
            <4>1. Complete(Main) /\ calls'[Main] = calls[Main] + 1
                BY <1>2, <3>6, MainIsRank DEF EntersNext, Enter
            <4>2. /\ calls'[r] = calls[r] /\ global_step'[r] = global_step[r]
                  /\ Stage(r)' = Stage(r)
                BY <1>5, <1>7, <3>2, <3>6
            <4>3. calls[r] = calls[Main]
                BY <1>2, <2>2, <4>1, <4>2, MainIsRank
            <4>4. Same(Main, r)
                BY <1>1, <4>1, <4>3, MainIsRank, CompleteMeansSame
            <4> QED BY <1>3, <2>2, <4>2, <4>4 DEF Same, CheckpointInv
        <3>7. CASE p = Main /\ GoesOn(p)
            <4>1. calls'[Main] = calls[Main]
                BY <3>7 DEF GoesOn
            <4>2. /\ calls'[r] = calls[r] /\ global_step'[r] = global_step[r]
                  /\ Stage(r)' = Stage(r)
                BY <1>5, <1>7, <3>2, <3>7
            <4> QED BY <1>3, <2>2, <4>1, <4>2 DEF CheckpointInv
        <3> QED BY <3>1, <3>3, <3>4, <3>5, <3>6, <3>7
    <2> QED BY <1>1, <1>4, <2>1, <2>2 DEF CheckpointInv
<1> QED BY <1>6, <1>7 DEF Next

\* A process that has left save_checkpoint(step) finds the checkpoint of that
\* step written by the main process.
THEOREM CheckpointsAreWritten == SafeSpec => []CheckpointBeforeLeaving
<1>1. Init => CheckpointInv
    <2> SUFFICES ASSUME Init PROVE CheckpointInv
        OBVIOUS
    <2>1. \A r \in Rank : Stage(r) = "start" /\ calls[r] = 0 /\ left[r] = {}
        BY DEF Init, Stage, Waiting
    <2> QED BY <2>1, LockInit, MainIsRank DEF CheckpointInv, CheckpointBeforeLeaving, Ends
<1>2. CheckpointInv /\ [Next]_vars => CheckpointInv'
    BY CheckpointStep
<1>3. CheckpointInv => CheckpointBeforeLeaving
    BY DEF CheckpointInv
<1> QED BY <1>1, <1>2, <1>3, PTL DEF SafeSpec
===============================================================================
