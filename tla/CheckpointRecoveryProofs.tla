----------------------- MODULE CheckpointRecoveryProofs -----------------------
(***************************************************************************)
(* Theorems about CheckpointRecovery.tla, for every number of ranks, steps *)
(* and submissions, every schedule and every save frequency.  What the     *)
(* tracker names is whole for every number of checkpoints kept but one.    *)
(***************************************************************************)
EXTENDS CheckpointRecovery, FiniteSetTheorems, TLAPS

-------------------------------------------------------------------------------
(* Whole numbers of epochs                                                     *)

LEMMA Multiples == ASSUME NEW e \in Nat \ {0}, NEW k \in Int PROVE (k * e) % e = 0
BY SMTT(30)

LEMMA OneEpochLess ==
    ASSUME NEW e \in Nat \ {0}, NEW a \in Int, a % e = 0
    PROVE  (a - e) % e = 0
<1>1. PICK k \in Int : a = k * e
    <2>1. a = e * (a \div e) /\ a \div e \in Int
        OBVIOUS
    <2>2. e * (a \div e) = (a \div e) * e
        BY <2>1
    <2> QED BY <2>1, <2>2
<1>2. a - e = (k - 1) * e
    BY <1>1
<1> QED BY <1>2, Multiples

LEMMA NothingIsWholeEpochs == ASSUME NEW e \in Nat \ {0} PROVE 0 % e = 0
OBVIOUS

-------------------------------------------------------------------------------
(* Finite sets                                                                 *)

LEMMA UpToIsFinite ==
    ASSUME NEW n \in Nat
    PROVE  IsFiniteSet(1..n) /\ Cardinality(1..n) = n
<1>1. IsFiniteSet(1..n) /\ Cardinality(1..n) = IF 1 > n THEN 0 ELSE n - 1 + 1
    BY FS_Interval
<1> QED BY <1>1

LEMMA OneMoreElement ==
    ASSUME NEW S, NEW x, IsFiniteSet(S)
    PROVE  /\ IsFiniteSet(S \cup {x})
           /\ Cardinality(S) \in Nat /\ Cardinality(S \cup {x}) \in Nat
           /\ Cardinality(S \cup {x}) <= Cardinality(S) + 1
<1>1. /\ IsFiniteSet(S \cup {x}) /\ Cardinality(S) \in Nat
      /\ Cardinality(S \cup {x}) = IF x \in S THEN Cardinality(S) ELSE Cardinality(S) + 1
    BY FS_AddElement, FS_CardinalityType
<1> QED BY <1>1

-------------------------------------------------------------------------------
USE RecoveryAssumption

Steady == {"train", "save", "write"}   \* between two checkpoints, or making one
Running == Steady \cup {"data", "track"}

\* Every run that reached the last step adds one step for the runs after it.
StepsBounded ==
    /\ completed + 1 <= TotalSteps + finishes
    /\ pc \notin {"down", "stuck"} => global_step \in 1..(TotalSteps + finishes)
    /\ IF pc = "finished" THEN finishes <= run ELSE finishes <= run - 1

\* A tracker that can be read names the last completed save, which is behind
\* the step a job is at.
TrackerIsLast ==
    tracker \in Step =>
        /\ tracker = completed
        /\ tracker \in dirs
        /\ pc \in Steady \cup {"data"} => tracker < global_step

\* The paths a job remembers are in the order it wrote them, and the newest is
\* the one the tracker names.
KeptInOrder ==
    /\ pc = "down" => kept = <<>>
    /\ \A i, j \in 1..Len(kept) : i < j => kept[i] < kept[j]
    /\ pc \in Steady => \A i \in 1..Len(kept) : kept[i] < global_step
    /\ pc \in Steady /\ kept # <<>> /\ tracker \in Step => kept[Len(kept)] = tracker
    /\ pc \in {"data", "track"} => kept # <<>> /\ kept[Len(kept)] = global_step

\* How far the checkpoint being written is.
HalfWritten ==
    /\ pc \in {"write", "data", "track"} => global_step \in dirs
    /\ pc \in {"data", "track"} => \A r \in Rank : shard[global_step][r] = run
    /\ pc = "track" =>
           /\ tracker = Torn
           /\ data[global_step] = [run |-> run, position |-> position]

RecoveryInv == TypeOK /\ StepsBounded /\ TrackerIsLast /\ KeptInOrder /\ HalfWritten

-------------------------------------------------------------------------------
LEMMA RecoveryInit == Init => RecoveryInv
<1> SUFFICES ASSUME Init PROVE RecoveryInv
    OBVIOUS
<1>1. TypeOK
    BY DEF Init, TypeOK, Contents, Step
<1>2. StepsBounded
    BY DEF Init, StepsBounded
<1>3. TrackerIsLast /\ KeptInOrder /\ HalfWritten
    BY DEF Init, TrackerIsLast, KeptInOrder, HalfWritten, Steady, Step
<1> QED BY <1>1, <1>2, <1>3 DEF RecoveryInv

\* The step a job is at is one of the steps the files are for.
LEMMA StepInRange ==
    ASSUME RecoveryInv, pc \notin {"down", "stuck"}
    PROVE  /\ global_step \in Step /\ global_step \in Nat \ {0}
           /\ pc # "finished" => global_step < TotalSteps + MaxRuns
BY DEF RecoveryInv, TypeOK, StepsBounded, Step

\* A sequence of paths loses its oldest ones.
LEMMA OldestRemoved ==
    ASSUME NEW s \in Seq(Step), NEW n \in 0..Len(s)
    PROVE  /\ SubSeq(s, n + 1, Len(s)) \in Seq(Step)
           /\ Len(SubSeq(s, n + 1, Len(s))) = Len(s) - n
           /\ \A i \in 1..(Len(s) - n) : /\ i + n \in 1..Len(s)
                                       /\ SubSeq(s, n + 1, Len(s))[i] = s[i + n]
OBVIOUS

LEMMA StartFreshStep == RecoveryInv /\ StartFresh => RecoveryInv'
<1> SUFFICES ASSUME RecoveryInv, StartFresh PROVE RecoveryInv'
    OBVIOUS
<1>1. TypeOK'
    BY DEF RecoveryInv, TypeOK, StartFresh, disk
<1>2. StepsBounded'
    BY DEF RecoveryInv, TypeOK, StepsBounded, StartFresh
<1>3. tracker \notin Step
    BY DEF RecoveryInv, TrackerIsLast, StartFresh, Step
<1>4. TrackerIsLast' /\ KeptInOrder' /\ HalfWritten'
    BY <1>3 DEF RecoveryInv, TrackerIsLast, KeptInOrder, HalfWritten, Steady, StartFresh, disk
<1> QED BY <1>1, <1>2, <1>4 DEF RecoveryInv

LEMMA ResumeStep == RecoveryInv /\ Resume => RecoveryInv'
<1> SUFFICES ASSUME RecoveryInv, Resume PROVE RecoveryInv'
    OBVIOUS
<1>1. /\ tracker \in Step /\ tracker \in Nat /\ tracker = completed
      /\ completed + 1 <= TotalSteps + finishes /\ finishes <= run - 1
    BY DEF RecoveryInv, TypeOK, StepsBounded, TrackerIsLast, Resume, Step
<1>2. position' \in 0..schedule.epoch_steps
    BY <1>1 DEF RecoveryInv, TypeOK, Resume
<1>3. TypeOK'
    BY <1>1, <1>2 DEF RecoveryInv, TypeOK, Resume, disk
<1>4. StepsBounded'
    BY <1>1 DEF RecoveryInv, TypeOK, StepsBounded, Resume
<1>5. TrackerIsLast' /\ KeptInOrder' /\ HalfWritten'
    BY <1>1 DEF RecoveryInv, TrackerIsLast, KeptInOrder, HalfWritten, Steady, Resume, disk
<1> QED BY <1>3, <1>4, <1>5 DEF RecoveryInv

LEMMA FailToStartStep == RecoveryInv /\ FailToStart => RecoveryInv'
<1> SUFFICES ASSUME RecoveryInv, FailToStart PROVE RecoveryInv'
    OBVIOUS
<1>1. pc = "down" /\ pc' = "stuck" /\ UNCHANGED <<run, memory, disk, completed, finishes>>
    BY DEF FailToStart
<1> QED BY <1>1 DEF RecoveryInv, TypeOK, StepsBounded, TrackerIsLast, KeptInOrder, HalfWritten,
           Steady, memory, loop, disk

LEMMA TrainStep == RecoveryInv /\ Train => RecoveryInv'
<1> SUFFICES ASSUME RecoveryInv, Train PROVE RecoveryInv'
    OBVIOUS
<1>1. /\ pc = "train" /\ UNCHANGED <<run, schedule, epoch, kept, disk, completed>>
      /\ position' \in 0..schedule.epoch_steps
    BY DEF Train, RecoveryInv, TypeOK
<1>2. global_step \in Nat /\ global_step <= TotalSteps + finishes /\ finishes <= run - 1
    BY <1>1, StepInRange DEF RecoveryInv, StepsBounded
<1>3. CASE pc' = "save" /\ UNCHANGED <<global_step, finishes>>
    BY <1>1, <1>3 DEF RecoveryInv, TypeOK, StepsBounded, TrackerIsLast, KeptInOrder, HalfWritten,
       Steady, disk
<1>4. CASE IsLastStep /\ pc' = "finished" /\ finishes' = finishes + 1 /\ UNCHANGED global_step
    <2>1. TypeOK' /\ StepsBounded'
        BY <1>1, <1>2, <1>4 DEF RecoveryInv, TypeOK, StepsBounded, disk
    <2>2. TrackerIsLast' /\ KeptInOrder' /\ HalfWritten'
        BY <1>1, <1>4 DEF RecoveryInv, TrackerIsLast, KeptInOrder, HalfWritten, Steady, disk
    <2> QED BY <2>1, <2>2 DEF RecoveryInv
<1>5. CASE ~IsLastStep /\ pc' = "train" /\ global_step' = global_step + 1 /\ UNCHANGED finishes
    <2>1. global_step < TotalSteps
        BY <1>2, <1>5 DEF IsLastStep
    <2>2. TypeOK'
        BY <1>1, <1>2, <1>5, <2>1 DEF RecoveryInv, TypeOK, disk
    <2>3. StepsBounded'
        BY <1>1, <1>2, <1>5, <2>1 DEF RecoveryInv, TypeOK, StepsBounded
    <2>4. TrackerIsLast'
        BY <1>1, <1>2, <1>5 DEF RecoveryInv, TrackerIsLast, Steady, disk, Step
    <2>5. KeptInOrder'
        <3>1. \A i \in 1..Len(kept) : kept[i] \in Nat
            BY DEF RecoveryInv, TypeOK, Step
        <3> QED BY <1>1, <1>2, <1>5, <3>1 DEF RecoveryInv, KeptInOrder, Steady, disk
    <2>6. HalfWritten'
        BY <1>5 DEF HalfWritten
    <2> QED BY <2>2, <2>3, <2>4, <2>5, <2>6 DEF RecoveryInv
<1> QED BY <1>3, <1>4, <1>5 DEF Train, Advance

LEMMA EndEpochStep == RecoveryInv /\ EndEpoch => RecoveryInv'
<1> SUFFICES ASSUME RecoveryInv, EndEpoch PROVE RecoveryInv'
    OBVIOUS
<1>1. TypeOK'
    BY DEF RecoveryInv, TypeOK, EndEpoch, disk
<1>2. StepsBounded' /\ TrackerIsLast' /\ KeptInOrder' /\ HalfWritten'
    BY DEF RecoveryInv, StepsBounded, TrackerIsLast, KeptInOrder, HalfWritten, Steady, EndEpoch, disk
<1> QED BY <1>1, <1>2 DEF RecoveryInv

LEMMA RunOutStep == RecoveryInv /\ RunOut => RecoveryInv'
<1> SUFFICES ASSUME RecoveryInv, RunOut PROVE RecoveryInv'
    OBVIOUS
<1>1. TypeOK'
    BY DEF RecoveryInv, TypeOK, RunOut, memory, loop, disk
<1>2. StepsBounded'
    BY DEF RecoveryInv, TypeOK, StepsBounded, RunOut, memory, loop
<1>3. TrackerIsLast' /\ KeptInOrder' /\ HalfWritten'
    BY DEF RecoveryInv, TrackerIsLast, KeptInOrder, HalfWritten, Steady, RunOut, memory, loop, disk
<1> QED BY <1>1, <1>2, <1>3 DEF RecoveryInv

\* How many paths make room never exceeds how many there are, and leaves the
\* newest unless only one is kept.
LEMMA ExcessBound ==
    ASSUME RecoveryInv
    PROVE  /\ Excess \in 0..Len(kept)
           /\ Keep # 1 => Excess = 0 \/ Excess < Len(kept)
BY DEF RecoveryInv, TypeOK, Excess

LEMMA MakeRoomStep == RecoveryInv /\ MakeRoom => RecoveryInv'
<1> SUFFICES ASSUME RecoveryInv, MakeRoom PROVE RecoveryInv'
    OBVIOUS
<1>1. /\ pc = "save" /\ pc' = "write"
      /\ kept' = SubSeq(kept, Excess + 1, Len(kept))
      /\ dirs' = dirs \cup {global_step}
      /\ UNCHANGED <<run, global_step, loop, data, tracker, completed, finishes>>
      /\ shard' \in [Step -> [Rank -> Contents]]
    BY DEF MakeRoom, RecoveryInv, TypeOK, Contents
<1>2. /\ kept \in Seq(Step) /\ Excess \in 0..Len(kept) /\ global_step \in Step
      /\ kept' \in Seq(Step)
      /\ \A i \in 1..Len(kept') : i + Excess \in 1..Len(kept) /\ kept'[i] = kept[i + Excess]
      /\ kept' # <<>> => /\ Len(kept') + Excess = Len(kept) /\ Len(kept') \in 1..Len(kept')
                         /\ kept # <<>>
    <2>1. kept \in Seq(Step) /\ Excess \in 0..Len(kept) /\ global_step \in Step
        BY <1>1, ExcessBound, StepInRange DEF RecoveryInv, TypeOK
    <2> DEFINE rest == SubSeq(kept, Excess + 1, Len(kept))
    <2>2. /\ rest \in Seq(Step) /\ Len(rest) = Len(kept) - Excess
          /\ \A i \in 1..(Len(kept) - Excess) : i + Excess \in 1..Len(kept) /\ rest[i] = kept[i + Excess]
        BY <2>1, OldestRemoved, Zenon
    <2>3. kept' = rest
        BY <1>1
    <2> HIDE DEF rest
    <2> QED BY <2>1, <2>2, <2>3
<1>3. TypeOK'
    BY <1>1, <1>2 DEF RecoveryInv, TypeOK, loop
<1>4. StepsBounded' /\ TrackerIsLast' /\ HalfWritten'
    BY <1>1 DEF RecoveryInv, StepsBounded, TrackerIsLast, HalfWritten, Steady, loop
<1>5. KeptInOrder'
    <2>1. \A i, j \in 1..Len(kept') : i < j => kept'[i] < kept'[j]
        <3> SUFFICES ASSUME NEW i \in 1..Len(kept'), NEW j \in 1..Len(kept'), i < j
                     PROVE  kept'[i] < kept'[j]
            OBVIOUS
        <3>1. i + Excess < j + Excess
            BY <1>2
        <3> QED BY <1>2, <3>1 DEF RecoveryInv, KeptInOrder
    <2>2. \A i \in 1..Len(kept') : kept'[i] < global_step'
        BY <1>1, <1>2 DEF RecoveryInv, KeptInOrder, Steady
    <2>3. kept' # <<>> /\ tracker' \in Step => kept'[Len(kept')] = tracker'
        BY <1>1, <1>2 DEF RecoveryInv, KeptInOrder, Steady
    <2> QED BY <1>1, <2>1, <2>2, <2>3 DEF KeptInOrder
<1> QED BY <1>3, <1>4, <1>5 DEF RecoveryInv

\* Files of the step being written change; everything else stays.
LEMMA ShardStep ==
    ASSUME RecoveryInv, NEW r \in Rank, OpenShard(r) \/ CloseShard(r)
    PROVE  RecoveryInv'
<1>1. pc = "write" /\ UNCHANGED <<pc, run, memory, data, dirs, tracker, completed, finishes>>
    BY DEF OpenShard, CloseShard
<1>2. TypeOK'
    <2>1. shard' \in [Step -> [Rank -> Contents]]
        <3>1. global_step \in Step /\ run \in Contents /\ Torn \in Contents
            BY <1>1, StepInRange DEF RecoveryInv, TypeOK, Contents
        <3>2. PICK c \in Contents : shard' = [shard EXCEPT ![global_step][r] = c]
            BY <3>1 DEF OpenShard, CloseShard
        <3> QED BY <3>1, <3>2 DEF RecoveryInv, TypeOK
    <2> QED BY <1>1, <2>1 DEF RecoveryInv, TypeOK, memory, loop
<1>3. StepsBounded' /\ TrackerIsLast' /\ KeptInOrder' /\ HalfWritten'
    BY <1>1 DEF RecoveryInv, StepsBounded, TrackerIsLast, KeptInOrder, HalfWritten, memory, loop
<1> QED BY <1>2, <1>3 DEF RecoveryInv

LEMMA OpenDataStep == RecoveryInv /\ OpenData => RecoveryInv'
<1> SUFFICES ASSUME RecoveryInv, OpenData PROVE RecoveryInv'
    OBVIOUS
<1>1. /\ pc = "write" /\ pc' = "data"
      /\ kept' = Append(kept, global_step)
      /\ UNCHANGED <<run, global_step, loop, shard, dirs, tracker, completed, finishes>>
      /\ \A r \in Rank : shard[global_step][r] = run
    BY DEF OpenData
<1>2. kept \in Seq(Step) /\ global_step \in Step
    BY <1>1, StepInRange DEF RecoveryInv, TypeOK
<1>3. /\ kept' \in Seq(Step) /\ Len(kept') = Len(kept) + 1
      /\ \A i \in 1..Len(kept) : kept'[i] = kept[i]
      /\ kept'[Len(kept')] = global_step
    BY <1>1, <1>2
<1>4. TypeOK'
    <2>1. data' \in [Step -> {None, Torn}
                            \cup [run : 1..MaxRuns, position : 0..schedule.epoch_steps]]
        BY DEF RecoveryInv, TypeOK, OpenData
    <2> QED BY <1>1, <1>3, <2>1 DEF RecoveryInv, TypeOK, loop
<1>5. StepsBounded' /\ TrackerIsLast' /\ HalfWritten'
    BY <1>1 DEF RecoveryInv, StepsBounded, TrackerIsLast, HalfWritten, Steady, loop
<1>6. KeptInOrder'
    <2>1. \A i, j \in 1..Len(kept') : i < j => kept'[i] < kept'[j]
        <3> SUFFICES ASSUME NEW i \in 1..Len(kept'), NEW j \in 1..Len(kept'), i < j
                     PROVE  kept'[i] < kept'[j]
            OBVIOUS
        <3>1. i \in 1..Len(kept) /\ (j \in 1..Len(kept) \/ j = Len(kept'))
            BY <1>2, <1>3
        <3> QED BY <1>1, <1>3, <3>1 DEF RecoveryInv, KeptInOrder, Steady
    <2>2. kept' # <<>>
        BY <1>2, <1>3
    <2> QED BY <1>1, <1>3, <2>1, <2>2 DEF KeptInOrder, Steady
<1> QED BY <1>4, <1>5, <1>6 DEF RecoveryInv

LEMMA OpenTrackerStep == RecoveryInv /\ OpenTracker => RecoveryInv'
<1> SUFFICES ASSUME RecoveryInv, OpenTracker PROVE RecoveryInv'
    OBVIOUS
<1>1. /\ pc = "data" /\ pc' = "track" /\ tracker' = Torn /\ Torn \notin Step
      /\ data' = [data EXCEPT ![global_step] = [run |-> run, position |-> position]]
      /\ UNCHANGED <<run, memory, shard, dirs, completed, finishes>>
    BY DEF OpenTracker, Step
<1>2. global_step \in Step
    BY <1>1, StepInRange
<1>3. TypeOK'
    <2>1. data' \in [Step -> {None, Torn}
                            \cup [run : 1..MaxRuns, position : 0..schedule.epoch_steps]]
        BY <1>1 DEF RecoveryInv, TypeOK
    <2> QED BY <1>1, <2>1 DEF RecoveryInv, TypeOK, memory, loop
<1>4. StepsBounded' /\ TrackerIsLast' /\ KeptInOrder'
    BY <1>1 DEF RecoveryInv, StepsBounded, TrackerIsLast, KeptInOrder, Steady, memory, loop
<1>5. HalfWritten'
    BY <1>1, <1>2 DEF RecoveryInv, TypeOK, HalfWritten, memory, loop
<1> QED BY <1>3, <1>4, <1>5 DEF RecoveryInv

LEMMA CloseTrackerStep == RecoveryInv /\ CloseTracker => RecoveryInv'
<1> SUFFICES ASSUME RecoveryInv, CloseTracker PROVE RecoveryInv'
    OBVIOUS
<1>1. /\ pc = "track" /\ tracker' = global_step /\ completed' = global_step
      /\ UNCHANGED <<run, loop, kept, shard, data, dirs>>
    BY DEF CloseTracker
<1>2. /\ global_step \in Step /\ global_step \in Nat \ {0}
      /\ global_step <= TotalSteps + finishes /\ finishes <= run - 1
      /\ run \in 1..MaxRuns /\ finishes \in 0..MaxRuns
    BY <1>1, StepInRange DEF RecoveryInv, StepsBounded, TypeOK
<1>3. /\ kept \in Seq(Step) /\ kept # <<>> /\ kept[Len(kept)] = global_step
      /\ \A i \in 1..Len(kept) : kept[i] \in Nat /\ kept[i] <= global_step
    <2>1. kept \in Seq(Step) /\ kept # <<>> /\ kept[Len(kept)] = global_step
        BY <1>1 DEF RecoveryInv, TypeOK, KeptInOrder
    <2>2. ASSUME NEW i \in 1..Len(kept) PROVE kept[i] \in Nat /\ kept[i] <= global_step
        <3>1. i = Len(kept) \/ (i < Len(kept) /\ Len(kept) \in 1..Len(kept))
            BY <2>1
        <3>2. kept[i] \in Step
            BY <2>1
        <3> QED BY <1>2, <2>1, <3>1, <3>2 DEF RecoveryInv, KeptInOrder, Step
    <2> QED BY <2>1, <2>2
<1>4. CASE IsLastStep /\ pc' = "finished" /\ finishes' = finishes + 1 /\ UNCHANGED global_step
    <2>1. TypeOK'
        BY <1>1, <1>2, <1>4 DEF RecoveryInv, TypeOK, loop, Step
    <2>2. StepsBounded'
        BY <1>1, <1>2, <1>4 DEF StepsBounded
    <2>3. TrackerIsLast' /\ KeptInOrder' /\ HalfWritten'
        BY <1>1, <1>4 DEF RecoveryInv, TrackerIsLast, KeptInOrder, HalfWritten, Steady
    <2> QED BY <2>1, <2>2, <2>3 DEF RecoveryInv
<1>5. CASE ~IsLastStep /\ pc' = "train" /\ global_step' = global_step + 1 /\ UNCHANGED finishes
    <2>1. global_step < TotalSteps
        BY <1>2, <1>5 DEF IsLastStep
    <2>2. TypeOK'
        BY <1>1, <1>2, <1>5, <2>1 DEF RecoveryInv, TypeOK, loop, Step
    <2>3. StepsBounded'
        BY <1>1, <1>2, <1>5, <2>1 DEF StepsBounded
    <2>4. TrackerIsLast' /\ KeptInOrder' /\ HalfWritten'
        BY <1>1, <1>2, <1>3, <1>5 DEF RecoveryInv, TrackerIsLast, KeptInOrder, HalfWritten, Steady
    <2> QED BY <2>2, <2>3, <2>4 DEF RecoveryInv
<1> QED BY <1>4, <1>5 DEF CloseTracker, Advance

LEMMA ResubmitStep == RecoveryInv /\ Resubmit => RecoveryInv'
<1> SUFFICES ASSUME RecoveryInv, Resubmit PROVE RecoveryInv'
    OBVIOUS
<1>1. TypeOK'
    BY DEF RecoveryInv, TypeOK, Resubmit, disk
<1>2. StepsBounded'
    BY DEF RecoveryInv, TypeOK, StepsBounded, Resubmit
<1>3. TrackerIsLast' /\ KeptInOrder' /\ HalfWritten'
    BY DEF RecoveryInv, TrackerIsLast, KeptInOrder, HalfWritten, Steady, Resubmit, disk
<1> QED BY <1>1, <1>2, <1>3 DEF RecoveryInv

LEMMA RecoveryNext == RecoveryInv /\ [Next]_vars => RecoveryInv'
<1> SUFFICES ASSUME RecoveryInv, [Next]_vars PROVE RecoveryInv'
    OBVIOUS
<1>1. CASE Work
    BY <1>1, StartFreshStep, ResumeStep, FailToStartStep, TrainStep, EndEpochStep, RunOutStep,
       MakeRoomStep, ShardStep, OpenDataStep, OpenTrackerStep, CloseTrackerStep DEF Work
<1>2. CASE Resubmit
    BY <1>2, ResubmitStep
<1>3. CASE UNCHANGED vars
    BY <1>3 DEF vars, memory, loop, disk, RecoveryInv, TypeOK, StepsBounded, TrackerIsLast,
       KeptInOrder, HalfWritten
<1> QED BY <1>1, <1>2, <1>3 DEF Next

LEMMA RecoveryInvariant == SafeSpec => []RecoveryInv
BY RecoveryInit, RecoveryNext, PTL DEF SafeSpec

-------------------------------------------------------------------------------
\* Every variable of a job and of its disk keeps its type, however often the
\* job is killed: no step is numbered beyond the files there are.
THEOREM TypeCorrect == SafeSpec => []TypeOK
<1>1. RecoveryInv => TypeOK
    BY DEF RecoveryInv
<1> QED BY <1>1, RecoveryInvariant, PTL

\* fit passes total_training_steps by at most one step for each time it had
\* finished before.
THEOREM OvershootIsBounded == SafeSpec => []OvershootsByReruns
<1>1. RecoveryInv => OvershootsByReruns
    <2> SUFFICES ASSUME RecoveryInv PROVE OvershootsByReruns
        OBVIOUS
    <2>1. completed <= TotalSteps + finishes
        BY DEF RecoveryInv, TypeOK, StepsBounded
    <2>2. pc \notin {"down", "stuck"} => global_step <= TotalSteps + finishes
        BY DEF RecoveryInv, StepsBounded
    <2> QED BY <2>1, <2>2 DEF OvershootsByReruns
<1> QED BY <1>1, RecoveryInvariant, PTL

\* A step keeps what the tracker names whole, unless one checkpoint is kept.
LEMMA TrackerNext ==
    ASSUME Keep # 1, RecoveryInv, TrackerNamesWholeCheckpoint, [Next]_vars
    PROVE  TrackerNamesWholeCheckpoint'
<1> SUFFICES ASSUME tracker' \in Step PROVE Whole(tracker)'
    BY DEF TrackerNamesWholeCheckpoint
<1>1. CASE UNCHANGED <<tracker, shard, data>>
    BY <1>1 DEF TrackerNamesWholeCheckpoint, Whole, Readable
<1>2. CASE MakeRoom
    <2>1. /\ pc = "save" /\ UNCHANGED <<tracker, data>> /\ tracker \in Step
          /\ shard' = [s \in Step |-> IF s \in {kept[i] : i \in 1..Excess}
                                      THEN [r \in Rank |-> None] ELSE shard[s]]
        BY <1>2 DEF MakeRoom
    <2>2. tracker \notin {kept[i] : i \in 1..Excess}
        <3> SUFFICES ASSUME NEW i \in 1..Excess PROVE tracker # kept[i]
            OBVIOUS
        <3>1. Excess \in 1..(Len(kept) - 1) /\ Len(kept) \in Nat
            BY ExcessBound DEF RecoveryInv, TypeOK
        <3>2. i \in 1..Len(kept) /\ Len(kept) \in 1..Len(kept) /\ i < Len(kept) /\ kept # <<>>
            BY <3>1
        <3>3. kept[i] < kept[Len(kept)] /\ kept[Len(kept)] = tracker
            BY <2>1, <3>2 DEF RecoveryInv, KeptInOrder, Steady
        <3>4. tracker \in Nat
            BY <2>1 DEF Step
        <3> QED BY <3>3, <3>4
    <2>3. shard'[tracker] = shard[tracker]
        BY <2>1, <2>2
    <2> QED BY <2>1, <2>3 DEF TrackerNamesWholeCheckpoint, Whole, Readable
<1>3. CASE \E r \in Rank : OpenShard(r) \/ CloseShard(r)
    <2>1. /\ pc = "write" /\ UNCHANGED <<tracker, data>> /\ tracker \in Step
          /\ \A s \in Step : s # global_step => shard'[s] = shard[s]
        BY <1>3 DEF OpenShard, CloseShard, RecoveryInv, TypeOK
    <2>2. tracker # global_step
        BY <2>1 DEF RecoveryInv, TrackerIsLast, Steady, Step
    <2> QED BY <2>1, <2>2 DEF TrackerNamesWholeCheckpoint, Whole, Readable
<1>4. CASE OpenData
    <2>1. /\ pc = "write" /\ UNCHANGED <<tracker, shard>> /\ tracker \in Step
          /\ \A s \in Step : s # global_step => data'[s] = data[s]
        BY <1>4 DEF OpenData, RecoveryInv, TypeOK
    <2>2. tracker # global_step
        BY <2>1 DEF RecoveryInv, TrackerIsLast, Steady, Step
    <2> QED BY <2>1, <2>2 DEF TrackerNamesWholeCheckpoint, Whole, Readable
<1>5. CASE OpenTracker
    BY <1>5 DEF OpenTracker, Step
<1>6. CASE CloseTracker
    <2>1. /\ tracker' = global_step /\ UNCHANGED <<shard, data>>
          /\ data[global_step] = [run |-> run, position |-> position]
          /\ \A r \in Rank : shard[global_step][r] = run
        BY <1>6 DEF CloseTracker, RecoveryInv, HalfWritten
    <2>2. data[global_step].run = run /\ Readable(data[global_step])
        BY <2>1 DEF RecoveryInv, TypeOK, Readable
    <2> QED BY <2>1, <2>2 DEF Whole, Readable
<1> QED BY <1>1, <1>2, <1>3, <1>4, <1>5, <1>6
    DEF Next, Work, Resubmit, StartFresh, Resume, FailToStart, Train, EndEpoch, RunOut, vars, disk

\* However the job is killed and submitted again, and whatever is removed to
\* make room, the checkpoint the tracker names is complete and of one run, when
\* checkpoints are not limited to one.
THEOREM TrackerNamesWhole == Keep # 1 /\ SafeSpec => []TrackerNamesWholeCheckpoint
<1> SUFFICES ASSUME Keep # 1 PROVE SafeSpec => []TrackerNamesWholeCheckpoint
    OBVIOUS
<1>1. Init => TrackerNamesWholeCheckpoint
    BY DEF Init, TrackerNamesWholeCheckpoint, Step
<1>2. RecoveryInv /\ TrackerNamesWholeCheckpoint /\ [Next]_vars => TrackerNamesWholeCheckpoint'
    BY TrackerNext
<1> QED BY <1>1, <1>2, RecoveryInvariant, PTL DEF SafeSpec

-------------------------------------------------------------------------------
(* Where a resumed job continues                                               *)

\* a batches are a whole number of epochs.
WholeEpochs(a) == a % schedule.epoch_steps = 0

\* What is left of the epoch fits the step: in memory, and in every data.pt that
\* can be read, also those of earlier submissions.
PositionFollowsStep ==
    /\ pc = "train" => WholeEpochs(position - (global_step - 1))
    /\ pc \in {"save", "write", "data", "track"} => WholeEpochs(position - global_step)
    /\ \A s \in Step : Readable(data[s]) => WholeEpochs(data[s].position - s)

\* The tracker names a data.pt that can be read, or nothing was ever saved.
TrackerHasData ==
    /\ tracker \in Step => Readable(data[tracker])
    /\ tracker = None => completed = 0

ResumeInv == PositionFollowsStep /\ TrackerHasData

\* Types of what the position is computed from.
LEMMA PositionTypes ==
    ASSUME RecoveryInv
    PROVE  /\ schedule.epoch_steps \in Nat \ {0} /\ schedule \in Schedule
           /\ position \in Int /\ global_step \in Int
           /\ \A s \in Step : s \in Int /\ (Readable(data[s]) => data[s].position \in Int)
           /\ None \notin Step /\ Torn \notin Step
<1>1. schedule \in Schedule /\ schedule.epoch_steps \in Nat \ {0}
    BY DEF RecoveryInv, TypeOK
<1>2. position \in Int /\ global_step \in Int
    BY <1>1 DEF RecoveryInv, TypeOK
<1>3. ASSUME NEW s \in Step PROVE s \in Int /\ (Readable(data[s]) => data[s].position \in Int)
    <2>1. data[s] \in {None, Torn} \cup [run : 1..MaxRuns, position : 0..schedule.epoch_steps]
        BY DEF RecoveryInv, TypeOK
    <2> QED BY <1>1, <2>1 DEF Step, Readable
<1>4. None \notin Step /\ Torn \notin Step
    BY DEF Step
<1> QED BY <1>1, <1>2, <1>3, <1>4

LEMMA ResumeInvInit == Init => ResumeInv
BY DEF Init, ResumeInv, PositionFollowsStep, TrackerHasData, Readable, Step

LEMMA ResumeInvNext ==
    ASSUME RecoveryInv, ResumeInv, [Next]_vars
    PROVE  ResumeInv'
<1>1. CASE StartFresh
    <2>1. tracker \notin Step
        BY <1>1 DEF RecoveryInv, TrackerIsLast, StartFresh, Step
    <2>2. pc' = "train" /\ global_step' = 1 /\ position' = 0 /\ UNCHANGED <<schedule, disk, completed>>
        BY <1>1 DEF StartFresh
    <2>3. WholeEpochs(position - (global_step - 1))'
        BY <2>2, PositionTypes, NothingIsWholeEpochs DEF WholeEpochs
    <2> QED BY <2>1, <2>2, <2>3
        DEF ResumeInv, PositionFollowsStep, TrackerHasData, WholeEpochs, disk, Readable
<1>2. CASE Resume
    <2>1. /\ tracker \in Step /\ Readable(data[tracker])
          /\ pc' = "train" /\ global_step' = tracker + 1 /\ position' = data[tracker].position
          /\ UNCHANGED <<schedule, disk, completed>>
        BY <1>2 DEF Resume, RecoveryInv, TypeOK, ResumeInv, TrackerHasData, Readable
    <2>2. position' - (global_step' - 1) = data[tracker].position - tracker
        BY <2>1, PositionTypes
    <2>3. WholeEpochs(position - (global_step - 1))'
        BY <2>1, <2>2 DEF ResumeInv, PositionFollowsStep, WholeEpochs
    <2> QED BY <2>1, <2>3
        DEF ResumeInv, PositionFollowsStep, TrackerHasData, WholeEpochs, disk, Readable
<1>3. CASE Train
    <2>1. /\ pc = "train" /\ position' = position + 1 /\ UNCHANGED <<schedule, disk, completed>>
          /\ \/ pc' = "save" /\ global_step' = global_step
             \/ pc' = "finished"
             \/ pc' = "train" /\ global_step' = global_step + 1
        BY <1>3 DEF Train, Advance
    <2>2. /\ position' - global_step = position - (global_step - 1)
          /\ position' - ((global_step + 1) - 1) = position - (global_step - 1)
        BY <2>1, PositionTypes
    <2> QED BY <2>1, <2>2
        DEF ResumeInv, PositionFollowsStep, TrackerHasData, WholeEpochs, disk, Readable
<1>4. CASE EndEpoch
    <2>1. /\ pc = "train" /\ pc' = pc /\ position = schedule.epoch_steps /\ position' = 0
          /\ UNCHANGED <<global_step, schedule, disk, completed>>
        BY <1>4 DEF EndEpoch
    <2>2. position' - (global_step' - 1) = (position - (global_step - 1)) - schedule.epoch_steps
        BY <2>1, PositionTypes
    <2>3. WholeEpochs(position - (global_step - 1))'
        BY <2>1, <2>2, PositionTypes, OneEpochLess DEF ResumeInv, PositionFollowsStep, WholeEpochs
    <2> QED BY <2>1, <2>3
        DEF ResumeInv, PositionFollowsStep, TrackerHasData, WholeEpochs, disk, Readable
<1>5. CASE OpenData
    <2>1. /\ pc = "write" /\ pc' = "data" /\ UNCHANGED <<global_step, loop, tracker, completed>>
          /\ data' = [data EXCEPT ![global_step] = Torn]
          /\ data \in [Step -> {None, Torn}
                              \cup [run : 1..MaxRuns, position : 0..schedule.epoch_steps]]
        BY <1>5 DEF OpenData, RecoveryInv, TypeOK
    <2>2. tracker \in Step => tracker # global_step
        BY <2>1 DEF RecoveryInv, TrackerIsLast, Steady, Step
    <2>3. \A s \in Step : data'[s] = Torn \/ data'[s] = data[s]
        BY <2>1
    <2>4. \A s \in Step : s # global_step => data'[s] = data[s]
        BY <2>1
    <2>5. PositionFollowsStep'
        BY <2>1, <2>3 DEF ResumeInv, PositionFollowsStep, WholeEpochs, loop, Readable
    <2>6. TrackerHasData'
        BY <2>1, <2>2, <2>4 DEF ResumeInv, TrackerHasData, Readable
    <2> QED BY <2>5, <2>6 DEF ResumeInv
<1>6. CASE OpenTracker
    <2>1. /\ pc = "data" /\ pc' = "track" /\ UNCHANGED <<global_step, loop, completed>>
          /\ data' = [data EXCEPT ![global_step] = [run |-> run, position |-> position]]
          /\ data \in [Step -> {None, Torn}
                              \cup [run : 1..MaxRuns, position : 0..schedule.epoch_steps]]
          /\ tracker' = Torn
        BY <1>6 DEF OpenTracker, RecoveryInv, TypeOK, memory
    <2>2. WholeEpochs(position - global_step)
        BY <2>1 DEF ResumeInv, PositionFollowsStep
    <2>3. ASSUME NEW s \in Step, Readable(data'[s]) PROVE WholeEpochs(data'[s].position - s)
        <3>1. CASE s = global_step
            <4>1. data'[s].position = position
                BY <2>1, <3>1
            <4> QED BY <2>2, <3>1, <4>1
        <3>2. CASE s # global_step
            <4>1. data'[s] = data[s]
                BY <2>1, <3>2
            <4> QED BY <2>3, <4>1 DEF ResumeInv, PositionFollowsStep
        <3> QED BY <3>1, <3>2
    <2>4. PositionFollowsStep'
        BY <2>1, <2>2, <2>3 DEF PositionFollowsStep, WholeEpochs, loop, Readable
    <2>5. TrackerHasData'
        BY <2>1, PositionTypes DEF TrackerHasData
    <2> QED BY <2>4, <2>5 DEF ResumeInv
<1>7. CASE CloseTracker
    <2>1. /\ pc = "track" /\ tracker' = global_step /\ UNCHANGED <<loop, data>>
          /\ global_step \in Step /\ data[global_step] = [run |-> run, position |-> position]
          /\ \/ pc' = "finished"
             \/ pc' = "train" /\ global_step' = global_step + 1
        BY <1>7, StepInRange DEF CloseTracker, Advance, RecoveryInv, HalfWritten
    <2>2. position - ((global_step + 1) - 1) = position - global_step
        BY PositionTypes
    <2>3. PositionFollowsStep'
        BY <2>1, <2>2 DEF ResumeInv, PositionFollowsStep, WholeEpochs, loop, Readable
    <2>4. TrackerHasData'
        BY <2>1, PositionTypes DEF TrackerHasData, RecoveryInv, TypeOK, Readable
    <2> QED BY <2>3, <2>4 DEF ResumeInv
<1>8. CASE MakeRoom \/ (\E r \in Rank : OpenShard(r) \/ CloseShard(r))
    BY <1>8 DEF MakeRoom, OpenShard, CloseShard, ResumeInv, PositionFollowsStep, TrackerHasData,
       WholeEpochs, memory, loop, Readable
<1>9. CASE FailToStart \/ RunOut \/ Resubmit
    BY <1>9 DEF FailToStart, RunOut, Resubmit, ResumeInv, PositionFollowsStep, TrackerHasData,
       WholeEpochs, memory, loop, disk, Readable
<1>10. CASE UNCHANGED vars
    BY <1>10 DEF vars, ResumeInv, PositionFollowsStep, TrackerHasData,
       WholeEpochs, memory, loop, disk, Readable
<1> QED BY <1>1, <1>2, <1>3, <1>4, <1>5, <1>6, <1>7, <1>8, <1>9, <1>10 DEF Next, Work

\* A job that starts continues behind the last completed save, with the batch
\* that comes after it in its epoch, for every schedule and every way the
\* earlier submissions ended.
THEOREM ResumesBehind == SafeSpec => ResumesBehindLastSave
<1>1. RecoveryInv /\ ResumeInv /\ [Next]_vars =>
          [pc = "down" /\ pc' = "train" =>
               /\ global_step' > completed
               /\ (position' - (global_step' - 1)) % schedule.epoch_steps = 0]_vars
    <2> SUFFICES ASSUME RecoveryInv, ResumeInv, Next, pc = "down", pc' = "train"
                 PROVE  /\ global_step' > completed
                        /\ (position' - (global_step' - 1)) % schedule.epoch_steps = 0
        OBVIOUS
    <2>1. CASE StartFresh
        <3>1. tracker = None /\ completed = 0 /\ global_step' = 1
            BY <2>1 DEF RecoveryInv, TrackerIsLast, ResumeInv, TrackerHasData, StartFresh
        <3>2. (position' - (global_step' - 1)) % schedule.epoch_steps = 0
            BY <2>1, PositionTypes, NothingIsWholeEpochs DEF StartFresh
        <3> QED BY <3>1, <3>2
    <2>2. CASE Resume
        <3>1. ResumeInv'
            BY ResumeInvNext
        <3>2. tracker \in Step /\ tracker = completed /\ global_step' = tracker + 1
              /\ schedule' = schedule
            BY <2>2 DEF Resume, RecoveryInv, TypeOK, TrackerIsLast
        <3> QED BY <3>1, <3>2 DEF ResumeInv, PositionFollowsStep, WholeEpochs, Step
    <2> QED BY <2>1, <2>2 DEF Next, Work, FailToStart, Train, EndEpoch, RunOut, MakeRoom, OpenShard,
               CloseShard, OpenData, OpenTracker, CloseTracker, Resubmit
<1>2. RecoveryInv /\ ResumeInv /\ [Next]_vars => ResumeInv'
    BY ResumeInvNext
<1> QED BY <1>1, <1>2, ResumeInvInit, RecoveryInvariant, PTL DEF SafeSpec, ResumesBehindLastSave
-------------------------------------------------------------------------------
(* What stays on the disk                                                      *)

Remembered == {kept[i] : i \in 1..Len(kept)}

\* The checkpoints this submission can still remove, and the one it is writing.
Mine == Remembered \cup (IF pc = "write" THEN {global_step} ELSE {})

\* What a submission cannot remove any more, earlier ones left: Keep each.
LeftBehind == Occupied \ Mine

DiskInv ==
    /\ Cardinality(LeftBehind) <= Keep * (run - 1)
    /\ Len(kept) <= Keep
    /\ pc = "write" => Len(kept) < Keep

LEMMA OccupiedIsFinite ==
    ASSUME RecoveryInv
    PROVE  /\ \A T \in SUBSET Occupied : IsFiniteSet(T) /\ Cardinality(T) \in Nat
           /\ \A T, U \in SUBSET Occupied : T \subseteq U => Cardinality(T) <= Cardinality(U)
<1>1. IsFiniteSet(Occupied)
    <2>1. IsFiniteSet(Step) /\ Occupied \in SUBSET Step
        BY FS_Interval DEF Step, Occupied
    <2> QED BY <2>1, FS_Subset
<1> QED BY <1>1, FS_Subset, FS_CardinalityType

LEMMA RememberedIsBounded ==
    ASSUME RecoveryInv
    PROVE  IsFiniteSet(Remembered) /\ Cardinality(Remembered) <= Len(kept)
<1>1. kept \in [1..Len(kept) -> Remembered] /\ Len(kept) \in Nat
    BY DEF RecoveryInv, TypeOK, Remembered
<1>2. kept \in Surjection(1..Len(kept), Remembered)
    BY <1>1 DEF Surjection, Remembered
<1>3. IsFiniteSet(1..Len(kept)) /\ Cardinality(1..Len(kept)) = Len(kept)
    BY <1>1, UpToIsFinite
<1> QED BY <1>2, <1>3, FS_Surjection

\* Every submission has used at most Keep directories beyond those left behind.
LEMMA DiskInvBounds ==
    ASSUME RecoveryInv, Keep > 0, DiskInv
    PROVE  Cardinality(Occupied) <= Keep * run
<1>1. IsFiniteSet(Mine) /\ Cardinality(Mine) <= Keep
    <2>1. CASE pc = "write"
        <3>1. Mine = Remembered \cup {global_step} /\ Len(kept) < Keep
            BY <2>1 DEF Mine, DiskInv
        <3>2. /\ IsFiniteSet(Remembered) /\ Cardinality(Remembered) \in Nat
              /\ Cardinality(Remembered) <= Len(kept) /\ Len(kept) \in Nat
            BY RememberedIsBounded, FS_CardinalityType DEF RecoveryInv, TypeOK
        <3>3. /\ IsFiniteSet(Mine) /\ Cardinality(Mine) \in Nat
              /\ Cardinality(Mine) <= Cardinality(Remembered) + 1
            BY <3>1, <3>2, OneMoreElement, Zenon
        <3> QED BY <3>1, <3>2, <3>3
    <2>2. CASE pc # "write"
        <3>1. Mine = Remembered /\ Len(kept) <= Keep
            BY <2>2 DEF Mine, DiskInv
        <3>2. /\ IsFiniteSet(Remembered) /\ Cardinality(Remembered) \in Nat
              /\ Cardinality(Remembered) <= Len(kept) /\ Len(kept) \in Nat
            BY RememberedIsBounded, FS_CardinalityType DEF RecoveryInv, TypeOK
        <3> QED BY <3>1, <3>2
    <2> QED BY <2>1, <2>2
<1>2. Occupied \in SUBSET (LeftBehind \cup Mine) /\ LeftBehind \in SUBSET Occupied
    BY DEF LeftBehind
<1>3. IsFiniteSet(LeftBehind) /\ Cardinality(LeftBehind) \in Nat
    BY <1>2, OccupiedIsFinite
<1>4. /\ IsFiniteSet(LeftBehind \cup Mine)
      /\ Cardinality(LeftBehind \cup Mine)
             = Cardinality(LeftBehind) + Cardinality(Mine) - Cardinality(LeftBehind \cap Mine)
    BY <1>1, <1>3, FS_Union
<1>5. Cardinality(LeftBehind \cap Mine) \in Nat /\ Cardinality(Mine) \in Nat
    <2>1. LeftBehind \cap Mine \in SUBSET Mine
        OBVIOUS
    <2> QED BY <1>1, <2>1, FS_Subset, FS_CardinalityType
<1>6. Cardinality(Occupied) <= Cardinality(LeftBehind \cup Mine) /\ Cardinality(Occupied) \in Nat
      /\ Cardinality(LeftBehind \cup Mine) \in Nat
    BY <1>2, <1>4, FS_Subset, FS_CardinalityType
<1>7. Keep * (run - 1) + Keep = Keep * run /\ Keep * (run - 1) \in Int /\ Keep * run \in Int
    BY DEF RecoveryInv, TypeOK
<1> QED BY <1>1, <1>3, <1>4, <1>5, <1>6, <1>7 DEF DiskInv

\* Left behind are not more when a submission occupies only what it can remove.
LEMMA NothingMoreLeft ==
    ASSUME RecoveryInv, DiskInv, run' = run, LeftBehind' \subseteq LeftBehind
    PROVE  Cardinality(LeftBehind') <= Keep * (run' - 1)
<1>1. LeftBehind \in SUBSET Occupied /\ LeftBehind' \in SUBSET Occupied
    BY DEF LeftBehind
<1>2. /\ Cardinality(LeftBehind') <= Cardinality(LeftBehind)
      /\ Cardinality(LeftBehind) \in Nat /\ Cardinality(LeftBehind') \in Nat
    BY <1>1, OccupiedIsFinite
<1>3. Keep * (run - 1) \in Int
    BY DEF RecoveryInv, TypeOK
<1> QED BY <1>2, <1>3 DEF DiskInv

LEMMA DiskInvNext ==
    ASSUME RecoveryInv, Keep > 0, DiskInv, [Next]_vars
    PROVE  DiskInv'
<1> USE DEF Remembered
<1>1. CASE MakeRoom
    <2>1. /\ pc = "save" /\ pc' = "write" /\ UNCHANGED <<run, global_step>>
          /\ kept' = SubSeq(kept, Excess + 1, Len(kept))
          /\ shard' = [s \in Step |-> IF s \in {kept[i] : i \in 1..Excess}
                                      THEN [r \in Rank |-> None] ELSE shard[s]]
        BY <1>1 DEF MakeRoom
    <2>2. /\ kept \in Seq(Step) /\ Excess \in 0..Len(kept) /\ Len(kept) \in Nat
          /\ Len(kept) - Excess < Keep
        BY ExcessBound DEF RecoveryInv, TypeOK, DiskInv, Excess
    <2>3. /\ Len(kept') = Len(kept) - Excess
          /\ \A i \in 1..(Len(kept) - Excess) : kept'[i] = kept[i + Excess]
        BY <2>1, <2>2, OldestRemoved, Zenon
    <2>4. LeftBehind' \subseteq LeftBehind
        <3> SUFFICES ASSUME NEW s \in Step, s \in Occupied', s \notin Mine'
                     PROVE  s \in Occupied /\ s \notin Mine
            BY DEF LeftBehind, Occupied
        <3>1. /\ \A i \in 1..Excess : s # kept[i]
              /\ s \in Occupied
            BY <2>1 DEF Occupied
        <3>2. \A i \in 1..(Len(kept) - Excess) : s # kept[i + Excess]
            BY <2>2, <2>3 DEF Mine
        <3>3. ASSUME NEW i \in 1..Len(kept) PROVE s # kept[i]
            <4>1. CASE i \in 1..Excess
                BY <3>1, <4>1
            <4>2. CASE i \notin 1..Excess
                <5>1. i - Excess \in 1..(Len(kept) - Excess) /\ (i - Excess) + Excess = i
                    BY <2>2, <4>2
                <5> QED BY <3>2, <5>1
            <4> QED BY <4>1, <4>2
        <3> QED BY <2>1, <3>1, <3>3 DEF Mine
    <2>5. Cardinality(LeftBehind') <= Keep * (run' - 1)
        BY <2>1, <2>4, NothingMoreLeft
    <2> QED BY <2>2, <2>3, <2>5 DEF DiskInv
<1>2. CASE \E r \in Rank : OpenShard(r) \/ CloseShard(r)
    <2>1. /\ pc = "write" /\ UNCHANGED <<pc, run, memory>>
          /\ \A s \in Step : s # global_step => shard'[s] = shard[s]
        BY <1>2 DEF OpenShard, CloseShard, RecoveryInv, TypeOK
    <2>2. LeftBehind' \subseteq LeftBehind
        BY <2>1 DEF LeftBehind, Occupied, Mine, memory
    <2>3. Cardinality(LeftBehind') <= Keep * (run' - 1)
        BY <2>1, <2>2, NothingMoreLeft
    <2> QED BY <2>1, <2>3 DEF DiskInv, memory
<1>3. CASE OpenData
    <2>1. /\ pc = "write" /\ pc' = "data" /\ kept' = Append(kept, global_step)
          /\ UNCHANGED <<run, global_step, shard>>
        BY <1>3 DEF OpenData
    <2>2. kept \in Seq(Step) /\ global_step \in Step
        BY <2>1, StepInRange DEF RecoveryInv, TypeOK
    <2>3. Len(kept') = Len(kept) + 1 /\ Remembered' = Remembered \cup {global_step}
        <3>1. /\ Len(kept') = Len(kept) + 1 /\ Len(kept) \in Nat
              /\ \A i \in 1..Len(kept) : kept'[i] = kept[i]
              /\ kept'[Len(kept) + 1] = global_step
            BY <2>1, <2>2
        <3>2. 1..(Len(kept) + 1) = 1..Len(kept) \cup {Len(kept) + 1}
            BY <3>1
        <3> QED BY <3>1, <3>2
    <2>4. LeftBehind' \subseteq LeftBehind
        BY <2>1, <2>3 DEF LeftBehind, Occupied, Mine
    <2>5. Cardinality(LeftBehind') <= Keep * (run' - 1)
        BY <2>1, <2>4, NothingMoreLeft
    <2> QED BY <2>1, <2>2, <2>3, <2>5 DEF DiskInv
<1>4. CASE Resubmit
    <2>1. /\ kept' = <<>> /\ run' = run + 1 /\ pc' = "down" /\ UNCHANGED shard
        BY <1>4 DEF Resubmit, disk
    <2>2. LeftBehind' = Occupied
        BY <2>1 DEF LeftBehind, Occupied, Mine
    <2>3. (run + 1) - 1 = run
        BY DEF RecoveryInv, TypeOK
    <2> QED BY <2>1, <2>2, <2>3, DiskInvBounds DEF DiskInv
<1>5. CASE StartFresh \/ Resume \/ FailToStart \/ Train \/ EndEpoch \/ RunOut \/ OpenTracker
           \/ CloseTracker \/ UNCHANGED vars
    <2>1. /\ UNCHANGED <<run, kept, shard>>
          /\ pc' = "write" => pc = "write" /\ UNCHANGED global_step
          /\ pc = "write" => pc' = "write"
        BY <1>5 DEF StartFresh, Resume, FailToStart, Train, EndEpoch, RunOut, OpenTracker,
           CloseTracker, Advance, vars, memory, loop, disk
    <2>2. LeftBehind' = LeftBehind
        BY <2>1 DEF LeftBehind, Occupied, Mine
    <2> QED BY <2>1, <2>2 DEF DiskInv
<1> QED BY <1>1, <1>2, <1>3, <1>4, <1>5 DEF Next, Work

LEMMA DiskInvInit == ASSUME Init, Keep > 0 PROVE DiskInv
<1>1. kept = <<>> /\ run = 1 /\ pc = "down" /\ Occupied = {}
    BY DEF Init, Occupied
<1>2. LeftBehind = {}
    BY <1>1 DEF LeftBehind
<1>3. Keep * (run - 1) = 0 /\ Len(kept) = 0
    BY <1>1
<1> QED BY <1>1, <1>2, <1>3, FS_EmptySet DEF DiskInv

\* However often and wherever the job is killed, each submission leaves at most
\* Keep actor directories on the disk.
THEOREM DiskIsBounded == SafeSpec => []DiskBounded
<1>1. CASE Keep > 0
    <2>1. RecoveryInv /\ DiskInv => DiskBounded
        BY <1>1, DiskInvBounds DEF DiskBounded
    <2>2. Init => DiskInv
        BY <1>1, DiskInvInit
    <2>3. RecoveryInv /\ DiskInv /\ [Next]_vars => DiskInv'
        BY <1>1, DiskInvNext
    <2> QED BY <2>1, <2>2, <2>3, RecoveryInvariant, PTL DEF SafeSpec
<1>2. CASE ~(Keep > 0)
    <2>1. DiskBounded
        BY <1>2 DEF DiskBounded
    <2> QED BY <2>1, PTL
<1> QED BY <1>1, <1>2
===============================================================================
