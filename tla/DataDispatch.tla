----------------------------- MODULE DataDispatch -----------------------------
(***************************************************************************)
(* How a batch of the driver reaches the ranks of a worker group and comes *)
(* back: DataProto.chunk, concat, repeat, padding (protocol.py), the       *)
(* dispatch and collect functions of the registered modes (decorator.py)   *)
(* and the sharding managers that regroup a rank's rows before and after   *)
(* its work.  A batch is a sequence of rows.                               *)
(*                                                                         *)
(* A layout l has backend ("fsdp" or "megatron"), world, and               *)
(*   sp     ranks of an Ulysses group, which see the same rows (fsdp)      *)
(*   tp, pp training tensor and pipeline parallel sizes (megatron)         *)
(*   infer  tensor parallel size of the inference engine                   *)
(* Ranks count from 0.                                                     *)
(***************************************************************************)
EXTENDS Integers, Sequences, SequencesExt

Dp(l) == IF l.backend = "fsdp" THEN l.world \div l.sp ELSE l.world \div (l.tp * l.pp)

\* Ranks of megatron.core with its default order tp, cp, dp, pp (cp = 1 here).
TpRank(l, r) == r % l.tp
DpRank(l, r) == (r \div l.tp) % Dp(l)
PpRank(l, r) == r \div (l.tp * Dp(l))

-------------------------------------------------------------------------------
(* DataProto *)

\* chunk asserts that k divides the length.
Chunk(q, k, i) ==
    LET size == Len(q) \div k
    IN  SubSeq(q, i * size + 1, (i + 1) * size)

\* concat of parts, a function on 0..k-1.
ConcatParts(k, parts) == FlattenSeq([i \in 1..k |-> parts[i - 1]])

\* torch.split: pieces of the given size, the last one shorter.
SplitBy(q, size) ==
    [i \in 1..((Len(q) + size - 1) \div size) |->
        SubSeq(q, (i - 1) * size + 1, IF i * size < Len(q) THEN i * size ELSE Len(q))]

\* repeat(interleave=True)
Repeat(q, times) == [i \in 1..(Len(q) * times) |-> q[(i - 1) \div times + 1]]

PadSize(q, divisor) == IF Len(q) % divisor = 0 THEN 0 ELSE divisor - (Len(q) % divisor)

\* pad_dataproto_to_divisor: rows from the first on, again and again.
Padded(q, divisor) ==
    [i \in 1..(Len(q) + PadSize(q, divisor)) |-> q[((i - 1) % Len(q)) + 1]]

\* Mutant of Unpadded: rows are dropped at the wrong end.
UnpaddedFront(q, pad) == SubSeq(q, pad + 1, Len(q))

Unpadded(q, pad) == SubSeq(q, 1, Len(q) - pad)

-------------------------------------------------------------------------------
(* DP_COMPUTE_PROTO with the Ulysses manager, MEGATRON_COMPUTE_PROTO *)

\* The rows the ranks of data parallel rank d work on, 0 <= d < Dp(l).
LocalRows(l, q, d) ==
    IF l.backend = "fsdp"
    THEN ConcatParts(l.sp, [i \in 0..(l.sp - 1) |-> Chunk(q, l.world, d * l.sp + i)])
    ELSE Chunk(q, Dp(l), d)

\* What the driver gets when data parallel rank d answers out[d].
Collected(l, out) ==
    LET OfRank(r) ==
            CASE l.backend = "fsdp" -> Chunk(out[r \div l.sp], l.sp, r % l.sp)
              [] l.backend = "megatron" /\ TpRank(l, r) = 0 /\ PpRank(l, r) = l.pp - 1 ->
                     out[DpRank(l, r)]
              [] OTHER -> <<>>
    IN  ConcatParts(l.world, [r \in 0..(l.world - 1) |-> OfRank(r)])

-------------------------------------------------------------------------------
(* generate_sequences: DP_COMPUTE_PROTO with the FSDP manager of the engine, *)
(* MEGATRON_PP_AS_DP_PROTO with the Megatron one.                            *)

MicroDp(l) == l.tp \div l.infer

\* dispatch_megatron_pp_as_dp
ArgRank(l, r) == DpRank(l, r) * l.pp + PpRank(l, r)

PromptsOfRank(l, q, r) ==
    IF l.backend = "fsdp" THEN Chunk(q, l.world, r)
    ELSE Chunk(q, Dp(l) * l.pp, ArgRank(l, r))

\* preprocess_data: the ranks of an fsdp engine share all their prompts, those of
\* a megatron training tensor group divide theirs among its engines.
EnginePrompts(l, q, r) ==
    IF l.backend = "fsdp"
    THEN ConcatParts(l.infer, [i \in 0..(l.infer - 1) |->
             PromptsOfRank(l, q, (r \div l.infer) * l.infer + i)])
    ELSE Chunk(PromptsOfRank(l, q, r), MicroDp(l), r % MicroDp(l))

\* postprocess_data and the collect function; answers[p] is what the engine says to
\* prompt p, a sequence of responses.
Generations(l, q, answers) ==
    LET Said(r) ==
            LET mine == EnginePrompts(l, q, r)
            IN  FlattenSeq([i \in DOMAIN mine |-> answers[mine[i]]])
        Base(r) == (r \div MicroDp(l)) * MicroDp(l)
        OfRank(r) ==
            CASE l.backend = "fsdp" -> Chunk(Said(r), l.infer, r % l.infer)
              [] l.backend = "megatron" /\ TpRank(l, r) = 0 ->
                     ConcatParts(MicroDp(l), [i \in 0..(MicroDp(l) - 1) |-> Said(Base(r) + i)])
              [] OTHER -> <<>>
    IN  ConcatParts(l.world, [r \in 0..(l.world - 1) |-> OfRank(r)])

\* The number of prompts of a generation must be a multiple of this, or a chunk
\* of it fails.
PromptsDivisor(l) ==
    IF l.backend = "fsdp" THEN l.world ELSE Dp(l) * l.pp * MicroDp(l)
===============================================================================
