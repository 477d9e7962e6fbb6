----------------------------- MODULE ToolRollout -----------------------------
(***************************************************************************)
(* vllm_rollout_spmd.py, vLLMRolloutWithTool, with generate_new_prompts.py:*)
(* the rollout of a VERL run.  generate_sequences asks for n responses a   *)
(* prompt, in rounds: one response for every prompt that is still short,   *)
(* then one more for each of these that an external service has refined a  *)
(* query of, generated from the response up to that query.                 *)
(*                                                                         *)
(* A response is a list of tokens with a loss mask beside it, cut and      *)
(* rebuilt separately.  A token here is a piece of text the code looks for *)
(* (a tag with what follows it up to the next tag); who wrote it (src) is  *)
(* what the mask should tell and the code never stores.  Retrieval, the    *)
(* summarising model and the refining service answer arbitrarily.  The     *)
(* policy does not write result tags itself, and encoding a decoded text   *)
(* gives the tokens it came from.                                          *)
(***************************************************************************)
EXTENDS Integers, Sequences, SequencesExt, FiniteSetsExt, ListOps

CONSTANTS
    Query,           \* texts to search for
    ShortQuery,      \* queries whose whole result fits in result_summary_chars
    UnsummedQuery,   \* queries for whose result the summarising model says nothing
    PrefixLength,    \* tokens of FINAL_ANSWER_PREFIX
    AnswerRoom,      \* 4: with no more tokens left, no answer is forced
    MaxAnswer,       \* 64: new tokens of a forced answer
    MaxShift,        \* 50: a prefix and its mask may differ by less
    Setting          \* the batches and configurations to start from

ASSUME ToolAssumption ==
    /\ ShortQuery \subseteq Query /\ UnsummedQuery \subseteq Query
    /\ PrefixLength \in Nat \ {0} /\ AnswerRoom \in Nat /\ MaxAnswer \in Nat \ {0}
    /\ MaxShift \in Nat
    /\ \A s \in Setting :
        /\ s.n \in Nat \ {0} /\ s.turns \in Nat /\ s.length \in Nat \ {0}
        /\ s.turns # 0 \/ s.length > AnswerRoom
        /\ s.maxNew \in Nat \ {0} /\ s.width \in Nat
        /\ s.prompts \in Seq(1..s.width)
        /\ s.mode \in {"none", "truncate", "llm"}
        /\ {s.doSample, s.truths, s.balanced, s.env, s.aborts} \subseteq BOOLEAN

VARIABLES
    setting,   \* n, max_turns (turns), response_length (length), max_prompt_length (width),
               \* max_tokens (maxNew), result_summary_mode (mode), doSample,
               \* truths, env: the batch has a ground_truth and an env column,
               \* balanced: the prompt's text has as many </search> as <search>,
               \* aborts: the engine may end a generation by neither a stop nor the
               \* length, prompts: their unpadded lengths
    pc,        \* where generate_sequences is
    refining,  \* whether the batch is the one of refined prefixes
    step,      \* step of the turn loop
    rows,      \* the rows of the batch under generation, in order
    results    \* results[p]: the finished responses of each prompt

vars == <<setting, pc, refining, step, rows, results>>

Prompt == DOMAIN setting.prompts

-------------------------------------------------------------------------------
(* Tokens *)

Word(src, says) == [src |-> src, says |-> says]
Ask(src, q) == [src |-> src, says |-> "<search>", query |-> q]
Think == Word("policy", "<think>")
CloseSearch == Word("policy", "</search>")
CloseAnswer(src) == Word(src, "</answer>")
Verdict == Word("policy", "<answer>")

Result(q, found) ==
    << [src |-> "result", says |-> IF found THEN "<result>" ELSE "<result>error", query |-> q],
       [src |-> "result", says |-> "</result>", query |-> q] >>

FinalAnswerPrefix == [i \in 1..PrefixLength |-> Word("prefix", "budget reached")]

\* _llm_result_summary with its fallback, and _truncate_result_summary: a
\* truncated result that is short enough is quoted whole, tags included.
ResultSummary(result) ==
    LET quotes == setting.mode = "truncate" \/ result.query \in UnsummedQuery
        short == result.says = "<result>error" \/ result.query \in ShortQuery
    IN  << [src |-> "summary", says |-> "<result_summary>", query |-> result.query],
           [src |-> "summary", query |-> result.query,
            says |-> IF ~quotes THEN "memory" ELSE IF short THEN "quote" ELSE "excerpt"] >>

StartsResult(t) == t.says \in {"<result>", "<result>error"}
HasResultOpen(t)  == StartsResult(t) \/ t.says \in {"quote", "excerpt"}
HasResultClose(t) == t.says \in {"</result>", "quote"}

\* The places of a list that are in K, in ascending order.
Places(s, K) == Pick([i \in DOMAIN s |-> i], K)

Positions(text, Test(_)) == {i \in DOMAIN text : Test(text[i])}
Opens(text)  == Positions(text, LAMBDA t : t.says = "<search>")
Closes(text) == Positions(text, LAMBDA t : t.says = "</search>")

\* validate_tool_calls: as many closing as opening tags, each after its own.
ValidToolCalls(text) ==
    /\ Cardinality(Opens(text)) = Cardinality(Closes(text))
    /\ \A i \in Closes(text) :
        Cardinality(Opens(SubSeq(text, 1, i))) >= Cardinality(Closes(SubSeq(text, 1, i)))

\* Mutant of LastQuery: the first query of the text.
FirstQuery(text) == text[Min(Opens(text))].query

\* extract_tool_calls keeps the last call only.
Calls(text) == ValidToolCalls(text) /\ Opens(text) # {}
LastQuery(text) == text[Max(Opens(text))].query

\* What the policy may say in m tokens: it stops at a closing tag, at the end
\* of the text, or after m tokens.  The last kind of search is not valid.
Output(m) ==
    {o \in {<<Ask("policy", q), CloseSearch>> : q \in Query}
           \cup {<<Verdict, CloseAnswer("policy")>>, <<Think>>}
           \cup {<<Ask("policy", q), Ask("policy", q), CloseSearch>> : q \in ShortQuery} :
        Len(o) <= m}
    \cup {[i \in 1..m |-> Think]}

-------------------------------------------------------------------------------
(* Rows *)

Row(p, ids, mask) ==
    [prompt |-> p, given |-> Len(ids), ids |-> ids, mask |-> mask,
     room |-> setting.maxNew, active |-> TRUE]

Ones(k)  == [i \in 1..k |-> 1]
Zeros(k) == [i \in 1..k |-> 0]

Extend(row, ids, bit) ==
    [row EXCEPT !.ids = @ \o ids, !.mask = @ \o [i \in 1..Len(ids) |-> bit]]

\* Python's s[:k].
Take(s, k) == SubSeq(s, 1, Min({k, Len(s)}))

\* Mutant of Cut: the mask is left as it was.
CutIdsOnly(row) == [row EXCEPT !.ids = Take(@, setting.length)]

\* Mutant of Cut: the end of the response is kept.
CutFront(row) ==
    LET End(s) == SubSeq(s, Max({0, Len(s) - setting.length}) + 1, Len(s))
    IN  [row EXCEPT !.ids = End(@), !.mask = End(@)]

Cut(row) ==
    [row EXCEPT !.ids = Take(@, setting.length), !.mask = Take(@, setting.length)]

ActiveRows == {i \in DOMAIN rows : rows[i].active}

\* The run of equal mask bits that position i is in begins here.
SpanStart(mask, i) ==
    Max({j \in 1..i : /\ \A k \in j..i : mask[k] = mask[i]
                      /\ j > 1 => mask[j - 1] # mask[i]})

InResult(row, i) ==
    row.mask[i] = 0 /\ StartsResult(row.ids[SpanStart(row.mask, i)])

\* _summarize_previous_results: the spans of retrieved text become summaries.
\* The query of a summary is the last one before the span.
SummarizePreviousResults(row) ==
    LET Part(i) == IF ~InResult(row, i) THEN <<row.ids[i]>>
                   ELSE IF SpanStart(row.mask, i) # i THEN <<>>
                   ELSE ResultSummary([row.ids[i] EXCEPT
                            !.query = LastQuery(SubSeq(row.ids, 1, i - 1))])
        parts == [i \in DOMAIN row.ids |-> Part(i)]
    IN  IF setting.mode = "none" THEN row
        ELSE [row EXCEPT !.ids = FlattenSeq(parts),
                         !.mask = FlattenSeq([i \in DOMAIN parts |->
                                                 [k \in DOMAIN parts[i] |-> row.mask[i]]])]

\* Mutant of Answered: the mask of the result is one.
AnsweredUnmasked(row, q, found) == Extend(SummarizePreviousResults(row), Result(q, found), 1)

\* The result of a call is appended after the earlier ones are summarised.
Answered(row, q, found) == Extend(SummarizePreviousResults(row), Result(q, found), 0)

\* The length check at the end of a turn.
CheckLength(row, stays) ==
    IF Len(row.ids) >= setting.length
    THEN [Cut(row) EXCEPT !.active = FALSE]
    ELSE [row EXCEPT !.room = setting.length - Len(row.ids), !.active = stays]

FreshRows(ps) ==
    LET order == Places(setting.prompts, ps) IN [i \in DOMAIN order |-> Row(order[i], <<>>, <<>>)]

-------------------------------------------------------------------------------
(* generate_new_prompts *)

\* Where the loss mask falls from one to zero, the padding included; the last
\* such place is dropped.
MaskEnds(row) ==
    LET bits == row.mask \o Zeros(setting.length - Len(row.mask))
        ends == Places(bits, {i \in 1..(Len(bits) - 1) : bits[i] = 1 /\ bits[i + 1] = 0})
    IN  IF ends = <<>> THEN <<>> ELSE Front(ends)

ResultEnds(row) == Places(row.ids, Positions(row.ids, HasResultClose))

\* Mutant of RefinedText: the first search of the text is replaced.
RefinedTextFirst(row, j, q) ==
    LET context == SubSeq(row.ids, 1, ResultEnds(row)[j])
        text == SubSeq(context, 1, Max(Positions(context, HasResultOpen)) - 1)
    IN  [text EXCEPT ![Min(Opens(text))] = Ask("refiner", q)]

\* The response up to the j-th retrieved result, the query before it replaced.
RefinedText(row, j, q) ==
    LET context == SubSeq(row.ids, 1, ResultEnds(row)[j])
        text == SubSeq(context, 1, Max(Positions(context, HasResultOpen)) - 1)
    IN  [text EXCEPT ![Max(Opens(text))] = Ask("refiner", q)]

\* Its mask is the j-th piece of the loss mask, cut or filled up with ones.
RefinedPrefix(row, j, q) ==
    LET ids == RefinedText(row, j, q)
        bits == SubSeq(row.mask, 1, MaskEnds(row)[j])
    IN  Row(row.prompt, ids, Take(bits, Len(ids)) \o Ones(Max({0, Len(ids) - Len(bits)})))

\* Text and mask are about as long, and prompt and prefix fit in a prompt's width.
Usable(row, j, q) ==
    LET length == Len(RefinedText(row, j, q))
    IN  /\ Max({length, MaskEnds(row)[j]}) - Min({length, MaskEnds(row)[j]}) < MaxShift
        /\ setting.prompts[row.prompt] + length <= setting.width

\* What may come of refining a response; nothing comes of it when results and
\* pieces of the mask do not match in number.
Refinements(row) ==
    IF Len(ResultEnds(row)) # Len(MaskEnds(row)) THEN {}
    ELSE {RefinedPrefix(row, e[1], e[2]) :
            e \in {e \in (DOMAIN ResultEnds(row)) \X Query : Usable(row, e[1], e[2])}}

\* A prefix that fills the width exactly is not padded, and neither is its mask.
MaskWidth(row) ==
    IF setting.prompts[row.prompt] + Len(row.ids) = setting.width
    THEN Len(row.mask) ELSE setting.width
MasksStack(batch) == \A i, j \in DOMAIN batch : MaskWidth(batch[i]) = MaskWidth(batch[j])

-------------------------------------------------------------------------------
Init ==
    /\ setting \in Setting
    /\ pc = "turn"
    /\ refining = FALSE
    /\ step = 0
    /\ rows = FreshRows(Prompt)
    /\ results = [p \in Prompt |-> <<>>]

MaxTokens == Min({setting.maxNew, Max({rows[i].room : i \in ActiveRows})})

\* The engine is asked: in every turn but the first of a batch of prefixes.
Generates ==
    /\ pc = "turn" /\ step < setting.turns /\ ActiveRows # {}
    /\ refining => step > 0

\* One turn of the loop: generation, the tool calls (whose threads put their
\* results at the index of the call), summaries, and the length check.
Turn ==
    /\ Generates
    /\ \E said \in [ActiveRows -> Output(MaxTokens)] :
        LET calling == {i \in ActiveRows : Calls(said[i])}
        IN  /\ setting.env \/ calling = {}
            /\ \E found \in [calling -> BOOLEAN] :
                rows' = [i \in DOMAIN rows |->
                    IF i \notin ActiveRows THEN rows[i]
                    ELSE LET row == Extend(rows[i], said[i], 1)
                         IN  IF i \in calling
                             THEN CheckLength(Answered(row, LastQuery(said[i]), found[i]), TRUE)
                             ELSE CheckLength(row, FALSE)]
    /\ step' = step + 1
    /\ UNCHANGED <<setting, pc, refining, results>>

\* A generation that ended neither by a stop nor by its length, and a tool call
\* in a batch without environments (env_list is None), end the job.
TurnRaises ==
    /\ Generates
    /\ \/ setting.aborts
       \/ ~setting.env /\ \E o \in Output(MaxTokens) : Calls(o)
    /\ pc' = "raised"
    /\ UNCHANGED <<setting, refining, step, rows, results>>

\* Whether the text of prompt and prefix holds a valid tool call.
PrefixCalls(row) == setting.balanced /\ Calls(row.ids)

\* The first turn of a batch of prefixes generates nothing: the call is looked
\* for in the text of the whole row.  There are prefixes only where a search was
\* answered, so the batch has environments.
PrefixTurn ==
    /\ pc = "turn" /\ step < setting.turns /\ refining /\ step = 0
    /\ LET calling == {i \in DOMAIN rows : PrefixCalls(rows[i])}
       IN  \E found \in [calling -> BOOLEAN] :
            rows' = [i \in DOMAIN rows |->
                IF i \in calling
                THEN CheckLength(Answered(rows[i], LastQuery(rows[i].ids), found[i]), TRUE)
                ELSE CheckLength(rows[i], FALSE)]
    /\ step' = step + 1
    /\ UNCHANGED <<setting, pc, refining, results>>

Remaining(row) == setting.length - Len(row.ids)

\* Mutant of Forced: one token more is asked for.
ForcedWithMoreRoom == {i \in ActiveRows : Remaining(rows[i]) > AnswerRoom + 1}

Forced == {i \in ActiveRows : Remaining(rows[i]) > AnswerRoom}

TurnsOver == pc = "turn" /\ (step = setting.turns \/ ActiveRows = {})

\* The engine takes prompts of up to max_prompt_length + response_length tokens.
TooLong(row) ==
    setting.prompts[row.prompt] + Len(row.ids) + PrefixLength > setting.width + setting.length

NoneForced ==
    /\ TurnsOver /\ Forced = {}
    /\ pc' = "collect"
    /\ UNCHANGED <<setting, refining, step, rows, results>>

\* The forced answers: the prefix may take more than what remains; a missing
\* closing tag is added.
ForceAnswers ==
    /\ TurnsOver /\ Forced # {}
    /\ ~\E i \in Forced : TooLong(rows[i])
    /\ LET primed == [i \in Forced |-> Extend(rows[i], FinalAnswerPrefix, 0)]
           m == Max({1, Min({MaxAnswer, Max({Remaining(primed[i]) : i \in Forced})})})
           answers == {o \in {<<Verdict, CloseAnswer("policy")>>, <<Verdict>>} : Len(o) <= m}
       IN  \E said \in [Forced -> answers] :
            rows' = [i \in DOMAIN rows |->
                IF i \notin Forced THEN rows[i]
                ELSE Extend(primed[i],
                            IF CloseAnswer("policy") \in Range(said[i]) THEN said[i]
                            ELSE Append(said[i], CloseAnswer("closing")), 1)]
    /\ pc' = "collect"
    /\ UNCHANGED <<setting, refining, step, results>>

\* The engine refuses a prompt that is too long, and the job ends.
EngineRefuses ==
    /\ TurnsOver
    /\ \E i \in Forced : TooLong(rows[i])
    /\ pc' = "raised"
    /\ UNCHANGED <<setting, refining, step, rows, results>>

Response(row) == [Cut(row) EXCEPT !.active = FALSE, !.room = 0]

\* results[idx].append(...) for every row of a batch, in order.
Collected(res, batch) ==
    [p \in Prompt |->
        LET own == Where(batch, LAMBDA row : row.prompt = p)
        IN  res[p] \o [i \in DOMAIN own |-> Response(own[i])]]

\* Mutant of Keep: what is over n stays.
KeepAll(responses) == responses

\* A prompt with enough responses keeps the first n of them.
Keep(responses) == Take(responses, setting.n)

\* The end of a round: prompts that are still short get another one.
NextRound(res) ==
    LET kept == [p \in Prompt |-> Keep(res[p])]
        short == {p \in Prompt : Len(kept[p]) < setting.n}
    IN  /\ results' = kept
        /\ refining' = FALSE
        /\ step' = 0
        /\ rows' = FreshRows(short)
        /\ pc' = IF short = {} THEN "done" ELSE "turn"

\* Without sampling, generate_sequences is one generate_sequence.
CollectGreedy ==
    /\ pc = "collect" /\ ~setting.doSample
    /\ results' = Collected(results, rows)
    /\ pc' = "done"
    /\ UNCHANGED <<setting, refining, step, rows>>

\* generate_new_prompts asks the refining service about every result it finds.
AsksRefiner ==
    /\ pc = "collect" /\ setting.doSample /\ setting.truths /\ ~refining
    /\ \E i \in DOMAIN rows : ResultEnds(Response(rows[i])) # <<>>

\* At most one prefix of each response is generated from.
CollectAndRefine ==
    /\ pc = "collect" /\ setting.doSample /\ setting.truths /\ ~refining
    /\ \E refined \in SUBSET DOMAIN rows :
        /\ \A i \in refined : Refinements(Response(rows[i])) # {}
        /\ \E pick \in [refined -> UNION {Refinements(Response(rows[i])) : i \in refined}] :
            LET order == Places(rows, refined)
                batch == [k \in DOMAIN order |-> pick[order[k]]]
            IN  /\ \A i \in refined : pick[i] \in Refinements(Response(rows[i]))
                /\ IF refined = {} THEN NextRound(Collected(results, rows))
                   ELSE /\ results' = Collected(results, rows)
                        /\ rows' = batch
                        /\ refining' = TRUE
                        /\ step' = 0
                        /\ pc' = IF MasksStack(batch) THEN "turn" ELSE "raised"
    /\ UNCHANGED setting

\* ground_truth_list is empty when the batch has no such column.
CollectWithoutTruths ==
    /\ pc = "collect" /\ setting.doSample /\ ~setting.truths
    /\ pc' = "raised"
    /\ UNCHANGED <<setting, refining, step, rows, results>>

CollectRefined ==
    /\ pc = "collect" /\ refining
    /\ NextRound(Collected(results, rows))
    /\ UNCHANGED setting

Next ==
    \/ Turn \/ TurnRaises \/ PrefixTurn
    \/ NoneForced \/ ForceAnswers \/ EngineRefuses
    \/ CollectGreedy \/ CollectAndRefine \/ CollectWithoutTruths \/ CollectRefined

\* One thread runs the loop, and searches have a timeout; generate_response has
\* none, so a request to the refining service may never return.
Proceed == ~AsksRefiner /\ Next

Spec == Init /\ [][Next]_vars /\ WF_vars(Proceed)

-------------------------------------------------------------------------------
(* Properties *)

Generated(t) == t.src \in {"policy", "refiner", "closing"}
AllRows == Range(rows) \cup UNION {Range(results[p]) : p \in Prompt}

\* The assertion of the length check (vllm_rollout_spmd.py:788) and the one
\* before padding: every row has one mask bit for each of its tokens, and a
\* finished response has no more than response_length of them.
TypeOK ==
    /\ setting \in Setting
    /\ pc \in {"turn", "collect", "done", "raised"}
    /\ refining \in BOOLEAN
    /\ step \in 0..setting.turns
    /\ \A row \in AllRows :
        /\ row.prompt \in Prompt
        /\ Len(row.ids) = Len(row.mask)
        /\ \A i \in DOMAIN row.mask : row.mask[i] \in {0, 1}
    /\ \A p \in Prompt : \A row \in Range(results[p]) :
        Len(row.ids) \in 1..setting.length

WrongBit(row, i) == row.mask[i] # (IF Generated(row.ids[i]) THEN 1 ELSE 0)

\* The loss mask (generate_sequence, generate_new_prompts) says which tokens
\* were generated, through every summary, cut and refinement, but for one
\* error: in a refined prefix, retrieved or summarised text may be marked as
\* generated when the response it was made from quotes a result inside a
\* summary, or does not end in generated text and padding, so that its results
\* and the pieces of its mask are paired off wrongly.
MaskTellsWhoWrote ==
    \A p \in Prompt : \A k \in DOMAIN results[p] : \A i \in DOMAIN results[p][k].ids :
        LET row == results[p][k]
        IN  WrongBit(row, i) =>
                /\ row.mask[i] = 1 /\ i <= row.given
                /\ \E m \in 1..(k - 1) :
                    LET parent == results[p][m]
                    IN  \/ \E j \in DOMAIN parent.ids : parent.ids[j].says = "quote"
                        \/ ~Generated(Last(parent.ids))
                        \/ Len(parent.ids) = setting.length

\* Every result or summary, unless it was cut off, stands behind the search it
\* answers: the last query before it is its own, however often the row was
\* rebuilt (_extract_last_search_query, batch_execute's indices).
MemoryFollowsItsSearch ==
    \A row \in AllRows : \A i \in DOMAIN row.ids :
        (row.ids[i].src \in {"result", "summary"} /\ row.mask[i] = 0) =>
            row.ids[Max(Opens(SubSeq(row.ids, 1, i - 1)))].query = row.ids[i].query

\* A response that breaks off in retrieved text has no room left for an answer:
\* the turns end with a forced answer whenever more than AnswerRoom tokens
\* remain, and its prefix and answer are only ever cut by response_length.
BreaksOffOnlyWhenFull ==
    \A p \in Prompt : \A row \in Range(results[p]) :
        LET last == row.ids[Len(row.ids)]
        IN  /\ last.src \in {"result", "summary"} /\ row.mask[Len(row.ids)] = 0
                   => Len(row.ids) >= setting.length - AnswerRoom
            /\ last.src = "prefix" => Len(row.ids) = setting.length

\* A refined response continues a finished response of the same prompt: up to
\* its refined search it has that response's tokens, and the refined search
\* stands in the place of a search, the last of the prefix (rewrite_search, generate_new_prompts).
RefinedContinuesParent ==
    \A p \in Prompt : \A k \in DOMAIN results[p] :
        LET row == results[p][k]
            at == {i \in DOMAIN row.ids : row.ids[i].src = "refiner"}
        IN  at # {} => \E m \in 1..(k - 1) :
                LET parent == results[p][m]
                    s == Min(at)
                IN  /\ parent.given = 0
                    /\ s <= Len(parent.ids) /\ parent.ids[s].says = "<search>"
                    /\ IsPrefix([SubSeq(row.ids, 1, row.given) EXCEPT ![s] = parent.ids[s]],
                                parent.ids)
                    /\ \A i \in (s + 1)..row.given : row.ids[i].says # "<search>"

\* A refined query is searched for (generate_new_prompts.py:93: "The refined
\* query is meant to replace the query of the current round"): what follows it
\* is its result, as far as response_length allows.
RefinedQueryIsSearched ==
    \A p \in Prompt : \A row \in Range(results[p]) :
        \A i \in DOMAIN row.ids :
            (row.ids[i].src = "refiner" /\ Len(row.ids) < setting.length) =>
                \E j \in (i + 1)..Len(row.ids) :
                    /\ row.ids[j].src \in {"result", "summary"}
                    /\ row.ids[j].query = row.ids[i].query

\* What a row's text tells, with results and summaries alike reduced to what
\* they answer.
Digest(row) ==
    LET Memory(i) == row.ids[i].src \in {"result", "summary"}
        Token(i) == IF ~Memory(i) THEN <<row.ids[i]>>
                    ELSE IF i > 1 /\ Memory(i - 1) THEN <<>>
                    ELSE <<[src |-> "memory", query |-> row.ids[i].query]>>
    IN  FlattenSeq([i \in DOMAIN row.ids |-> Token(i)])

\* A turn leaves what was said and retrieved before in place: it appends, turns
\* results into summaries of the same searches, and cuts at the end (the turn
\* loop of generate_sequence).
ContextsOnlyDigested ==
    [][ (step' = step + 1 \/ (pc = "turn" /\ pc' = "collect")) =>
            \A i \in DOMAIN rows :
                \/ IsPrefix(Digest(rows[i]), Digest(rows'[i]))
                \/ Len(rows'[i].ids) = setting.length
                   /\ IsPrefix(Digest(rows'[i]), Digest(rows[i])) ]_vars

\* A prompt leaves less padding than the forced prefix may need over the budget
\* (TooLong), or fills the width together with a refined prefix (MaskWidth).
LongPrompt ==
    \E p \in Prompt :
        setting.width - setting.prompts[p] <
            (IF refining /\ step = 0 THEN setting.length + 1 ELSE PrefixLength - AnswerRoom - 1)

\* Every prompt gets its n responses (one without sampling), however many rounds
\* and refinements that takes, or the rollout waits for the refining service for
\* ever; an exception ends the job only when a column the loop reads is missing,
\* the engine gives up a generation or a prompt is too long.
EveryPromptServed ==
    \/ <>[]AsksRefiner
    \/ <>(\/ pc = "raised" /\ (setting.truths /\ setting.env /\ ~setting.aborts => LongPrompt)
          \/ pc = "done" /\ \A p \in Prompt :
               Len(results[p]) = IF setting.doSample THEN setting.n ELSE 1)
===============================================================================
