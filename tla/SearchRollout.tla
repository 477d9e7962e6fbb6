---------------------------- MODULE SearchRollout ----------------------------
(***************************************************************************)
(* train_search_policy_grpo.py, rollout_batch: a batch of trajectories is  *)
(* rolled out in lockstep.  Every turn the policy generates one output for *)
(* each unfinished trajectory; the outputs that ask for a search are       *)
(* answered together by a pool of threads; each answer compacts the        *)
(* earlier results of its own prompt into summaries and is appended.       *)
(* What is unfinished after max_turns is forced to answer.  Then main      *)
(* rewards the trajectories, takes the groups that tell something and sums *)
(* the log-probabilities of their outputs.                                 *)
(*                                                                         *)
(* A trajectory is a sequence of segments: outputs, result blocks, the     *)
(* forced prefix.  An output is told apart by what the loop looks for in   *)
(* it; it is already stripped and cut at its first closing tag, and what   *)
(* stands before its search is a sequence of pieces of free text.  The     *)
(* prompt is a string to the code, which rewrites it with str.replace, so  *)
(* it is a sequence of words, without the borders of the outputs.  No free *)
(* text reproduces a result block or a summary.  Summaries are generated   *)
(* greedily, so a summary is a function of the query and the block.        *)
(* Retrieved text holds no <answer> tag.                                   *)
(***************************************************************************)
EXTENDS Integers, Sequences, SequencesExt, FiniteSets, RewardSelection, ListOps

CONSTANTS
    Args,            \* the launches considered: arguments, labels of the batch, and what
                     \* the policy may put out
    Query,           \* texts the policy may search for
    Thought,         \* pieces of free text
    Text,            \* what the policy may write apart from tags: sequences of pieces
    GoldQuery,       \* queries whose documents hold gold evidence
    UnsummedQuery,   \* queries for whose result the generated summary is empty
    ShortQuery       \* queries whose whole result fits in result_summary_chars

Label == {"true", "false", "unknown"}
Piece == [says : {"piece"}, of : Thought]

(* Outputs *)

Search(q, text) == [says |-> "search", query |-> q, text |-> text]
Think(text)   == [says |-> "think", text |-> text]
Empty         == [says |-> "empty"]
Answer(label) == [says |-> "answer", label |-> label]
OpenAnswer    == [says |-> "open"]    \* <answer> without </answer>; a search may follow

Output ==
    {Search(q, t) : q \in Query, t \in Text} \cup {Think(t) : t \in Text \ {<<>>}}
        \cup {Answer(l) : l \in Label} \cup {OpenAnswer, Empty}

ASSUME RolloutAssumption ==
    /\ \A a \in Args :
        /\ a.labels \in Seq(Label) /\ a.labels # <<>>
        /\ {a.group_size, a.max_turns, a.micro_batch} \subseteq Nat \ {0}
        /\ a.force_final \in BOOLEAN /\ a.summary_mode \in {"llm", "truncate"}
        /\ a.search_cost \in Nat
        /\ a.policy \subseteq Output
    /\ Text \subseteq Seq(Piece) /\ <<>> \in Text
    /\ GoldQuery \subseteq Query
    /\ UnsummedQuery \subseteq Query
    /\ ShortQuery \subseteq Query

VARIABLES
    args,          \* the arguments of this launch, its batch's labels and its policy
    pc,            \* where rollout_batch is
    turn,          \* _turn
    prompt,        \* prompt[s]: the words the policy is shown next, chat template left out
    trajectory,    \* trajectory[s]: everything that was said and retrieved, in segments
    model_steps,   \* model_steps[s]: the prompt-target pairs the loss is computed on
    search_count,  \* search_count[s]
    gold,          \* gold[s]: whether gold_evidence_hits is not empty
    history,       \* result_history[s]
    finished,      \* finished[s]
    forced,        \* forced_final[s]
    outputs,       \* what the last generation has put out
    search_items,  \* the searches of the turn, in the order of the batch
    results,       \* results[i]: what search_many has got for the i-th of them
    prediction,    \* prediction[s]
    reward,        \* reward[s], in hundredths
    selected,      \* the trajectories that are trained on, each with its advantage
    pairs,         \* their prompt-target pairs, each with its place in selected
    summed         \* summed[i]: the model steps whose log-probabilities are summed
                   \* for the i-th of them

textVars == <<prompt, trajectory, model_steps>>
countVars == <<search_count, gold, history>>
lossVars == <<reward, selected, pairs, summed>>
vars == <<args, pc, turn, textVars, countVars, finished, forced, outputs, search_items,
          results, prediction, lossVars>>

\* The trajectories of the batch: examples times group_size.
State == 1..(Len(args.labels) * args.group_size)

\* group_index, counted from one.
GroupIndex(s) == (s - 1) \div args.group_size + 1

-------------------------------------------------------------------------------
(* Texts *)

\* The words of a segment: a search stands behind its text, everything else is one word.
Words(x) ==
    CASE x.says = "search" -> Append(x.text, Search(x.query, <<>>))
      [] x.says = "think"  -> x.text
      [] OTHER             -> <<x>>
Flat(text) == FlattenSeq([i \in DOMAIN text |-> Words(text[i])])

\* What a search may come back with: documents, or an error text, which may name
\* gold evidence too.
Reply(q) ==
    {[found |-> TRUE, query |-> q]} \cup {[found |-> FALSE, names |-> n] : n \in BOOLEAN}
NoReply  == [found |-> FALSE, pending |-> TRUE]

ResultBlock(reply) == [says |-> "result", reply |-> reply]
FinalPrefix == [says |-> "prefix"]
Target(label, closed) == [says |-> "final", label |-> label, closed |-> closed]

\* llm_result_summary with its fallback, and truncate_result_summary: a
\* truncated block that is short enough is quoted whole.
Summary(q, block) ==
    LET truncates == args.summary_mode = "truncate" \/ q \in UnsummedQuery
        short == ~block.reply.found \/ q \in ShortQuery
    IN  [says |-> "summary", query |-> q, block |-> block, whole |-> truncates /\ short]

\* Appending an empty output changes no text, neither the trajectory nor the prompt.
Extend(text, output) == IF output = Empty THEN text ELSE Append(text, output)
ExtendPrompt(words, output) == IF output = Empty THEN words ELSE words \o Words(output)

\* ANSWER_CLOSE in output or ANSWER_OPEN in output, or nothing at all.
Ends(output) == output.says \in {"answer", "open", "empty"}

\* words.replace(output + block, summary, 1), wherever in the words that is found.
Found(words, sought) ==
    {i \in 1..(Len(words) - Len(sought) + 1) :
        \A k \in 1..Len(sought) : words[i + k - 1] = sought[k]}
ReplaceFirst(words, h) ==
    LET sought == Append(Words(h.output), h.block)
        i == CHOOSE i \in Found(words, sought) : \A j \in Found(words, sought) : i <= j
    IN  IF Found(words, sought) = {} THEN words
        ELSE SubSeq(words, 1, i - 1) \o <<h.summary>>
                 \o SubSeq(words, i + Len(sought), Len(words))

\* Mutant of Compact: the newest entry of the history is left out.
CompactButLast(s) ==
    FoldLeft(ReplaceFirst, prompt[s], SubSeq(history[s], 1, Len(history[s]) - 1))

\* compact_previous_results
Compact(s) == FoldLeft(ReplaceFirst, prompt[s], history[s])

\* normalize_final_target: whatever was generated, the target closes the tag.
NormalizeFinalTarget(generated) == Target(generated.label, TRUE)

\* Mutant of ExtractAnswerLabel: no label is returned when there is no answer.
ExtractAnswerLabelOrNone(text) ==
    LET answers == {i \in DOMAIN text : text[i].says \in {"answer", "final"}}
    IN  IF answers = {} THEN "none" ELSE text[Max(answers)].label

\* extract_answer_label of a whole trajectory: its last complete answer.
ExtractAnswerLabel(text) ==
    LET answers == {i \in DOMAIN text : \/ text[i].says = "answer"
                                       \/ (text[i].says = "final" /\ text[i].closed)}
    IN  IF answers = {} THEN "unknown" ELSE text[Max(answers)].label

Active == {s \in State : ~finished[s]}

-------------------------------------------------------------------------------
Init ==
    /\ args \in Args
    /\ pc = "generate"
    /\ turn = 1
    /\ prompt = [s \in State |-> <<>>]
    /\ trajectory = [s \in State |-> <<>>]
    /\ model_steps = [s \in State |-> <<>>]
    /\ search_count = [s \in State |-> 0]
    /\ gold = [s \in State |-> FALSE]
    /\ history = [s \in State |-> <<>>]
    /\ finished = [s \in State |-> FALSE]
    /\ forced = [s \in State |-> FALSE]
    /\ outputs = <<>>
    /\ search_items = <<>>
    /\ results = <<>>
    /\ prediction = [s \in State |-> "unknown"]
    /\ reward = [s \in State |-> 0]
    /\ selected = <<>>
    /\ pairs = <<>>
    /\ summed = <<>>

ModelStep(shown, output, generated, isForced) ==
    [prompt |-> shown, output |-> output, generated |-> generated, forced_final |-> isForced]

\* The searches of a turn, in the order of the active trajectories.
SearchItems(out) ==
    LET asking == Where([s \in State |-> s],
                        LAMBDA s : s \in Active /\ out[s].says = "search")
    IN  [i \in 1..Len(asking) |-> [state |-> asking[i], output |-> out[asking[i]]]]

\* One generation for every active trajectory, and what the loop does with it.
Generate ==
    /\ pc = "generate"
    /\ turn <= args.max_turns
    /\ Active # {}
    /\ outputs' \in [Active -> args.policy]
    /\ model_steps' = [s \in State |->
           IF s \in Active
           THEN Append(model_steps[s], ModelStep(prompt[s], outputs'[s], outputs'[s], FALSE))
           ELSE model_steps[s]]
    /\ prompt' = [s \in State |->
           IF s \in Active THEN ExtendPrompt(prompt[s], outputs'[s]) ELSE prompt[s]]
    /\ trajectory' = [s \in State |->
           IF s \in Active THEN Extend(trajectory[s], outputs'[s]) ELSE trajectory[s]]
    /\ finished' = [s \in State |-> s \in Active => Ends(outputs'[s])]
    /\ search_items' = SearchItems(outputs')
    /\ results' = [i \in 1..Len(search_items') |-> NoReply]
    /\ IF search_items' = <<>>
       THEN pc' = "generate" /\ turn' = turn + 1
       ELSE pc' = "search" /\ UNCHANGED turn
    /\ UNCHANGED <<args, countVars, forced, prediction, lossVars>>

\* A thread of search_many comes back with the answer to the i-th search;
\* executor.map hands the answers over in the order of the queries.
FetchResult(i) ==
    /\ pc = "search"
    /\ results[i] = NoReply
    /\ \E reply \in Reply(search_items[i].output.query) :
           results' = [results EXCEPT ![i] = reply]
    /\ UNCHANGED <<args, pc, turn, textVars, countVars, finished, forced, outputs, search_items,
                   prediction, lossVars>>

\* What one pass of the loop over search_items works with: whether trajectory
\* s is in it, what it said, the block it gets and what history keeps of it.
Asked(s) == \E i \in DOMAIN search_items : search_items[i].state = s
Item(s)  == CHOOSE i \in DOMAIN search_items : search_items[i].state = s
Said(s)  == search_items[Item(s)].output

\* Mutant of Received: the answers are zipped in reverse order.
ReceivedReversed(s) == ResultBlock(results[Len(results) + 1 - Item(s)])

Received(s) == ResultBlock(results[Item(s)])
HistoryEntry(s) ==
    [output |-> Said(s), block |-> Received(s), summary |-> Summary(Said(s).query, Received(s))]

\* Mutant of IsGold: any document counts as evidence.
IsGoldIfFound(block) == block.reply.found

\* update_gold_hits: the result, whatever it is, names gold evidence.
IsGold(block) ==
    IF block.reply.found THEN block.reply.query \in GoldQuery ELSE block.reply.names

\* Mutant of Settled: only searches that found documents count as returned.
SettledFound == \A i \in DOMAIN results : results[i].found

\* All threads of search_many have come back.
Settled == \A i \in DOMAIN results : results[i] # NoReply

\* search_many has returned: every searching trajectory gets its result.
ApplyResults ==
    /\ pc = "search"
    /\ Settled
    /\ search_count' = [s \in State |->
           IF Asked(s) THEN search_count[s] + 1 ELSE search_count[s]]
    /\ gold' = [s \in State |-> gold[s] \/ (Asked(s) /\ IsGold(Received(s)))]
    /\ prompt' = [s \in State |->
           IF Asked(s) THEN Append(Compact(s), Received(s)) ELSE prompt[s]]
    /\ trajectory' = [s \in State |->
           IF Asked(s) THEN Append(trajectory[s], Received(s)) ELSE trajectory[s]]
    /\ history' = [s \in State |->
           IF Asked(s) THEN Append(history[s], HistoryEntry(s)) ELSE history[s]]
    /\ search_items' = <<>>
    /\ results' = <<>>
    /\ turn' = turn + 1
    /\ pc' = "generate"
    /\ UNCHANGED <<args, model_steps, finished, forced, outputs, prediction, lossVars>>

\* The loop is over: max_turns are used up, or every trajectory is finished.
EndTurns ==
    /\ pc = "generate"
    /\ turn > args.max_turns \/ Active = {}
    /\ pc' = "force"
    /\ UNCHANGED <<args, turn, textVars, countVars, finished, forced, outputs, search_items,
                   results, prediction, lossVars>>

\* Mutant of ForcedPrompt: the forced answer is asked for after the whole
\* trajectory.
ForcedTrajectory(s) == Append(Flat(trajectory[s]), FinalPrefix)

\* What the forced generation is shown.
ForcedPrompt(s) == Append(prompt[s], FinalPrefix)

\* One forced generation for the unfinished trajectories, if that is asked for.
ForceAnswers ==
    /\ pc = "force"
    /\ outputs' \in [IF args.force_final THEN Active ELSE {} ->
                        {Target(l, c) : l \in Label, c \in BOOLEAN}]
    /\ model_steps' = [s \in State |->
           IF s \in DOMAIN outputs'
           THEN Append(model_steps[s],
                       ModelStep(ForcedPrompt(s), NormalizeFinalTarget(outputs'[s]),
                                 outputs'[s], TRUE))
           ELSE model_steps[s]]
    /\ prompt' = [s \in State |->
           IF s \in DOMAIN outputs'
           THEN Append(ForcedPrompt(s), NormalizeFinalTarget(outputs'[s]))
           ELSE prompt[s]]
    /\ trajectory' = [s \in State |->
           IF s \in DOMAIN outputs'
           THEN trajectory[s] \o <<FinalPrefix, NormalizeFinalTarget(outputs'[s])>>
           ELSE trajectory[s]]
    /\ finished' = [s \in State |-> finished[s] \/ s \in DOMAIN outputs']
    /\ forced' = [s \in State |-> forced[s] \/ s \in DOMAIN outputs']
    /\ prediction' = [s \in State |-> ExtractAnswerLabel(trajectory'[s])]
    /\ pc' = "done"
    /\ UNCHANGED <<args, turn, countVars, search_items, results, lossVars>>

\* main, after rollout_batch: compute_reward for every trajectory.
RewardRollout ==
    /\ pc = "done"
    /\ reward' = [s \in State |->
           Reward(prediction[s], args.labels[GroupIndex(s)], gold[s], search_count[s],
                  args.search_cost)]
    /\ pc' = "rewarded"
    /\ UNCHANGED <<args, turn, textVars, countVars, finished, forced, outputs, search_items,
                   results, prediction, selected, pairs, summed>>

\* select_grpo_samples
SelectSamples ==
    /\ pc = "rewarded"
    /\ selected' = SelectGrpoSamples(reward, Len(args.labels), args.group_size)
    /\ pc' = "selected"
    /\ UNCHANGED <<args, turn, textVars, countVars, finished, forced, outputs, search_items,
                   results, prediction, reward, pairs, summed>>

\* Mutant of ModelPairs: a step is entered under its trajectory's place in the batch.
ModelPairsOfBatch ==
    FlattenSeq([i \in DOMAIN selected |->
        LET steps == Where(model_steps[selected[i].state], LAMBDA m : m.output # Empty)
        IN  [k \in DOMAIN steps |-> [step |-> steps[k], traj |-> selected[i].state]]])

\* The prompt-target pairs of trajectory_logprobs, with step_to_traj.
ModelPairs ==
    FlattenSeq([i \in DOMAIN selected |->
        LET steps == Where(model_steps[selected[i].state], LAMBDA m : m.output # Empty)
        IN  [k \in DOMAIN steps |-> [step |-> steps[k], traj |-> i]]])

\* trajectory_logprobs, its first half.
CollectPairs ==
    /\ pc = "selected"
    /\ pairs' = ModelPairs
    /\ pc' = "paired"
    /\ UNCHANGED <<args, turn, textVars, countVars, finished, forced, outputs, search_items,
                   results, prediction, reward, selected, summed>>

\* trajectory_logprobs, its second half: what a pass over the pairs yields is summed
\* by trajectory.
SumLogProbs ==
    /\ pc = "paired"
    /\ \E scored \in {InMicroBatches(pairs, args.micro_batch)} :
           summed' = [i \in DOMAIN selected |->
               LET own == Where(scored, LAMBDA p : p.traj = i)
               IN  [k \in DOMAIN own |-> own[k].step]]
    /\ pc' = "learnt"
    /\ UNCHANGED <<args, turn, textVars, countVars, finished, forced, outputs, search_items,
                   results, prediction, reward, selected, pairs>>

Next ==
    \/ Generate
    \/ \E i \in 1..Len(results) : FetchResult(i)
    \/ ApplyResults
    \/ EndTurns
    \/ ForceAnswers
    \/ RewardRollout
    \/ SelectSamples
    \/ CollectPairs
    \/ SumLogProbs

\* The rollout thread runs, and a search ends: requests.post has a timeout.
Spec == Init /\ [][Next]_vars /\ WF_vars(Next)

-------------------------------------------------------------------------------
Segment ==
    Output \cup {FinalPrefix}
        \cup [says : {"final"}, label : Label, closed : BOOLEAN]
        \cup [says : {"result"}, reply : UNION {Reply(q) : q \in Query}]
        \cup [says : {"summary"}, query : Query, whole : BOOLEAN,
              block : [says : {"result"}, reply : UNION {Reply(q) : q \in Query}]]

TypeOK ==
    /\ args \in Args
    /\ pc \in {"generate", "search", "force", "done"}
             \cup {"rewarded", "selected", "paired", "learnt"}
    /\ turn \in 1..(args.max_turns + 1)
    /\ prompt \in [State -> Seq(Segment \cup Piece)]
    /\ trajectory \in [State -> Seq(Segment)]
    /\ \A s \in State : \A k \in DOMAIN model_steps[s] :
           model_steps[s][k].output \in Segment
    /\ search_count \in [State -> Nat]
    /\ gold \in [State -> BOOLEAN]
    /\ finished \in [State -> BOOLEAN]
    /\ forced \in [State -> BOOLEAN]
    /\ DOMAIN outputs \subseteq State
    /\ prediction \in [State -> Label]
    /\ reward \in [State -> Int]
    /\ \A i \in DOMAIN selected : selected[i].state \in State
    /\ DOMAIN summed \subseteq DOMAIN selected

IsBlock(x) == x.says = "result"
Blocks(text) == {i \in DOMAIN text : IsBlock(text[i])}

\* The reference definition of the iterative context: the trajectory in which
\* every search with its result, but for the latest, has become its summary.
LastBlock(text) ==
    IF Blocks(text) = {} THEN 0 ELSE Max(Blocks(text))
IterativeContext(text) ==
    LET last == LastBlock(text)
        Old(i) == i < last /\ IsBlock(text[i])
        Keep(i) == ~(i + 1 < last /\ IsBlock(text[i + 1]))
        Shown(i) == IF Old(i) THEN Summary(text[i - 1].query, text[i]) ELSE text[i]
    IN  Pick([i \in 1..Len(text) |-> Shown(i)], {i \in 1..Len(text) : Keep(i)})

\* Two outputs of which the one ends in the words of the other, and more.
Overlap(o, p) ==
    LET EndsIn(a, b) == \E k \in 0..Len(a) : SubSeq(a, k + 1, Len(a)) = b
    IN  o # p /\ (EndsIn(Words(o), Words(p)) \/ EndsIn(Words(p), Words(o)))

\* No two searches whose results are compacted overlap and have the same result.
Distinct(text) ==
    \A i, j \in Blocks(text) :
        i < j /\ j < LastBlock(text) /\ text[i] = text[j] => ~Overlap(text[i - 1], text[j - 1])

\* The words shown are those of the context of a text.  An entry of the history may
\* be found in the end of a later output, or together with free text before it, if
\* the two outputs overlap and their results are the same: then free text is left
\* behind or taken along, and nothing else.
Memory(words) == Where(words, LAMBDA w : w.says # "piece")
ShowsContext(words, text) ==
    LET context == Flat(IterativeContext(text))
    IN  /\ Memory(words) = Memory(context)
        /\ Distinct(text) => words = context

\* Compaction by repeated string replacement, over a history whose entries
\* are replaced again every turn, may be equal and may be found inside each
\* other, always yields the iterative context: no result is lost, summarised
\* twice, left behind or summarised for another query, and the free text is that
\* of the trajectory unless two outputs overlap.
PromptIsIterativeContext ==
    \A s \in State : ShowsContext(prompt[s], trajectory[s])

\* A result block follows the search it answers: search_many's threads may
\* finish in any order, and zip must still pair trajectories and results.
ResultsFollowTheirSearch ==
    \A s \in State : \A i \in DOMAIN trajectory[s] :
        IsBlock(trajectory[s][i]) =>
            /\ i > 1 /\ trajectory[s][i - 1].says = "search"
            /\ trajectory[s][i].reply.found =>
                   trajectory[s][i].reply.query = trajectory[s][i - 1].query

\* Each step of the loss was conditioned on what the policy really saw: its
\* prompt is the iterative context of the trajectory before it, with the
\* forced prefix for a forced step; and the outputs of the steps are all the
\* model said.
IsModelText(x) == x.says \in {"search", "think", "answer", "open", "final"}
Before(s, k) ==
    LET at == {i \in DOMAIN trajectory[s] :
                  /\ IsModelText(trajectory[s][i])
                  /\ Cardinality({j \in 1..i : IsModelText(trajectory[s][j])}) = k}
    IN  IF at = {} THEN trajectory[s]
        ELSE SubSeq(trajectory[s], 1, (CHOOSE i \in at : TRUE) - 1)
StepsReplay ==
    \A s \in State :
        /\ \A k \in DOMAIN model_steps[s] :
               ShowsContext(model_steps[s][k].prompt, Before(s, k))
        /\ Where(trajectory[s], IsModelText) =
               Where([k \in DOMAIN model_steps[s] |-> model_steps[s][k].output], IsModelText)

\* What a trajectory's text shows of it: whether its last answer is right, wrong or
\* none, whether a right one found gold evidence, and the searches charged to it.
FoundGold(text) ==
    \E i \in DOMAIN text :
        /\ IsBlock(text[i])
        /\ \/ \E q \in GoldQuery : text[i].reply = [found |-> TRUE, query |-> q]
           \/ text[i].reply = [found |-> FALSE, names |-> TRUE]
Verdict(s) ==
    LET label == ExtractAnswerLabel(trajectory[s])
    IN  IF label = "unknown" THEN 0
        ELSE IF label # args.labels[GroupIndex(s)] THEN 1
        ELSE IF ~FoundGold(trajectory[s]) THEN 2 ELSE 3
Charged(s) == Max({0, Cardinality(Blocks(trajectory[s])) - 1})

\* What keeps a search cheaper than a verdict: searches cost something, and those that
\* are charged in max_turns cost less than half a point (5 hundredths and 4 turns, as
\* launched, leave it at 15).
SearchesNeverOutweigh ==
    \A a \in Args : a.search_cost > 0 /\ a.search_cost * (a.max_turns - 1) < 50

\* Rewards are for what happened: N_search counts the result blocks of the
\* trajectory, evidence is credited exactly when one of them names it, and by reward
\* a group stands in the order of its verdicts (none, wrong, right, right with
\* evidence), at the same verdict in that of its searches beyond the first; no
\* number of searches the turns allow outweighs a verdict.
RewardsAreEarned ==
    /\ \A s \in State :
        /\ search_count[s] = Cardinality(Blocks(trajectory[s])) /\ search_count[s] = Len(history[s])
        /\ gold[s] = FoundGold(trajectory[s])
    /\ pc = "learnt" => \A s, t \in State : GroupIndex(s) = GroupIndex(t) =>
        (reward[s] > reward[t] <=>
            \/ Verdict(s) > Verdict(t)
            \/ Verdict(s) = Verdict(t) /\ Charged(s) < Charged(t))

\* The loss is made of whole groups, those whose rewards are not all equal, in the
\* order of the batch; within a group the better is pushed up against the worse; and
\* the log-probabilities summed for a trajectory are those of all its own outputs
\* (select_grpo_samples, and step_to_traj through the micro-batches).
LossIsOwn ==
    pc = "learnt" =>
        LET at(s) == {i \in DOMAIN selected : selected[i].state = s}
            Group(s) == {t \in State : GroupIndex(t) = GroupIndex(s)}
            Adv(i) == selected[i].advantage
        IN  /\ \A s \in State :
                Cardinality(at(s)) = IF \A t \in Group(s) : reward[t] = reward[s] THEN 0 ELSE 1
            /\ \A i, j \in DOMAIN selected :
                /\ i < j => selected[i].state < selected[j].state
                /\ GroupIndex(selected[i].state) = GroupIndex(selected[j].state) =>
                    (Adv(i) > Adv(j) <=> reward[selected[i].state] > reward[selected[j].state])
            /\ \A i \in DOMAIN selected :
                /\ \E j \in DOMAIN selected :
                    /\ GroupIndex(selected[j].state) = GroupIndex(selected[i].state)
                    /\ Adv(i) * Adv(j) < 0 \/ Adv(i) = 0
                /\ summed[i] = Where(model_steps[selected[i].state],
                                         LAMBDA m : m.output # Empty)

\* Every rollout ends, and what it ends in is settled: the forced answer is for the
\* trajectories that used up every turn and for them alone, and with --force_final
\* none is left unfinished.
Ended ==
    /\ pc = "learnt"
    /\ \A s \in State :
        /\ forced[s] <=> Len(model_steps[s]) > args.max_turns
        /\ Len(model_steps[s]) <= args.max_turns + 1
        /\ args.force_final => finished[s]
RolloutEnds == <>Ended
==============================================================================
