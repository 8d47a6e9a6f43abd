------------------------------ MODULE EvalLoop ------------------------------
(***************************************************************************)
(* generate_eval_one: ask a model for code, build and run it, compare it   *)
(* with the reference, and spend the remaining rounds on feeding the error *)
(* or the measurements back.                                               *)
(*                                                                         *)
(* A piece of generated code is named by the round that generated it.      *)
(* Everything outside the loop is chosen by the environment: what the      *)
(* model returns, what a build and a run show, what summary.json a         *)
(* comparison leaves behind.                                               *)
(***************************************************************************)
EXTENDS Sequences, CompileRun, Verdict

CONSTANTS
    MaxRounds,          \* max_rounds
    LlmMaxRetries,      \* llm_max_retries
    SaveGenerated,      \* save_generated; FALSE under --no-save
    Script,             \* how this example's build_and_run.py goes about it
    GeneratedPrograms,  \* what the generated code may turn out to do
    Labels              \* what summary.json may carry as "performance"

ASSUME MaxRoundsAssumption == MaxRounds \in Nat \ {0}
ASSUME LlmMaxRetriesAssumption == LlmMaxRetries \in Nat
ASSUME SaveGeneratedAssumption == SaveGenerated \in BOOLEAN
ASSUME ScriptAssumption == Script \in SourceModes
ASSUME GeneratedProgramsAssumption == GeneratedPrograms \subseteq Programs

HISTORY_DEPTH == 2

Rounds == 1..MaxRounds

\* summary["performance"] is what the unified verdict or an older scheme wrote,
\* or the key is missing.  CompareRunProofs!LeavesKnownLabels: no comparison
\* leaves anything else.
ASSUME LabelsAssumption == Labels \subseteq ALL_VERDICTS \cup LegacyLabels \cup {"none"}

VARIABLES
    pc,               \* the step the loop is at
    round_num,        \* 0 before the first round
    attempt,          \* retries of the current call of the model
    llm_calls,        \* calls of generate_code so far
    compare_enabled,  \* a reference exists and --no-ref was not given
    current_prompt,
    generated_code,   \* the round that generated it, 0 for None
    source_file,      \* this round's source is in the working directory
    result,           \* the last CompileRunResult, with the code it is of
    passed,
    acceptable,
    last_summary,     \* the summary.json read in this round, or NoSummary
    failed_history,   \* newest first
    last_compared_dir,\* the round of the last comparison, 0 for None
    summaries,        \* summary.json in the results directory of each round
    transcript,       \* the console's RESULT and verdict lines, one per round
    returned          \* what the call returned, or NoReturn

vars == <<pc, round_num, attempt, llm_calls, compare_enabled, current_prompt,
          generated_code, source_file, result, passed, acceptable, last_summary,
          failed_history, last_compared_dir, summaries, transcript, returned>>

roundVars == <<round_num, compare_enabled, current_prompt, failed_history,
               last_compared_dir, summaries, transcript>>

-----------------------------------------------------------------------------
NoSummary == [state |-> "absent", performance |-> "none", info_only |-> FALSE,
              pass_iteration |-> 0, improvement_iteration |-> 0]

\* Killed while writing: json.load fails on it.
Truncated == [NoSummary EXCEPT !.state = "truncated"]

\* As build_and_run.py leaves it: both iterations default to 1, no model name.
Written(performance, info_only) ==
    [state |-> "written", performance |-> performance, info_only |-> info_only,
     pass_iteration |-> 1, improvement_iteration |-> 1]

\* What summary.json a comparison may leave in the round's results directory.
SummariesLeft ==
    {NoSummary, Truncated} \cup {Written(l, i) : l \in Labels, i \in BOOLEAN}

NoResult == [of |-> 0, is |-> NotRun]
NoReturn == [how |-> "running", passed |-> FALSE, rounds |-> 0, summary_file |-> 0]

InitialPrompt == [kind |-> "initial", code |-> 0, error |-> 0, prior |-> <<>>]

\* generate_fix_prompt_from_code: the failing code, its error, and the earlier
\* failures, the i-th of them headed "Round <round_num - i>".
FixPrompt(code, error, n, prior) ==
    [kind |-> "fix", code |-> code, error |-> error,
     prior |-> [i \in 1..Len(prior) |->
                  [code |-> prior[i].code, error |-> prior[i].error, label |-> n - i]]]

PerfFixPrompt(code) == [kind |-> "perf", code |-> code, error |-> 0, prior |-> <<>>]

\* Mutant: the newest failure is appended instead of put in front.
RememberAtEnd(e, history) ==
    IF Len(history) < HISTORY_DEPTH THEN Append(history, e) ELSE <<history[2], e>>

\* failed_history.insert(0, e); del failed_history[HISTORY_DEPTH:]
Remember(e, history) ==
    [i \in 1..(IF Len(history) < HISTORY_DEPTH THEN Len(history) + 1 ELSE HISTORY_DEPTH) |->
        IF i = 1 THEN e ELSE history[i - 1]]

\* Mutant: a comparison without the primary metric is retried like a slow one.
AcceptableOnlyMeasured(performance) ==
    performance \in {"none", "same", "better", "improved", "on_par", "info_only", "unknown"}

\* The verdicts that end the loop: a good enough comparison, or none at all.
AcceptableLabel(performance) ==
    performance \in {"none", "same", "better", "improved", "on_par",
                     "info_only", "no_gen_metrics", "no_ref_metrics", "unknown"}

Return(how, ok, rounds, summary_file) ==
    /\ pc' = "done"
    /\ returned' = [how |-> how, passed |-> ok, rounds |-> rounds,
                    summary_file |-> summary_file]

-----------------------------------------------------------------------------
Init ==
    /\ pc = "setup"
    /\ round_num = 0 /\ attempt = 0 /\ llm_calls = 0
    /\ compare_enabled = FALSE
    /\ current_prompt = InitialPrompt
    /\ generated_code = 0 /\ source_file = FALSE
    /\ result = NoResult
    /\ passed = FALSE /\ acceptable = FALSE
    /\ last_summary = NoSummary
    /\ failed_history = <<>>
    /\ last_compared_dir = 0
    /\ summaries = [r \in Rounds |-> NoSummary]
    /\ transcript = <<>>
    /\ returned = NoReturn

\* No dataset directory, no empty_* file, no prompt or no build_and_run.py; or an
\* exception nothing catches, a model name without a provider.
SetupFails ==
    /\ pc = "setup"
    /\ \E how \in {"error", "raised"} : Return(how, FALSE, 0, 0)
    /\ UNCHANGED <<roundVars, attempt, llm_calls, generated_code, source_file, result,
                   passed, acceptable, last_summary>>

Setup ==
    /\ pc = "setup"
    /\ compare_enabled' \in BOOLEAN
    /\ round_num' = 1
    /\ pc' = "llm"
    /\ UNCHANGED <<attempt, llm_calls, current_prompt, generated_code, source_file, result,
                   passed, acceptable, last_summary, failed_history, last_compared_dir,
                   summaries, transcript, returned>>

\* The model answers; extract_code_from_response takes the code out.
LlmAnswers ==
    /\ pc = "llm"
    /\ llm_calls' = llm_calls + 1
    /\ attempt' = 0
    /\ generated_code' = round_num
    /\ pc' = "save"
    /\ UNCHANGED <<roundVars, source_file, result, passed, acceptable, last_summary, returned>>

\* Mutant: the retry does not count itself.
LlmRetryUncounted ==
    /\ pc = "llm"
    /\ attempt < LlmMaxRetries
    /\ llm_calls' = llm_calls + 1
    /\ UNCHANGED <<roundVars, pc, attempt, generated_code, source_file, result, passed,
                   acceptable, last_summary, returned>>

\* A rate limit or a transient error, with retries left: sleep, call again.
LlmRetry ==
    /\ pc = "llm"
    /\ attempt < LlmMaxRetries
    /\ llm_calls' = llm_calls + 1
    /\ attempt' = attempt + 1
    /\ UNCHANGED <<roundVars, pc, generated_code, source_file, result, passed, acceptable,
                   last_summary, returned>>

\* Any other error, at any attempt; a transient one when the retries are used up.
LlmFails ==
    /\ pc = "llm"
    /\ llm_calls' = llm_calls + 1
    /\ Return("error", FALSE, round_num, 0)
    /\ UNCHANGED <<roundVars, attempt, generated_code, source_file, result, passed,
                   acceptable, last_summary>>

Save ==
    /\ pc = "save"
    /\ source_file' = SaveGenerated
    /\ pc' = "run"
    /\ UNCHANGED <<roundVars, attempt, llm_calls, generated_code, result, passed, acceptable,
                   last_summary, returned>>

SaveFails ==
    /\ pc = "save" /\ SaveGenerated
    /\ Return("error", FALSE, round_num, 0)
    /\ UNCHANGED <<roundVars, attempt, llm_calls, generated_code, source_file, result, passed,
                   acceptable, last_summary>>

\* compile_and_run under execution_lock, then analyze_result.
Run ==
    /\ pc = "run"
    /\ \E p \in GeneratedPrograms : \E r \in CompileAndRun(Script, source_file, p) :
          result' = [of |-> generated_code, is |-> r]
    /\ passed' = AnalyzeResult(result'.is).passed
    /\ pc' = "results"
    /\ UNCHANGED <<roundVars, attempt, llm_calls, generated_code, source_file, acceptable,
                   last_summary, returned>>

\* Mutant: the round is started over, without counting, when the child cannot start.
RunRetried ==
    /\ pc = "run"
    /\ pc' = "save"
    /\ UNCHANGED <<roundVars, attempt, llm_calls, generated_code, source_file, result, passed,
                   acceptable, last_summary, returned>>

\* The lock or the working directory fails before the child is started.
RunRaises ==
    /\ pc = "run"
    /\ Return("error", FALSE, round_num, 0)
    /\ UNCHANGED <<roundVars, attempt, llm_calls, generated_code, source_file, result, passed,
                   acceptable, last_summary>>

\* Outside every try block: os.makedirs of the round's results directory, and
\* execution_lock, taken once more for the comparison.
ResultsDirRaises ==
    /\ pc = "results"
    /\ Return("raised", FALSE, 0, 0)
    /\ UNCHANGED <<roundVars, attempt, llm_calls, generated_code, source_file, result, passed,
                   acceptable, last_summary>>

Report(performance, ok) ==
    transcript' = Append(transcript, [passed |-> passed, performance |-> performance,
                                      acceptable |-> ok])

\* shutil.move into the results directory; a failed move is only reported.
MoveSource == source_file' \in {FALSE, source_file}

\* Compare with the reference and read the round's summary.json.
Compare ==
    /\ pc = "results" /\ passed /\ compare_enabled
    /\ \E s \in SummariesLeft :
          /\ summaries' = [summaries EXCEPT ![round_num] = s]
          /\ last_summary' = IF s.state = "written" THEN s ELSE NoSummary
    /\ last_compared_dir' = round_num
    /\ acceptable' = (AcceptableLabel(last_summary'.performance) \/ last_summary'.info_only)
    /\ Report(last_summary'.performance, acceptable')
    /\ MoveSource
    /\ pc' = "decide"
    /\ UNCHANGED <<round_num, attempt, llm_calls, compare_enabled, current_prompt,
                   generated_code, result, passed, failed_history, returned>>

\* Nothing to compare: a failed round, or no reference, where passing is enough.
SkipCompare ==
    /\ pc = "results" /\ ~(passed /\ compare_enabled)
    /\ last_summary' = NoSummary
    /\ acceptable' = passed
    /\ Report("none", passed)
    /\ MoveSource
    /\ pc' = "decide"
    /\ UNCHANGED <<round_num, attempt, llm_calls, compare_enabled, current_prompt,
                   generated_code, result, passed, failed_history, last_compared_dir,
                   summaries, returned>>

\* Go on with this prompt, or leave the for loop after its last round.
NextRound(prompt) ==
    IF round_num < MaxRounds
    THEN current_prompt' = prompt /\ round_num' = round_num + 1 /\ pc' = "llm"
    ELSE pc' = "finish" /\ UNCHANGED <<current_prompt, round_num>>

\* The prompt is built from the history as it was before this failure.
FailedRound ==
    /\ pc = "decide" /\ ~passed
    /\ NextRound(FixPrompt(generated_code, result.of, round_num, failed_history))
    /\ failed_history' = Remember([code |-> generated_code, error |-> result.of], failed_history)
    /\ UNCHANGED <<attempt, llm_calls, compare_enabled, generated_code, source_file, result,
                   passed, acceptable, last_summary, last_compared_dir, summaries, transcript,
                   returned>>

\* Mutant: the missing break, an accepted round is optimised further.
AcceptedRoundGoesOn ==
    /\ pc = "decide" /\ passed /\ acceptable
    /\ NextRound(PerfFixPrompt(generated_code))
    /\ UNCHANGED <<attempt, llm_calls, compare_enabled, generated_code, source_file, result,
                   passed, acceptable, last_summary, failed_history, last_compared_dir,
                   summaries, transcript, returned>>

AcceptedRound ==
    /\ pc = "decide" /\ passed /\ acceptable
    /\ pc' = "finish"
    /\ UNCHANGED <<roundVars, attempt, llm_calls, generated_code, source_file, result, passed,
                   acceptable, last_summary, returned>>

DegradedRound ==
    /\ pc = "decide" /\ passed /\ ~acceptable
    /\ NextRound(PerfFixPrompt(generated_code))
    /\ UNCHANGED <<attempt, llm_calls, compare_enabled, generated_code, source_file, result,
                   passed, acceptable, last_summary, failed_history, last_compared_dir,
                   summaries, transcript, returned>>

\* Mutant: the default improvement_iteration of build_and_run.py is kept.
StampedKeepsDefault(s) ==
    [s EXCEPT !.state = "stamped", !.pass_iteration = IF passed THEN round_num ELSE 0]

Stamped(s) ==
    [s EXCEPT !.state = "stamped",
              !.pass_iteration = IF passed THEN round_num ELSE 0,
              !.improvement_iteration =
                  IF s.performance \in {"better", "improved"} THEN round_num ELSE 0]

\* Decorate the most recent summary with the run's metadata, and return.  The
\* file is opened for writing before it is dumped: a failed write loses it.
Finish ==
    /\ pc = "finish"
    /\ IF last_compared_dir # 0 /\ summaries[last_compared_dir].state = "written"
       THEN \/ /\ summaries' = [summaries EXCEPT ![last_compared_dir] = Stamped(@)]
               /\ Return("result", passed, round_num, last_compared_dir)
            \/ /\ summaries' = [summaries EXCEPT ![last_compared_dir] = Truncated]
               /\ Return("result", passed, round_num, 0)
       ELSE /\ Return("result", passed, round_num, 0)
            /\ UNCHANGED summaries
    /\ UNCHANGED <<round_num, attempt, llm_calls, compare_enabled, current_prompt,
                   generated_code, source_file, result, passed, acceptable, last_summary,
                   failed_history, last_compared_dir, transcript>>

Done == pc = "done" /\ UNCHANGED vars

Next ==
    \/ SetupFails \/ Setup
    \/ LlmAnswers \/ LlmRetry \/ LlmFails
    \/ Save \/ SaveFails
    \/ Run \/ RunRaises \/ ResultsDirRaises
    \/ Compare \/ SkipCompare
    \/ FailedRound \/ AcceptedRound \/ DegradedRound
    \/ Finish
    \/ Done

\* One thread runs the loop to its end; every call it waits for comes back: the
\* child processes have timeouts and the provider SDKs theirs.
Spec == Init /\ [][Next]_vars /\ WF_vars(Next)
=============================================================================
