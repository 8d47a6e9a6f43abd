---------------------------- MODULE EvalLoopProps ----------------------------
(***************************************************************************)
(* What must be true of the evaluation loop, whatever the model answers    *)
(* and whatever the generated programs do.                                 *)
(***************************************************************************)
EXTENDS EvalLoop

Failures == [code : Rounds, error : Rounds]
TranscriptLines == [passed : BOOLEAN, performance : Labels \cup {"none"}, acceptable : BOOLEAN]
Summaries ==
    [state : {"absent", "truncated", "written", "stamped"},
     performance : Labels \cup {"none"}, info_only : BOOLEAN,
     pass_iteration : 0..MaxRounds, improvement_iteration : 0..MaxRounds]

\* The values of the loop's variables; the history never outgrows its depth.
TypeOK ==
    /\ pc \in {"setup", "llm", "save", "run", "results", "decide", "finish", "done"}
    /\ round_num \in 0..MaxRounds
    /\ attempt \in 0..LlmMaxRetries
    /\ llm_calls \in Nat
    /\ compare_enabled \in BOOLEAN
    /\ generated_code \in 0..MaxRounds
    /\ source_file \in BOOLEAN
    /\ passed \in BOOLEAN
    /\ acceptable \in BOOLEAN
    /\ last_summary \in Summaries
    /\ failed_history \in Seq(Failures) /\ Len(failed_history) <= HISTORY_DEPTH
    /\ last_compared_dir \in 0..MaxRounds
    /\ summaries \in [Rounds -> Summaries]
    /\ transcript \in Seq(TranscriptLines)

-----------------------------------------------------------------------------
\* The rounds up to n that were judged failed.
FailedUpTo(n) == {r \in 1..n : r \in DOMAIN transcript /\ ~transcript[r].passed}

\* The sequence lists the newest HISTORY_DEPTH of these failures, newest first,
\* each with its own error.
AreNewestOf(seq, failures) ==
    /\ \A i \in 1..Len(seq) :
          /\ seq[i].code \in failures
          /\ seq[i].error = seq[i].code
          /\ \A r \in failures : r > seq[i].code => \E j \in 1..(i - 1) : seq[j].code = r
    /\ Len(seq) < HISTORY_DEPTH =>
          \A r \in failures : \E i \in 1..Len(seq) : seq[i].code = r

\* A retry prompt shows the code that failed last with the error of that very
\* code, and, newest first, the (at most two) failures before it: no success,
\* no older failure in place of a newer one, no error of another attempt.
\* (generate_eval_one, lines 279-285 and 552-579.)
FixPromptFaithful ==
    current_prompt.kind = "fix" =>
        /\ current_prompt.error = current_prompt.code
        /\ current_prompt.code \in FailedUpTo(Len(transcript))
        /\ pc = "llm" => current_prompt.code = Len(transcript)
        /\ AreNewestOf(current_prompt.prior, FailedUpTo(current_prompt.code - 1))

\* A round is spent only for cause: every round but the last either failed, or was
\* measured, by a comparison that can really be lost, as slower, or left the one
\* label of an unmeasured comparison that the loop's list does not know.
\* (Lines 508-536 and 581-600.)
NoNeedlessRound ==
    \A r \in DOMAIN transcript :
        \/ r = Len(transcript) /\ pc \notin {"llm", "save", "run", "results"}
        \/ ~transcript[r].passed
        \/ transcript[r].performance \in {"degraded", "severely_degraded", "worse"}
        \/ transcript[r].performance = "no_common_metrics"

\* The model is never called more than max_rounds * (llm_max_retries + 1) times,
\* whatever mixture of transient errors and failing rounds occurs.  (Lines 99-117.)
CallBudget == llm_calls <= MaxRounds * (LlmMaxRetries + 1)

\* At most one summary is decorated, the newest; the iterations written into it
\* are the round it is about; an improvement is claimed only for a round that
\* passed and was measured as one; every older summary is as its comparison
\* left it.  (Lines 607-637.)
StampNamesItsRound ==
    \A r \in Rounds : summaries[r].state = "stamped" =>
        /\ \A q \in Rounds : q > r => summaries[q].state = "absent"
        /\ \A q \in Rounds \ {r} : summaries[q].state # "stamped"
        /\ summaries[r].pass_iteration \in {0, r}
        /\ summaries[r].improvement_iteration \in {0, r}
        /\ summaries[r].improvement_iteration = r =>
              summaries[r].pass_iteration = r /\ transcript[r].passed

-----------------------------------------------------------------------------
Judged(line) ==
    IF ~line.passed THEN "failed" ELSE IF line.acceptable THEN "accepted" ELSE "degraded"

\* The loop implements the contract its caller relies on.
Contract == INSTANCE EvalContract WITH
    attempts <- Len(transcript),
    last     <- IF transcript = <<>> THEN "none" ELSE Judged(transcript[Len(transcript)]),
    answer   <- CASE returned.how = "running" -> "none"
                  [] returned.how \in {"error", "raised"} -> "error"
                  [] returned.how = "result" -> IF returned.passed THEN "pass" ELSE "fail"

\* Every evaluation keeps the contract: attempts within budget, the answer of
\* the last attempt, and an answer in the end.
ImplementsContract == Contract!Spec

\* Every evaluation ends with a return or an exception.
Terminates == <>(pc = "done")

-----------------------------------------------------------------------------
(* What the repository says and the code does not do. *)

\* The prompt heads a prior attempt "Round N (earlier attempt, also failed)"
\* with the number of the round that produced it.  (prompt.py, lines 404-428.)
PriorLabelsTrue ==
    \A i \in DOMAIN current_prompt.prior :
        current_prompt.prior[i].label = current_prompt.prior[i].code

\* The source compile_and_run is told to compile is in the folder it is told to
\* compile it in.  (compile_run.py, lines 654-662.)
SourcePresent == pc = "run" => source_file
=============================================================================
