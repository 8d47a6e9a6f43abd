--------------------------- MODULE EvalLoopProofs ---------------------------
(***************************************************************************)
(* EvalLoop for every number of rounds and of retries, every environment:  *)
(* its bookkeeping, the safety properties of EvalLoopProps, and that it    *)
(* implements EvalContract.                                                *)
(***************************************************************************)
EXTENDS EvalLoopProps, SequenceTheorems, TLAPS

-----------------------------------------------------------------------------
(* Lemmas about the operators of the loop. *)

\* analyze_result always decides.
LEMMA AnalyzeResultDecides == \A r : AnalyzeResult(r).passed \in BOOLEAN
  BY DEF AnalyzeResult

\* A function on 1..n is a sequence of length n.
LEMMA FunctionIsSeq ==
  ASSUME NEW S, NEW n \in Nat, NEW f \in [1..n -> S]
  PROVE  f \in Seq(S) /\ Len(f) = n
  <1>1. f \in Seq(S)
    BY SeqDef
  <1>2. DOMAIN f = 1..Len(f) /\ Len(f) \in Nat
    BY <1>1, LenProperties
  <1>3. 1..n = 1..Len(f)
    BY <1>2
  <1> QED BY <1>1, <1>2, <1>3

\* Remembering a failure keeps the newest HISTORY_DEPTH of them.
LEMMA RememberType ==
  ASSUME NEW S, NEW h \in Seq(S), Len(h) <= HISTORY_DEPTH, NEW e \in S
  PROVE  /\ Remember(e, h) \in Seq(S)
         /\ Len(Remember(e, h)) = IF Len(h) < HISTORY_DEPTH THEN Len(h) + 1 ELSE HISTORY_DEPTH
         /\ Remember(e, h)[1] = e
         /\ \A i \in 2..Len(Remember(e, h)) : i - 1 \in 1..Len(h) /\ Remember(e, h)[i] = h[i - 1]
  <1> DEFINE n == IF Len(h) < HISTORY_DEPTH THEN Len(h) + 1 ELSE HISTORY_DEPTH
  <1>1. h \in [1..Len(h) -> S] /\ Len(h) \in Nat
    BY LenProperties
  <1>2. n \in Nat /\ n >= 1 /\ n <= Len(h) + 1
    BY <1>1 DEF HISTORY_DEPTH
  <1>3. \A i \in 1..n : i # 1 => i - 1 \in 1..Len(h)
    BY <1>1, <1>2
  <1>4. Remember(e, h) = [i \in 1..n |-> IF i = 1 THEN e ELSE h[i - 1]]
    BY DEF Remember
  <1>5. Remember(e, h) \in [1..n -> S]
    BY <1>1, <1>3, <1>4
  <1>6. Remember(e, h) \in Seq(S) /\ Len(Remember(e, h)) = n
    BY <1>2, <1>5, FunctionIsSeq
  <1> QED BY <1>2, <1>3, <1>4, <1>6

\* One more line of the transcript.
LEMMA AppendLine ==
  ASSUME NEW S, NEW s \in Seq(S), NEW e \in S
  PROVE  /\ Append(s, e) \in Seq(S)
         /\ Len(Append(s, e)) = Len(s) + 1
         /\ Append(s, e)[Len(s) + 1] = e
         /\ \A i \in 1..Len(s) : Append(s, e)[i] = s[i]
         /\ DOMAIN Append(s, e) = 1..(Len(s) + 1)
  BY AppendProperties, LenProperties

-----------------------------------------------------------------------------
(* Type correctness. *)

\* A summary as a comparison or a failed write leaves it.
LEMMA SummaryTypes ==
  NoSummary \in Summaries /\ Truncated \in Summaries /\ SummariesLeft \subseteq Summaries
  <1>1. 0 \in 0..MaxRounds /\ 1 \in 0..MaxRounds
    BY MaxRoundsAssumption
  <1>2. NoSummary \in Summaries
    BY <1>1 DEF NoSummary, Summaries
  <1>3. Truncated \in Summaries
    BY <1>1 DEF NoSummary, Truncated, Summaries
  <1>4. \A l \in Labels, i \in BOOLEAN : Written(l, i) \in Summaries
    BY <1>1 DEF Written, Summaries
  <1> QED BY <1>2, <1>3, <1>4 DEF SummariesLeft

LEMMA InitType == Init => TypeOK
  <1> SUFFICES ASSUME Init PROVE TypeOK
    OBVIOUS
  <1>1. /\ failed_history \in Seq(Failures) /\ Len(failed_history) <= HISTORY_DEPTH
        /\ transcript \in Seq(TranscriptLines)
    BY EmptySeq DEF Init, HISTORY_DEPTH
  <1>2. last_summary \in Summaries /\ summaries \in [Rounds -> Summaries]
    BY SummaryTypes DEF Init
  <1>3. /\ round_num \in 0..MaxRounds /\ generated_code \in 0..MaxRounds
        /\ last_compared_dir \in 0..MaxRounds /\ attempt \in 0..LlmMaxRetries /\ llm_calls \in Nat
    BY MaxRoundsAssumption, LlmMaxRetriesAssumption DEF Init
  <1> QED BY <1>1, <1>2, <1>3 DEF Init, TypeOK

\* The line a round adds to the transcript, used by Compare and SkipCompare.
LEMMA ReportAppends ==
  ASSUME TypeOK, NEW l \in Labels \cup {"none"}, NEW b \in BOOLEAN, Report(l, b)
  PROVE  /\ transcript' \in Seq(TranscriptLines)
         /\ Len(transcript') = Len(transcript) + 1
         /\ transcript'[Len(transcript) + 1] =
               [passed |-> passed, performance |-> l, acceptable |-> b]
         /\ \A i \in 1..Len(transcript) : transcript'[i] = transcript[i]
  <1>1. [passed |-> passed, performance |-> l, acceptable |-> b] \in TranscriptLines
    BY DEF TypeOK, TranscriptLines
  <1> QED BY <1>1, AppendLine DEF Report, TypeOK

LEMMA CompareType == ASSUME TypeOK, Compare PROVE TypeOK'
  <1>1. PICK s \in SummariesLeft :
            /\ summaries' = [summaries EXCEPT ![round_num] = s]
            /\ last_summary' = IF s.state = "written" THEN s ELSE NoSummary
    BY DEF Compare
  <1>2. s \in Summaries /\ last_summary' \in Summaries
    BY <1>1, SummaryTypes
  <1>3. summaries' \in [Rounds -> Summaries]
    BY <1>1, <1>2 DEF TypeOK
  <1>4. last_summary'.performance \in Labels \cup {"none"} /\ last_summary'.info_only \in BOOLEAN
    BY <1>2 DEF Summaries
  <1>5. acceptable' \in BOOLEAN
    BY DEF Compare, AcceptableLabel
  <1>6. transcript' \in Seq(TranscriptLines)
    BY <1>4, <1>5, ReportAppends DEF Compare
  <1> QED BY <1>2, <1>3, <1>5, <1>6 DEF Compare, TypeOK, MoveSource

LEMMA SkipCompareType == ASSUME TypeOK, SkipCompare PROVE TypeOK'
  <1>1. transcript' \in Seq(TranscriptLines)
    BY ReportAppends DEF SkipCompare, TypeOK
  <1> QED BY <1>1, SummaryTypes DEF SkipCompare, TypeOK, MoveSource

LEMMA StampedType == ASSUME TypeOK, NEW s \in Summaries PROVE Stamped(s) \in Summaries
  <1> DEFINE p == IF passed THEN round_num ELSE 0
             i == IF s.performance \in {"better", "improved"} THEN round_num ELSE 0
  <1>1. p \in 0..MaxRounds /\ i \in 0..MaxRounds
    BY MaxRoundsAssumption DEF TypeOK
  <1>2. Stamped(s) = [s EXCEPT !.state = "stamped", !.pass_iteration = p,
                               !.improvement_iteration = i]
    BY DEF Stamped
  <1> HIDE DEF p, i
  <1> QED BY <1>1, <1>2 DEF Summaries

LEMMA FinishType == ASSUME TypeOK, Finish PROVE TypeOK'
  <1>1. CASE UNCHANGED summaries
    BY <1>1 DEF Finish, TypeOK, Return
  <1>2. CASE /\ last_compared_dir # 0
             /\ summaries' = [summaries EXCEPT ![last_compared_dir] = Truncated]
    BY <1>2, SummaryTypes DEF Finish, TypeOK, Return
  <1>3. CASE /\ last_compared_dir # 0
             /\ summaries' = [summaries EXCEPT ![last_compared_dir] = Stamped(@)]
    <2>1. last_compared_dir \in Rounds /\ summaries[last_compared_dir] \in Summaries
      BY <1>3 DEF TypeOK, Rounds
    <2>2. Stamped(summaries[last_compared_dir]) \in Summaries
      BY <2>1, StampedType
    <2>3. summaries' \in [Rounds -> Summaries]
      BY <1>3, <2>1, <2>2 DEF TypeOK
    <2> QED BY <2>3 DEF Finish, TypeOK, Return
  <1> QED BY <1>1, <1>2, <1>3 DEF Finish

\* The bookkeeping the inductive invariants share: where a step of a round
\* stands with respect to the rounds counted, generated, run and judged.
Bookkeeping ==
    /\ pc = "setup" => round_num = 0 /\ Len(transcript) = 0 /\ Len(failed_history) = 0
    /\ pc \in {"llm", "save", "run", "results"} =>
          round_num \in Rounds /\ Len(transcript) = round_num - 1
    /\ pc \in {"decide", "finish"} =>
          /\ round_num \in Rounds /\ Len(transcript) = round_num
          /\ transcript[round_num].passed = passed
          /\ transcript[round_num].acceptable = acceptable
    /\ pc \in {"save", "run", "results", "decide"} => generated_code = round_num
    /\ pc \in {"results", "decide"} => result.of = round_num
    /\ pc = "finish" => (passed /\ acceptable) \/ round_num = MaxRounds
    /\ pc # "llm" => attempt = 0 \/ pc = "done"

TInv == TypeOK /\ Bookkeeping

LEMMA InitTInv == Init => TInv
  <1>1. Init => Bookkeeping
    BY EmptySeq DEF Init, Bookkeeping
  <1> QED BY <1>1, InitType DEF TInv

\* The steps of a round before it is judged.
LEMMA EarlyTInv ==
  ASSUME TInv,
         \/ SetupFails \/ Setup \/ LlmAnswers \/ LlmRetry \/ LlmFails \/ Save \/ SaveFails
         \/ Run \/ RunRaises \/ ResultsDirRaises
  PROVE  TInv'
  <1> USE MaxRoundsAssumption DEF TInv, TypeOK, Bookkeeping, roundVars, Return
  <1>1. CASE SetupFails
    BY <1>1 DEF SetupFails
  <1>2. CASE Setup
    BY <1>2 DEF Setup, Rounds
  <1>3. CASE LlmAnswers
    BY <1>3, LlmMaxRetriesAssumption DEF LlmAnswers, Rounds
  <1>4. CASE LlmRetry
    BY <1>4, LlmMaxRetriesAssumption DEF LlmRetry
  <1>5. CASE LlmFails
    BY <1>5 DEF LlmFails
  <1>6. CASE Save
    BY <1>6, SaveGeneratedAssumption DEF Save
  <1>7. CASE SaveFails
    BY <1>7 DEF SaveFails
  <1>8. CASE Run
    <2>1. PICK q \in GeneratedPrograms : \E r \in CompileAndRun(Script, source_file, q) :
              result' = [of |-> generated_code, is |-> r]
      BY <1>8 DEF Run
    <2>2. result'.of = generated_code
      BY <2>1
    <2>3. passed' \in BOOLEAN
      BY <1>8, AnalyzeResultDecides DEF Run
    <2> QED BY <1>8, <2>2, <2>3 DEF Run
  <1>9. CASE RunRaises
    BY <1>9 DEF RunRaises
  <1>10. CASE ResultsDirRaises
    BY <1>10 DEF ResultsDirRaises
  <1> QED BY <1>1, <1>2, <1>3, <1>4, <1>5, <1>6, <1>7, <1>8, <1>9, <1>10

\* The verdicts of the two branches of step 7, and the line they report.
LEMMA CompareReports ==
  ASSUME TypeOK, Compare
  PROVE  \E l \in Labels \cup {"none"} : Report(l, acceptable') /\ acceptable' \in BOOLEAN
  <1>1. last_summary' \in Summaries
    BY CompareType DEF TypeOK
  <1>2. acceptable' \in BOOLEAN
    BY CompareType DEF TypeOK
  <1>3. last_summary'.performance \in Labels \cup {"none"}
    BY <1>1 DEF Summaries
  <1> QED BY <1>2, <1>3 DEF Compare

LEMMA JudgeTInv == ASSUME TInv, Compare \/ SkipCompare PROVE TInv'
  <1>1. TypeOK'
    BY CompareType, SkipCompareType DEF TInv
  <1>2. PICK l \in Labels \cup {"none"}, b \in BOOLEAN : Report(l, b) /\ acceptable' = b
    <2>1. CASE Compare
      BY <2>1, CompareReports DEF TInv
    <2>2. CASE SkipCompare
      BY <2>2 DEF SkipCompare, TInv, TypeOK
    <2> QED BY <2>1, <2>2
  <1>3. /\ Len(transcript') = Len(transcript) + 1
        /\ transcript'[Len(transcript) + 1] =
              [passed |-> passed, performance |-> l, acceptable |-> b]
    BY <1>2, ReportAppends DEF TInv
  <1>4. pc = "results" /\ pc' = "decide"
    BY DEF Compare, SkipCompare
  <1>5. UNCHANGED <<round_num, attempt, passed, generated_code, result>>
    BY DEF Compare, SkipCompare
  <1>6. round_num \in Rounds /\ Len(transcript) = round_num - 1
    BY <1>4 DEF TInv, Bookkeeping
  <1>7. Len(transcript') = round_num /\ transcript'[round_num].passed = passed
                        /\ transcript'[round_num].acceptable = acceptable'
    BY <1>2, <1>3, <1>6 DEF Rounds
  <1>8. Bookkeeping'
    BY <1>4, <1>5, <1>6, <1>7 DEF TInv, Bookkeeping
  <1> QED BY <1>1, <1>8 DEF TInv

\* The decision at the end of a round.
LEMMA DecideTInv == ASSUME TInv, FailedRound \/ AcceptedRound \/ DegradedRound PROVE TInv'
  <1> USE MaxRoundsAssumption DEF TInv, TypeOK, Bookkeeping, Rounds
  <1>1. CASE FailedRound
    <2>1. [code |-> generated_code, error |-> result.of] \in Failures
      BY <1>1 DEF FailedRound, Failures
    <2>2. failed_history' \in Seq(Failures) /\ Len(failed_history') <= HISTORY_DEPTH
      BY <1>1, <2>1, RememberType DEF FailedRound, HISTORY_DEPTH
    <2> QED BY <1>1, <2>2 DEF FailedRound, NextRound
  <1>2. CASE AcceptedRound
    BY <1>2 DEF AcceptedRound, roundVars
  <1>3. CASE DegradedRound
    <2>1. CASE round_num < MaxRounds
      BY <1>3, <2>1 DEF DegradedRound, NextRound
    <2>2. CASE ~(round_num < MaxRounds)
      <3>1. round_num = MaxRounds /\ round_num' = round_num /\ pc' = "finish"
        BY <1>3, <2>2 DEF DegradedRound, NextRound
      <3>2. TypeOK'
        BY <1>3, <3>1 DEF DegradedRound
      <3>3. Bookkeeping'
        BY <1>3, <3>1 DEF DegradedRound
      <3> QED BY <3>2, <3>3
    <2> QED BY <2>1, <2>2
  <1> QED BY <1>1, <1>2, <1>3

LEMMA NextTInv == TInv /\ [Next]_vars => TInv'
  <1> SUFFICES ASSUME TInv, [Next]_vars PROVE TInv'
    OBVIOUS
  <1>1. CASE Finish
    <2>1. TypeOK'
      BY <1>1, FinishType DEF TInv
    <2>2. Bookkeeping'
      BY <1>1 DEF Finish, Return, TInv, Bookkeeping
    <2> QED BY <2>1, <2>2 DEF TInv
  <1>2. CASE UNCHANGED vars
    BY <1>2 DEF vars, TInv, TypeOK, Bookkeeping
  <1> QED BY <1>1, <1>2, EarlyTInv, JudgeTInv, DecideTInv DEF Next, Done

\* The bookkeeping of the rounds, for every budget and every environment.
THEOREM RoundsAreKept == Spec => []TInv
  BY InitTInv, NextTInv, PTL DEF Spec

\* The values of the loop's variables; the history never outgrows its depth.
THEOREM TypeCorrect == Spec => []TypeOK
  BY RoundsAreKept, PTL DEF TInv

-----------------------------------------------------------------------------
(* The budget of calls: every round that is over used at most              *)
(* LlmMaxRetries + 1 of them, the current one its attempts.                *)

Budget(rounds) == rounds * (LlmMaxRetries + 1)

CallsInv ==
    /\ pc = "llm" => llm_calls <= Budget(round_num - 1) + attempt
    /\ pc # "llm" => llm_calls <= Budget(round_num)

LEMMA BudgetGrows ==
  \A n \in Nat : /\ Budget(n) \in Nat
                 /\ Budget(n + 1) = Budget(n) + LlmMaxRetries + 1
                 /\ \A m \in Nat : n <= m => Budget(n) <= Budget(m)
  <1> SUFFICES ASSUME NEW n \in Nat PROVE
          /\ Budget(n) \in Nat
          /\ Budget(n + 1) = Budget(n) + LlmMaxRetries + 1
          /\ \A m \in Nat : n <= m => Budget(n) <= Budget(m)
    OBVIOUS
  <1>1. Budget(n) \in Nat
    BY LlmMaxRetriesAssumption DEF Budget
  <1>2. Budget(n + 1) = Budget(n) + LlmMaxRetries + 1
    BY LlmMaxRetriesAssumption DEF Budget
  <1>3. ASSUME NEW m \in Nat, n <= m PROVE Budget(n) <= Budget(m)
    <2>1. m - n \in Nat /\ LlmMaxRetries + 1 \in Nat
      BY <1>3, LlmMaxRetriesAssumption
    <2>2. (m - n) * (LlmMaxRetries + 1) \in Nat
      BY <2>1
    <2>3. m * (LlmMaxRetries + 1) = n * (LlmMaxRetries + 1) + (m - n) * (LlmMaxRetries + 1)
      BY <2>1
    <2> QED BY <2>2, <2>3, <1>1 DEF Budget
  <1> QED BY <1>1, <1>2, <1>3

LEMMA InitCalls == Init => CallsInv
  BY BudgetGrows DEF Init, CallsInv

LEMMA NextCalls == TInv /\ CallsInv /\ [Next]_vars => CallsInv'
  <1> SUFFICES ASSUME TInv, CallsInv, [Next]_vars PROVE CallsInv'
    OBVIOUS
  <1> USE DEF CallsInv
  <1>1. /\ round_num \in Nat /\ attempt \in Nat /\ attempt <= LlmMaxRetries /\ llm_calls \in Nat
        /\ pc = "llm" => round_num - 1 \in Nat
    BY MaxRoundsAssumption, LlmMaxRetriesAssumption DEF TInv, TypeOK, Bookkeeping, Rounds
  <1>2. CASE pc = "llm"
    <2>1. Budget(round_num) = Budget(round_num - 1) + LlmMaxRetries + 1
      BY <1>1, <1>2, BudgetGrows
    <2>2. Budget(round_num - 1) \in Nat
      BY <1>1, <1>2, BudgetGrows
    <2>3. CASE LlmAnswers \/ LlmFails
      BY <1>1, <1>2, <2>1, <2>2, <2>3, LlmMaxRetriesAssumption
      DEF LlmAnswers, LlmFails, Return, roundVars
    <2>4. CASE LlmRetry
      BY <1>1, <1>2, <2>1, <2>2, <2>4 DEF LlmRetry, roundVars
    <2>5. CASE UNCHANGED vars
      BY <2>5 DEF vars
    <2> QED BY <1>2, <2>3, <2>4, <2>5
            DEF Next, SetupFails, Setup, Save, SaveFails, Run, RunRaises, ResultsDirRaises,
                Compare, SkipCompare, FailedRound, AcceptedRound, DegradedRound, Finish, Done
  <1>3. CASE pc # "llm"
    <2>1. llm_calls' = llm_calls
      BY <1>3 DEF Next, SetupFails, Setup, LlmAnswers, LlmRetry, LlmFails, Save, SaveFails, Run,
                  RunRaises, ResultsDirRaises, Compare, SkipCompare, FailedRound, AcceptedRound,
                  DegradedRound, Finish, Done, vars, roundVars
    <2>2. \/ round_num' = round_num /\ pc' # "llm"
          \/ round_num' = round_num + 1 /\ pc' = "llm"
      BY <1>3 DEF Next, SetupFails, Setup, LlmAnswers, LlmRetry, LlmFails, Save, SaveFails, Run,
                  RunRaises, ResultsDirRaises, Compare, SkipCompare, FailedRound, AcceptedRound,
                  DegradedRound, NextRound, Finish, Done, vars, roundVars, Return, TInv, Bookkeeping
    <2>3. attempt' \in Nat
      BY NextTInv, LlmMaxRetriesAssumption DEF TInv, TypeOK
    <2>4. llm_calls <= Budget(round_num) /\ Budget(round_num) \in Nat
      BY <1>1, <1>3, BudgetGrows
    <2> QED BY <1>1, <2>1, <2>2, <2>3, <2>4
  <1> QED BY <1>2, <1>3

\* The model is called at most MaxRounds * (LlmMaxRetries + 1) times.
THEOREM CallsWithinBudget == Spec => []CallBudget
  <1>1. TInv /\ CallsInv => CallBudget
    <2> SUFFICES ASSUME TInv, CallsInv PROVE CallBudget
      OBVIOUS
    <2>1. round_num \in Nat /\ round_num <= MaxRounds /\ MaxRounds \in Nat /\ llm_calls \in Nat
          /\ attempt \in Nat /\ attempt <= LlmMaxRetries
      BY MaxRoundsAssumption, LlmMaxRetriesAssumption DEF TInv, TypeOK
    <2>2. Budget(round_num) <= Budget(MaxRounds) /\ Budget(round_num) \in Nat /\ Budget(MaxRounds) \in Nat
      BY <2>1, BudgetGrows
    <2>3. llm_calls <= Budget(round_num)
      <3>1. CASE pc = "llm"
        <4>1. round_num - 1 \in Nat
          BY <3>1, MaxRoundsAssumption DEF TInv, Bookkeeping, Rounds
        <4>2. /\ Budget(round_num) = Budget(round_num - 1) + LlmMaxRetries + 1
              /\ Budget(round_num - 1) \in Nat
          BY <2>1, <4>1, BudgetGrows
        <4> QED BY <2>1, <3>1, <4>2, LlmMaxRetriesAssumption DEF CallsInv
      <3> QED BY <3>1 DEF CallsInv
    <2> QED BY <2>1, <2>2, <2>3 DEF CallBudget, Budget
  <1> QED BY <1>1, InitTInv, NextTInv, InitCalls, NextCalls, PTL DEF Spec

-----------------------------------------------------------------------------
(* The history of failures and the prompts built from it. *)

\* A failure in front: what Remember keeps is again the newest ones.
LEMMA RememberNewest ==
  ASSUME NEW h \in Seq(Failures), Len(h) <= HISTORY_DEPTH, NEW n \in Rounds,
         NEW failures, failures \subseteq 1..(n - 1), AreNewestOf(h, failures)
  PROVE  AreNewestOf(Remember([code |-> n, error |-> n], h), failures \cup {n})
  <1> DEFINE e == [code |-> n, error |-> n]
             s == Remember(e, h)
             f == failures \cup {n}
  <1>1. e \in Failures /\ n \in Nat /\ Len(h) \in Nat
    BY LenProperties, MaxRoundsAssumption DEF Failures, Rounds
  <1>2. /\ s \in Seq(Failures) /\ s[1] = e
        /\ Len(s) = IF Len(h) < HISTORY_DEPTH THEN Len(h) + 1 ELSE HISTORY_DEPTH
        /\ \A i \in 2..Len(s) : i - 1 \in 1..Len(h) /\ s[i] = h[i - 1]
    BY <1>1, RememberType
  <1> HIDE DEF s
  <1>3. ASSUME NEW i \in 1..Len(s)
        PROVE  /\ s[i].code \in f
               /\ s[i].error = s[i].code
               /\ \A r \in f : r > s[i].code => \E j \in 1..(i - 1) : s[j].code = r
    <2>1. CASE i = 1
      BY <1>1, <1>2, <2>1
    <2>2. CASE i # 1
      <3>1. i \in 2..Len(s) /\ i - 1 \in 1..Len(h) /\ s[i] = h[i - 1] /\ Len(s) \in Nat
        BY <1>1, <1>2, <2>2, LenProperties
      <3>2. s[i].code \in failures /\ s[i].error = s[i].code
        BY <3>1 DEF AreNewestOf
      <3>3. ASSUME NEW r \in f, r > s[i].code PROVE \E j \in 1..(i - 1) : s[j].code = r
        <4>1. CASE r = n
          BY <1>2, <2>2, <3>1, <4>1
        <4>2. CASE r # n
          <5>1. PICK j \in 1..((i - 1) - 1) : h[j].code = r
            BY <3>1, <3>3, <4>2 DEF AreNewestOf
          <5>2. j + 1 \in 2..Len(s) /\ j + 1 \in 1..(i - 1)
            BY <3>1, <5>1
          <5>3. s[j + 1] = h[j]
            BY <1>2, <5>1, <5>2
          <5> QED BY <5>1, <5>2, <5>3
        <4> QED BY <4>1, <4>2
      <3> QED BY <3>2, <3>3
    <2> QED BY <2>1, <2>2
  <1>4. ASSUME Len(s) < HISTORY_DEPTH, NEW r \in f PROVE \E i \in 1..Len(s) : s[i].code = r
    <2>1. Len(s) = Len(h) + 1 /\ Len(h) < HISTORY_DEPTH
      BY <1>1, <1>2, <1>4
    <2>2. CASE r = n
      BY <1>1, <1>2, <2>1, <2>2
    <2>3. CASE r # n
      <3>1. PICK i \in 1..Len(h) : h[i].code = r
        BY <1>4, <2>1, <2>3 DEF AreNewestOf
      <3>2. i + 1 \in 2..Len(s) /\ i + 1 \in 1..Len(s) /\ (i + 1) - 1 = i
        BY <1>1, <2>1, <3>1
      <3>3. s[i + 1] = h[i]
        BY <1>2, <3>2
      <3> QED BY <3>1, <3>2, <3>3
    <2> QED BY <2>2, <2>3
  <1> QED BY <1>3, <1>4 DEF AreNewestOf, s

\* The prior attempts of a prompt are the history's entries, labelled.
LEMMA PriorNewest ==
  ASSUME NEW h \in Seq(Failures), NEW n \in Rounds, NEW c, NEW e, NEW failures,
         AreNewestOf(h, failures)
  PROVE  AreNewestOf(FixPrompt(c, e, n, h).prior, failures)
  <1> DEFINE entry(i) == [code |-> h[i].code, error |-> h[i].error, label |-> n - i]
             prior == [i \in 1..Len(h) |-> entry(i)]
             S == [code : Rounds, error : Rounds, label : Int]
  <1>1. Len(h) \in Nat /\ \A i \in 1..Len(h) : h[i] \in Failures
    BY LenProperties, ElementOfSeq
  <1>2. \A i \in 1..Len(h) : entry(i) \in S
    BY <1>1 DEF Failures, Rounds
  <1>3. prior \in [1..Len(h) -> S]
    BY <1>2
  <1>4. Len(prior) = Len(h)
    BY <1>1, <1>3, FunctionIsSeq
  <1>5. \A i \in 1..Len(h) : prior[i].code = h[i].code /\ prior[i].error = h[i].error
    OBVIOUS
  <1>6. FixPrompt(c, e, n, h).prior = prior
    BY DEF FixPrompt
  <1> HIDE DEF prior
  <1>7. AreNewestOf(prior, failures)
    BY <1>1, <1>4, <1>5 DEF AreNewestOf
  <1> QED BY <1>6, <1>7

\* Up to which round the history knows the failures: while a round is being
\* decided its own failure is not in it.
HistoryEnd == IF pc = "decide" THEN round_num - 1 ELSE Len(transcript)

HInv == AreNewestOf(failed_history, FailedUpTo(HistoryEnd)) /\ FixPromptFaithful

\* A new line does not change which of the earlier rounds failed.
LEMMA FailedStable ==
  ASSUME TypeOK, NEW l \in Labels \cup {"none"}, NEW b \in BOOLEAN, Report(l, b)
  PROVE  /\ \A n \in Int : n <= Len(transcript) =>
              {r \in 1..n : r \in DOMAIN transcript' /\ ~transcript'[r].passed} = FailedUpTo(n)
         /\ FailedUpTo(Len(transcript)) \subseteq FailedUpTo(Len(transcript))'
  <1>1. /\ transcript' \in Seq(TranscriptLines) /\ Len(transcript') = Len(transcript) + 1
        /\ \A i \in 1..Len(transcript) : transcript'[i] = transcript[i]
    BY ReportAppends
  <1>2. /\ DOMAIN transcript = 1..Len(transcript) /\ Len(transcript) \in Nat
        /\ DOMAIN transcript' = 1..Len(transcript')
    BY <1>1, LenProperties DEF TypeOK
  <1> QED BY <1>1, <1>2 DEF FailedUpTo

LEMMA InitHistory == Init => HInv
  BY EmptySeq DEF Init, HInv, AreNewestOf, FailedUpTo, HistoryEnd, FixPromptFaithful, InitialPrompt

\* Judging a round: the history lags behind by that round until it is decided.
LEMMA JudgeHistory == ASSUME TInv, HInv, Compare \/ SkipCompare PROVE HInv'
  <1>1. PICK l \in Labels \cup {"none"}, b \in BOOLEAN : Report(l, b)
    <2>1. CASE Compare
      BY <2>1, CompareReports DEF TInv
    <2>2. CASE SkipCompare
      BY <2>2 DEF SkipCompare, TInv, TypeOK
    <2> QED BY <2>1, <2>2
  <1>2. /\ pc = "results" /\ pc' = "decide"
        /\ UNCHANGED <<round_num, failed_history, current_prompt>>
    BY DEF Compare, SkipCompare
  <1>3. /\ round_num \in Rounds /\ round_num \in Nat /\ Len(transcript) = round_num - 1
        /\ HistoryEnd = Len(transcript) /\ HistoryEnd' = Len(transcript)
    BY <1>2, MaxRoundsAssumption DEF TInv, Bookkeeping, HistoryEnd, Rounds
  <1>4. /\ \A n \in Int : n <= Len(transcript) =>
              {r \in 1..n : r \in DOMAIN transcript' /\ ~transcript'[r].passed} = FailedUpTo(n)
        /\ FailedUpTo(Len(transcript)) \subseteq FailedUpTo(Len(transcript))'
    BY <1>1, FailedStable DEF TInv
  <1>5. FailedUpTo(HistoryEnd)' = FailedUpTo(HistoryEnd)
    BY <1>3, <1>4 DEF FailedUpTo
  <1>6. AreNewestOf(failed_history, FailedUpTo(HistoryEnd))'
    BY <1>2, <1>5 DEF HInv, AreNewestOf
  <1>7. FixPromptFaithful'
    <2> SUFFICES ASSUME current_prompt.kind = "fix" PROVE FixPromptFaithful'
      BY <1>2 DEF FixPromptFaithful
    <2>1. /\ current_prompt.error = current_prompt.code
          /\ current_prompt.code \in FailedUpTo(Len(transcript))
          /\ AreNewestOf(current_prompt.prior, FailedUpTo(current_prompt.code - 1))
      BY DEF HInv, FixPromptFaithful
    <2>2. current_prompt.code \in 1..Len(transcript)
      BY <2>1 DEF FailedUpTo
    <2>3. FailedUpTo(current_prompt.code - 1)' = FailedUpTo(current_prompt.code - 1)
      BY <1>2, <1>3, <1>4, <2>2 DEF FailedUpTo
    <2>4. AreNewestOf(current_prompt.prior, FailedUpTo(current_prompt.code - 1))'
      BY <1>2, <2>1, <2>3 DEF AreNewestOf
    <2> QED BY <1>2, <1>4, <2>1, <2>4 DEF FixPromptFaithful
  <1> QED BY <1>6, <1>7 DEF HInv

\* A failed round enters the history, and the prompt shows the history before it.
LEMMA FailedRoundHistory == ASSUME TInv, HInv, FailedRound PROVE HInv'
  <1> DEFINE n == round_num
  <1>1. /\ pc = "decide" /\ n \in Rounds /\ n \in Nat /\ n >= 1 /\ Len(transcript) = n
        /\ ~transcript[n].passed
        /\ generated_code = n /\ result.of = n
        /\ transcript' = transcript
        /\ failed_history' = Remember([code |-> n, error |-> n], failed_history)
    BY MaxRoundsAssumption DEF FailedRound, TInv, Bookkeeping, Rounds
  <1>2. /\ failed_history \in Seq(Failures) /\ Len(failed_history) <= HISTORY_DEPTH
        /\ DOMAIN transcript = 1..n
    BY <1>1, LenProperties DEF TInv, TypeOK
  <1>3. AreNewestOf(failed_history, FailedUpTo(n - 1))
    BY <1>1 DEF HInv, HistoryEnd
  <1>4. FailedUpTo(n - 1) \subseteq 1..(n - 1)
    BY DEF FailedUpTo
  <1>5. FailedUpTo(n) = FailedUpTo(n - 1) \cup {n}
    <2>1. \A r : r \in 1..n <=> r \in 1..(n - 1) \/ r = n
      BY <1>1
    <2>2. n \in DOMAIN transcript
      BY <1>1, <1>2
    <2> QED BY <1>1, <2>1, <2>2 DEF FailedUpTo
  <1>6. AreNewestOf(failed_history', FailedUpTo(n))
    BY <1>1, <1>2, <1>3, <1>4, <1>5, RememberNewest
  <1>7. pc' # "decide" /\ HistoryEnd' = n
    BY <1>1 DEF FailedRound, NextRound, HistoryEnd
  <1>8. FailedUpTo(HistoryEnd)' = FailedUpTo(n)
    BY <1>1, <1>7 DEF FailedUpTo
  <1>9. AreNewestOf(failed_history, FailedUpTo(HistoryEnd))'
    BY <1>6, <1>8 DEF AreNewestOf
  <1>10. CASE round_num < MaxRounds
    <2>1. current_prompt' = FixPrompt(n, n, n, failed_history)
      BY <1>1, <1>10 DEF FailedRound, NextRound
    <2>2. current_prompt'.code = n /\ current_prompt'.error = n
      BY <2>1 DEF FixPrompt
    <2>3. AreNewestOf(current_prompt'.prior, FailedUpTo(n - 1))
      BY <1>1, <1>2, <1>3, <2>1, PriorNewest
    <2>4. FailedUpTo(current_prompt.code - 1)' = FailedUpTo(n - 1)
      BY <1>1, <2>2 DEF FailedUpTo
    <2>5. AreNewestOf(current_prompt.prior, FailedUpTo(current_prompt.code - 1))'
      BY <2>3, <2>4 DEF AreNewestOf
    <2>6. n \in FailedUpTo(Len(transcript))'
      <3>1. Len(transcript)' = n /\ n \in 1..n
        BY <1>1
      <3>2. n \in FailedUpTo(n)
        BY <1>5
      <3> QED BY <1>1, <3>1, <3>2 DEF FailedUpTo
    <2> QED BY <1>1, <1>9, <2>2, <2>5, <2>6 DEF HInv, FixPromptFaithful
  <1>11. CASE ~(round_num < MaxRounds)
    <2>1. current_prompt' = current_prompt /\ pc' # "llm"
      BY <1>11 DEF FailedRound, NextRound
    <2>2. FixPromptFaithful'
      BY <1>1, <2>1 DEF HInv, FixPromptFaithful, FailedUpTo, AreNewestOf
    <2> QED BY <1>9, <2>2 DEF HInv
  <1> QED BY <1>10, <1>11

\* A round that passed adds no failure.
LEMMA PassedRoundHistory == ASSUME TInv, HInv, AcceptedRound \/ DegradedRound PROVE HInv'
  <1> DEFINE n == round_num
  <1>1. /\ pc = "decide" /\ pc' # "decide" /\ n \in Nat /\ Len(transcript) = n
        /\ transcript[n].passed
        /\ transcript' = transcript /\ failed_history' = failed_history
    BY MaxRoundsAssumption
    DEF AcceptedRound, DegradedRound, NextRound, roundVars, TInv, TypeOK, Bookkeeping, Rounds
  <1>2. FailedUpTo(n) = FailedUpTo(n - 1)
    BY <1>1 DEF FailedUpTo
  <1>3. FailedUpTo(HistoryEnd)' = FailedUpTo(HistoryEnd)
    BY <1>1, <1>2 DEF HistoryEnd, FailedUpTo
  <1>4. AreNewestOf(failed_history, FailedUpTo(HistoryEnd))'
    BY <1>1, <1>3 DEF HInv, AreNewestOf
  <1>5. \/ current_prompt' = current_prompt /\ pc' # "llm"
        \/ current_prompt' = PerfFixPrompt(generated_code)
    BY DEF AcceptedRound, DegradedRound, NextRound, roundVars
  <1>6. CASE current_prompt' = PerfFixPrompt(generated_code)
    BY <1>4, <1>6 DEF PerfFixPrompt, HInv, FixPromptFaithful
  <1>7. CASE current_prompt' = current_prompt /\ pc' # "llm"
    <2>1. FixPromptFaithful'
      BY <1>1, <1>7 DEF HInv, FixPromptFaithful, FailedUpTo, AreNewestOf
    <2> QED BY <1>4, <2>1 DEF HInv
  <1> QED BY <1>5, <1>6, <1>7

\* No other step touches transcript, history or prompt, or enters "llm" with a
\* fix prompt; Setup enters it with the initial prompt.
LEMMA OtherHistory ==
  ASSUME TInv, HInv,
         \/ SetupFails \/ Setup \/ LlmAnswers \/ LlmRetry \/ LlmFails \/ Save \/ SaveFails
         \/ Run \/ RunRaises \/ ResultsDirRaises \/ Finish \/ UNCHANGED vars
  PROVE  HInv'
  <1>1. UNCHANGED <<transcript, failed_history, current_prompt>>
    BY DEF SetupFails, Setup, LlmAnswers, LlmRetry, LlmFails, Save, SaveFails, Run, RunRaises,
           ResultsDirRaises, Finish, vars, roundVars
  <1>2. HistoryEnd' = HistoryEnd
    BY <1>1 DEF SetupFails, Setup, LlmAnswers, LlmRetry, LlmFails, Save, SaveFails, Run, RunRaises,
           ResultsDirRaises, Finish, vars, roundVars, Return, HistoryEnd
  <1>3. AreNewestOf(failed_history, FailedUpTo(HistoryEnd))'
    BY <1>1, <1>2 DEF HInv, AreNewestOf, FailedUpTo
  <1>4. pc' = "llm" => pc = "llm" \/ Len(transcript) = 0
    <2>1. CASE Run
      BY <2>1 DEF Run
    <2>2. CASE ~Run
      BY <2>2 DEF SetupFails, Setup, LlmAnswers, LlmRetry, LlmFails, Save, SaveFails, RunRaises,
             ResultsDirRaises, Finish, vars, Return, TInv, Bookkeeping
    <2> QED BY <2>1, <2>2
  <1>5. FixPromptFaithful'
    <2>1. SUFFICES ASSUME current_prompt.kind = "fix" PROVE FixPromptFaithful'
      BY <1>1 DEF FixPromptFaithful
    <2>2. /\ current_prompt.error = current_prompt.code
          /\ current_prompt.code \in FailedUpTo(Len(transcript))
          /\ pc = "llm" => current_prompt.code = Len(transcript)
          /\ AreNewestOf(current_prompt.prior, FailedUpTo(current_prompt.code - 1))
      BY <2>1 DEF HInv, FixPromptFaithful
    <2>3. Len(transcript) # 0
      BY <2>2 DEF FailedUpTo
    <2>4. FailedUpTo(Len(transcript))' = FailedUpTo(Len(transcript))
      BY <1>1 DEF FailedUpTo
    <2>5. AreNewestOf(current_prompt.prior, FailedUpTo(current_prompt.code - 1))'
      BY <1>1, <2>2 DEF AreNewestOf, FailedUpTo
    <2> QED BY <1>1, <1>4, <2>2, <2>3, <2>4, <2>5 DEF FixPromptFaithful
  <1> QED BY <1>3, <1>5 DEF HInv

LEMMA NextHistory == TInv /\ HInv /\ [Next]_vars => HInv'
  BY JudgeHistory, FailedRoundHistory, PassedRoundHistory, OtherHistory DEF Next, Done

\* Every retry prompt shows the newest failures, each with its own error.
THEOREM PromptsAreFaithful == Spec => []FixPromptFaithful
  <1>1. HInv => FixPromptFaithful
    BY DEF HInv
  <1> QED BY <1>1, InitTInv, NextTInv, InitHistory, NextHistory, PTL DEF Spec

-----------------------------------------------------------------------------
(* Why a round is followed by another, and which summary is decorated. *)

Lost == {"degraded", "severely_degraded", "worse", "no_common_metrics"}

\* A passed round that is not accepted was measured as slower; and only a round
\* that is not accepted has a successor.
LinesInv ==
    \A r \in 1..Len(transcript) :
        /\ transcript[r].acceptable => transcript[r].passed
        /\ transcript[r].passed /\ ~transcript[r].acceptable => transcript[r].performance \in Lost
        /\ r < Len(transcript) \/ pc \in {"llm", "save", "run", "results"} =>
              ~transcript[r].acceptable

\* A verdict that does not end the loop is a lost comparison: the list of labels
\* in generate_eval_one and the vocabulary of perf_verdict agree.
LEMMA UnacceptableIsLost ==
  \A l \in Labels \cup {"none"} : ~AcceptableLabel(l) => l \in Lost
  BY LabelsAssumption DEF AcceptableLabel, Lost, ALL_VERDICTS, Comparisons, NonComparisons, LegacyLabels

\* The same list and ACCEPTABLE_VERDICTS, the copy of it in perf_verdict.py.
THEOREM LoopAgreesWithVerdicts ==
  \A v \in ALL_VERDICTS : AcceptableLabel(v) <=> v \in ACCEPTABLE_VERDICTS
  BY DEF AcceptableLabel, ACCEPTABLE_VERDICTS, ALL_VERDICTS, Comparisons, NonComparisons

LEMMA JudgeLines == ASSUME TInv, LinesInv, Compare \/ SkipCompare PROVE LinesInv'
  <1>1. PICK l \in Labels \cup {"none"}, b \in BOOLEAN :
            /\ Report(l, b)
            /\ b => passed
            /\ passed /\ ~b => l \in Lost
    <2>1. CASE Compare
      <3>1. last_summary'.performance \in Labels \cup {"none"} /\ acceptable' \in BOOLEAN
        BY <2>1, CompareType DEF TInv, TypeOK, Summaries
      <3>2. Report(last_summary'.performance, acceptable') /\ passed
        BY <2>1 DEF Compare
      <3>3. ~acceptable' => ~AcceptableLabel(last_summary'.performance)
        BY <2>1 DEF Compare
      <3> QED BY <3>1, <3>2, <3>3, UnacceptableIsLost
    <2>2. CASE SkipCompare
      BY <2>2 DEF SkipCompare, TInv, TypeOK
    <2> QED BY <2>1, <2>2
  <1>2. /\ Len(transcript') = Len(transcript) + 1 /\ Len(transcript) \in Nat
        /\ transcript'[Len(transcript) + 1] =
              [passed |-> passed, performance |-> l, acceptable |-> b]
        /\ \A i \in 1..Len(transcript) : transcript'[i] = transcript[i]
    BY <1>1, ReportAppends, LenProperties DEF TInv, TypeOK
  <1>3. pc = "results" /\ pc' = "decide"
    BY DEF Compare, SkipCompare
  <1>4. ASSUME NEW r \in 1..Len(transcript')
        PROVE  /\ transcript'[r].acceptable => transcript'[r].passed
               /\ transcript'[r].passed /\ ~transcript'[r].acceptable =>
                     transcript'[r].performance \in Lost
               /\ r < Len(transcript') => ~transcript'[r].acceptable
    <2>1. CASE r = Len(transcript) + 1
      BY <1>1, <1>2, <2>1
    <2>2. CASE r # Len(transcript) + 1
      <3>1. r \in 1..Len(transcript) /\ transcript'[r] = transcript[r]
        BY <1>2, <2>2
      <3> QED BY <1>3, <3>1 DEF LinesInv
    <2> QED BY <2>1, <2>2
  <1> QED BY <1>3, <1>4 DEF LinesInv

LEMMA NextLines == TInv /\ LinesInv /\ [Next]_vars => LinesInv'
  <1> SUFFICES ASSUME TInv, LinesInv, [Next]_vars PROVE LinesInv'
    OBVIOUS
  <1>1. CASE Compare \/ SkipCompare
    BY <1>1, JudgeLines
  <1>2. CASE FailedRound \/ DegradedRound
    <2>1. /\ transcript' = transcript /\ ~transcript[Len(transcript)].acceptable
          /\ pc = "decide" /\ Len(transcript) \in Nat
      <3>1. pc = "decide" /\ Len(transcript) = round_num /\ round_num \in Nat
            /\ round_num \in 1..Len(transcript)
            /\ transcript[round_num].passed = passed
            /\ transcript[round_num].acceptable = acceptable
        BY <1>2, MaxRoundsAssumption DEF FailedRound, DegradedRound, TInv, Bookkeeping, Rounds
      <3> QED BY <1>2, <3>1 DEF FailedRound, DegradedRound, LinesInv
    <2>2. \A r \in 1..Len(transcript) : r < Len(transcript) \/ r = Len(transcript)
      BY <2>1
    <2> QED BY <2>1, <2>2 DEF LinesInv
  <1>3. CASE /\ ~(Compare \/ SkipCompare \/ FailedRound \/ DegradedRound)
    <2>1. transcript' = transcript
      BY <1>3 DEF Next, SetupFails, Setup, LlmAnswers, LlmRetry, LlmFails, Save, SaveFails, Run,
                  RunRaises, ResultsDirRaises, AcceptedRound, Finish, Done, vars, roundVars
    <2>2. pc' \in {"llm", "save", "run", "results"} =>
              pc \in {"llm", "save", "run", "results"} \/ Len(transcript) = 0
      BY <1>3 DEF Next, SetupFails, Setup, LlmAnswers, LlmRetry, LlmFails, Save, SaveFails, Run,
                  RunRaises, ResultsDirRaises, AcceptedRound, Finish, Done, vars, roundVars,
                  Return, TInv, Bookkeeping
    <2>3. Len(transcript) = 0 => 1..Len(transcript) = {}
      OBVIOUS
    <2> QED BY <2>1, <2>2, <2>3 DEF LinesInv
  <1> QED BY <1>1, <1>2, <1>3

LEMMA InitLines == Init => LinesInv
  BY EmptySeq DEF Init, LinesInv

\* No round follows one that was good enough.
THEOREM RoundsAreNeeded == Spec => []NoNeedlessRound
  <1>1. TInv /\ LinesInv => NoNeedlessRound
    <2> SUFFICES ASSUME TInv, LinesInv, NEW r \in DOMAIN transcript
                 PROVE  \/ r = Len(transcript) /\ pc \notin {"llm", "save", "run", "results"}
                        \/ ~transcript[r].passed
                        \/ transcript[r].performance \in Lost
      BY DEF NoNeedlessRound, Lost
    <2>1. r \in 1..Len(transcript) /\ Len(transcript) \in Nat
      BY LenProperties DEF TInv, TypeOK
    <2> QED BY <2>1 DEF LinesInv
  <1> QED BY <1>1, InitTInv, NextTInv, InitLines, NextLines, PTL DEF Spec

-----------------------------------------------------------------------------
\* Summaries exist up to the last compared round, which passed; the summary and
\* the transcript agree on its verdict; nothing is decorated before the end.
StampInv ==
    /\ last_compared_dir <= Len(transcript)
    /\ last_compared_dir # 0 =>
          /\ compare_enabled
          /\ transcript[last_compared_dir].passed
          /\ summaries[last_compared_dir].state = "written" =>
                transcript[last_compared_dir].performance = summaries[last_compared_dir].performance
    /\ pc \in {"decide", "finish"} /\ passed /\ compare_enabled => last_compared_dir = round_num
    /\ \A q \in Rounds : q > last_compared_dir => summaries[q].state = "absent"
    /\ pc # "done" => \A q \in Rounds : summaries[q].state # "stamped"

SInv == LinesInv /\ StampInv /\ StampNamesItsRound

LEMMA InitStamp == Init => SInv
  <1> SUFFICES ASSUME Init PROVE SInv
    OBVIOUS
  <1>1. \A q \in Rounds : summaries[q].state = "absent"
    BY DEF Init, NoSummary
  <1> QED BY <1>1, EmptySeq, InitLines DEF Init, SInv, StampInv, StampNamesItsRound

LEMMA CompareStamp == ASSUME TInv, SInv, Compare PROVE StampInv' /\ StampNamesItsRound'
  <1>1. PICK s \in SummariesLeft :
            /\ summaries' = [summaries EXCEPT ![round_num] = s]
            /\ last_summary' = IF s.state = "written" THEN s ELSE NoSummary
    BY DEF Compare
  <1>2. /\ round_num \in Rounds /\ round_num \in Nat /\ Len(transcript) = round_num - 1
        /\ last_compared_dir \in Nat /\ last_compared_dir <= Len(transcript)
        /\ pc = "results" /\ pc' = "decide" /\ passed /\ compare_enabled
        /\ UNCHANGED <<round_num, compare_enabled, passed>>
        /\ last_compared_dir' = round_num
    BY MaxRoundsAssumption DEF Compare, TInv, TypeOK, Bookkeeping, SInv, StampInv, Rounds
  <1>3. /\ Len(transcript') = round_num
        /\ transcript'[round_num].passed
        /\ transcript'[round_num].performance = last_summary'.performance
    <2>1. last_summary'.performance \in Labels \cup {"none"} /\ acceptable' \in BOOLEAN
      BY CompareType DEF TInv, TypeOK, Summaries
    <2>2. Report(last_summary'.performance, acceptable')
      BY DEF Compare
    <2>3. /\ Len(transcript') = Len(transcript) + 1
          /\ transcript'[Len(transcript) + 1] = [passed |-> passed,
                       performance |-> last_summary'.performance, acceptable |-> acceptable']
      BY <2>1, <2>2, ReportAppends DEF TInv
    <2>4. Len(transcript) + 1 = round_num
      BY <1>2
    <2>5. transcript'[round_num] = [passed |-> passed,
                       performance |-> last_summary'.performance, acceptable |-> acceptable']
      BY <2>3, <2>4
    <2> QED BY <1>2, <2>3, <2>4, <2>5
  <1>4. s.state # "stamped"
    BY <1>1 DEF SummariesLeft, NoSummary, Truncated, Written
  <1>5. summaries'[round_num] = s /\ \A q \in Rounds \ {round_num} : summaries'[q] = summaries[q]
    BY <1>1, <1>2 DEF TInv, TypeOK
  <1>6. \A q \in Rounds : summaries'[q].state # "stamped"
    BY <1>2, <1>4, <1>5 DEF SInv, StampInv
  <1>7. \A q \in Rounds : q > round_num => summaries'[q].state = "absent"
    BY <1>2, <1>5, MaxRoundsAssumption DEF SInv, StampInv, Rounds
  <1>8. StampInv'
    BY <1>1, <1>2, <1>3, <1>5, <1>6, <1>7 DEF StampInv
  <1> QED BY <1>6, <1>8 DEF StampNamesItsRound

\* A failed round, or one without a reference: no summary, and the line it adds
\* is not the last compared one.
LEMMA SkipCompareStamp == ASSUME TInv, SInv, SkipCompare PROVE StampInv' /\ StampNamesItsRound'
  <1>1. /\ round_num \in Nat /\ Len(transcript) = round_num - 1
        /\ last_compared_dir \in Nat /\ last_compared_dir <= Len(transcript)
        /\ pc = "results" /\ pc' = "decide" /\ ~(passed /\ compare_enabled)
        /\ UNCHANGED <<round_num, compare_enabled, passed, last_compared_dir, summaries>>
    BY MaxRoundsAssumption DEF SkipCompare, TInv, TypeOK, Bookkeeping, SInv, StampInv, Rounds
  <1>2. /\ Len(transcript') = round_num
        /\ \A i \in 1..Len(transcript) : transcript'[i] = transcript[i]
    <2>1. Report("none", passed) /\ passed \in BOOLEAN
      BY DEF SkipCompare, TInv, TypeOK
    <2>2. "none" \in Labels \cup {"none"}
      OBVIOUS
    <2>3. /\ Len(transcript') = Len(transcript) + 1
          /\ \A i \in 1..Len(transcript) : transcript'[i] = transcript[i]
      BY <2>1, <2>2, ReportAppends DEF TInv
    <2>4. Len(transcript) + 1 = round_num
      BY <1>1
    <2> QED BY <2>3, <2>4
  <1>3. last_compared_dir # 0 => transcript'[last_compared_dir] = transcript[last_compared_dir]
    BY <1>1, <1>2
  <1>4. \A q \in Rounds : summaries[q].state # "stamped"
    BY <1>1 DEF SInv, StampInv
  <1>5. StampInv'
    BY <1>1, <1>2, <1>3 DEF SInv, StampInv
  <1> QED BY <1>1, <1>4, <1>5 DEF StampNamesItsRound

\* The decoration: the summary decorated is the last compared round's.  If the
\* last round passed it is that round; if it failed, the compared round was
\* followed by another, so it was measured as slower and claims no improvement.
LEMMA FinishStamp == ASSUME TInv, SInv, Finish PROVE StampInv' /\ StampNamesItsRound'
  <1> DEFINE d == last_compared_dir
  <1>1. /\ pc = "finish" /\ pc' = "done" /\ round_num \in Nat /\ Len(transcript) = round_num
        /\ d \in Nat /\ d <= round_num /\ round_num \in Rounds
        /\ transcript[round_num].passed = passed
        /\ UNCHANGED <<round_num, compare_enabled, passed, last_compared_dir, transcript>>
    BY MaxRoundsAssumption DEF Finish, Return, TInv, TypeOK, Bookkeeping, SInv, StampInv, Rounds
  <1>2. \A q \in Rounds : summaries[q].state # "stamped"
    BY <1>1 DEF SInv, StampInv
  <1>3. CASE UNCHANGED summaries
    BY <1>1, <1>2, <1>3 DEF SInv, StampInv, StampNamesItsRound
  <1>4. ASSUME d # 0, NEW s, summaries' = [summaries EXCEPT ![d] = s]
        PROVE  /\ d \in Rounds
               /\ summaries'[d] = s /\ \A q \in Rounds \ {d} : summaries'[q] = summaries[q]
               /\ \A q \in Rounds : q > d => q # d /\ summaries'[q].state = "absent"
    <2>1. d \in Rounds
      BY <1>1, <1>4, MaxRoundsAssumption DEF Rounds
    <2>2. summaries'[d] = s /\ \A q \in Rounds \ {d} : summaries'[q] = summaries[q]
      BY <1>4, <2>1 DEF TInv, TypeOK
    <2>3. \A q \in Rounds : q > d => q # d
      BY <1>1, MaxRoundsAssumption DEF Rounds
    <2> QED BY <2>1, <2>2, <2>3 DEF SInv, StampInv
  <1>5. CASE d # 0 /\ summaries' = [summaries EXCEPT ![d] = Truncated]
    <2>1. Truncated.state = "truncated"
      BY DEF Truncated, NoSummary
    <2> QED BY <1>1, <1>2, <1>4, <1>5, <2>1 DEF SInv, StampInv, StampNamesItsRound
  <1>6. CASE /\ d # 0 /\ summaries[d].state = "written"
             /\ summaries' = [summaries EXCEPT ![d] = Stamped(summaries[d])]
    <2> DEFINE s == Stamped(summaries[d])
    <2>1. /\ d \in Rounds /\ summaries'[d] = s
          /\ \A q \in Rounds \ {d} : summaries'[q] = summaries[q]
          /\ \A q \in Rounds : q > d => q # d /\ summaries'[q].state = "absent"
      BY <1>4, <1>6
    <2>2. /\ s.state = "stamped"
          /\ s.pass_iteration = IF passed THEN round_num ELSE 0
          /\ s.improvement_iteration =
                IF summaries[d].performance \in {"better", "improved"} THEN round_num ELSE 0
      <3>1. summaries[d] \in Summaries
        BY <2>1 DEF TInv, TypeOK
      <3> QED BY <3>1 DEF Stamped, Summaries
    <2>3. /\ compare_enabled /\ transcript[d].passed
          /\ transcript[d].performance = summaries[d].performance
      BY <1>6 DEF SInv, StampInv
    <2>4. passed => d = round_num
      BY <1>1, <2>3 DEF SInv, StampInv
    <2>5. ~passed => summaries[d].performance \in Lost
      <3>1. ~passed => d # round_num
        BY <1>1, <2>3
      <3>2. ~passed => d \in 1..Len(transcript) /\ d < Len(transcript)
        BY <1>1, <1>6, <3>1
      <3> QED BY <2>3, <3>2 DEF SInv, LinesInv
    <2> HIDE DEF s
    <2>6. /\ s.pass_iteration \in {0, d}
          /\ s.improvement_iteration \in {0, d}
          /\ s.improvement_iteration = d => s.pass_iteration = d /\ transcript[d].passed
      BY <1>1, <1>6, <2>2, <2>3, <2>4, <2>5 DEF Lost
    <2>7. StampNamesItsRound'
      BY <1>1, <1>2, <2>1, <2>6 DEF StampNamesItsRound
    <2>8. StampInv'
      BY <1>1, <2>1, <2>2, <2>3 DEF SInv, StampInv
    <2> QED BY <2>7, <2>8
  <1> QED BY <1>3, <1>5, <1>6 DEF Finish

\* No other step changes a summary, the transcript or what is compared.
LEMMA OtherStamp ==
  ASSUME TInv, SInv, [Next]_vars, ~(Compare \/ SkipCompare \/ Finish)
  PROVE  StampInv' /\ StampNamesItsRound'
  <1>1. /\ UNCHANGED <<transcript, summaries, last_compared_dir>>
        /\ compare_enabled' = compare_enabled \/ last_compared_dir = 0
    <2>1. CASE Setup
      <3>1. Len(transcript) = 0 /\ last_compared_dir \in 0..MaxRounds
        BY <2>1 DEF Setup, TInv, TypeOK, Bookkeeping
      <3>2. last_compared_dir = 0
        BY <3>1, MaxRoundsAssumption DEF SInv, StampInv
      <3> QED BY <2>1, <3>2 DEF Setup
    <2>2. CASE ~Setup
      BY <2>2 DEF Next, SetupFails, LlmAnswers, LlmRetry, LlmFails, Save, SaveFails, Run, RunRaises,
             ResultsDirRaises, FailedRound, AcceptedRound, DegradedRound, NextRound, Done, vars,
             roundVars
    <2> QED BY <2>1, <2>2
  <1>2. /\ pc' \in {"decide", "finish"} => /\ pc \in {"decide", "finish"}
                                           /\ UNCHANGED <<round_num, passed, compare_enabled>>
        /\ pc = "done" => pc' = "done"
    BY DEF Next, SetupFails, Setup, LlmAnswers, LlmRetry, LlmFails, Save, SaveFails, Run, RunRaises,
           ResultsDirRaises, FailedRound, AcceptedRound, DegradedRound, NextRound, Done, vars,
           roundVars, Return
  <1>3. StampInv'
    BY <1>1, <1>2 DEF SInv, StampInv
  <1>4. StampNamesItsRound'
    BY <1>1 DEF SInv, StampNamesItsRound
  <1> QED BY <1>3, <1>4

LEMMA NextStamp == TInv /\ SInv /\ [Next]_vars => SInv'
  BY NextLines, CompareStamp, SkipCompareStamp, FinishStamp, OtherStamp DEF SInv

\* The decorated summary is the newest, and its iterations are its own round.
THEOREM StampsAreTrue == Spec => []StampNamesItsRound
  <1>1. SInv => StampNamesItsRound
    BY DEF SInv
  <1> QED BY <1>1, InitTInv, NextTInv, InitStamp, NextStamp, PTL DEF Spec

-----------------------------------------------------------------------------
(* The loop implements EvalContract: every step of a round is an attempt,  *)
(* an abort, an answer, or nothing the caller could notice.                *)
(*                                                                         *)
(* A judged round is an attempt, so "attempts" is the length of the        *)
(* transcript and "last" what its last line says.  LinesInv is what makes  *)
(* it work: it knows that no round that is still under way follows an      *)
(* accepted one, which Attempt and Abort ask for.                          *)

\* What the caller sees of the loop.
attempts == Len(transcript)
last == IF transcript = <<>> THEN "none" ELSE Judged(transcript[Len(transcript)])
answer == CASE returned.how = "running" -> "none"
            [] returned.how \in {"error", "raised"} -> "error"
            [] returned.how = "result" -> IF returned.passed THEN "pass" ELSE "fail"

callersView == <<attempts, last, answer>>

\* The safety part of the contract.
ContractSafety == Contract!Init /\ [][Contract!Next]_callersView

\* Nothing is returned before the end.
RInv == TInv /\ LinesInv /\ (pc # "done" => returned = NoReturn)

LEMMA InitRInv == Init => RInv
  BY InitTInv, InitLines DEF Init, RInv

LEMMA NextRInv == RInv /\ [Next]_vars => RInv'
  <1> SUFFICES ASSUME RInv, [Next]_vars PROVE (pc # "done" => returned = NoReturn)'
    BY NextTInv, NextLines DEF RInv
  <1> QED BY DEF RInv, Next, SetupFails, Setup, LlmAnswers, LlmRetry, LlmFails, Save, SaveFails,
             Run, RunRaises, ResultsDirRaises, Compare, SkipCompare, FailedRound, AcceptedRound,
             DegradedRound, NextRound, Finish, Done, vars, roundVars, Return

\* Before the end the caller sees no answer.
LEMMA NoAnswerYet == ASSUME returned = NoReturn PROVE answer = "none"
  BY DEF NoReturn, answer

\* A round that is under way has used up less than the budget, and the round
\* before it, if any, was not accepted.
LEMMA UnderWay ==
  ASSUME RInv, pc \in {"setup", "llm", "save", "run", "results"}
  PROVE  attempts < MaxRounds /\ last # "accepted" /\ answer = "none"
  <1>1. Len(transcript) \in Nat /\ Len(transcript) < MaxRounds
    <2>1. CASE pc = "setup"
      BY <2>1, MaxRoundsAssumption DEF RInv, TInv, Bookkeeping
    <2>2. CASE pc # "setup"
      BY <2>2, MaxRoundsAssumption DEF RInv, TInv, Bookkeeping, Rounds
    <2> QED BY <2>1, <2>2
  <1>2. CASE transcript = <<>>
    BY <1>1, <1>2, NoAnswerYet DEF RInv, attempts, last
  <1>3. CASE transcript # <<>>
    <2>1. Len(transcript) # 0
      BY <1>3, EmptySeq DEF RInv, TInv, TypeOK
    <2>2. Len(transcript) \in 1..Len(transcript) /\ pc # "setup"
      BY <1>1, <2>1 DEF RInv, TInv, Bookkeeping
    <2>3. ~transcript[Len(transcript)].acceptable
      BY <2>2 DEF RInv, LinesInv
    <2> QED BY <1>1, <1>3, <2>3, NoAnswerYet DEF RInv, attempts, last, Judged
  <1> QED BY <1>2, <1>3

\* What the caller sees depends on two variables only.
LEMMA SameView == ASSUME UNCHANGED <<transcript, returned>> PROVE UNCHANGED callersView
  BY DEF callersView, attempts, last, answer

LEMMA JudgedIsAttempt == ASSUME RInv, RInv', Compare \/ SkipCompare PROVE Contract!Attempt
  <1>1. PICK l \in Labels \cup {"none"}, b \in BOOLEAN : Report(l, b)
    <2>1. CASE Compare
      <3>1. last_summary'.performance \in Labels \cup {"none"} /\ acceptable' \in BOOLEAN
        BY <2>1, CompareType DEF RInv, TInv, TypeOK, Summaries
      <3> QED BY <2>1, <3>1 DEF Compare
    <2>2. CASE SkipCompare
      BY <2>2 DEF SkipCompare, RInv, TInv, TypeOK
    <2> QED BY <2>1, <2>2
  <1>2. transcript' \in Seq(TranscriptLines) /\ Len(transcript') = Len(transcript) + 1
    BY <1>1, ReportAppends DEF RInv, TInv
  <1>3. Len(transcript) \in Nat
    BY LenProperties DEF RInv, TInv, TypeOK
  <1>4. transcript' # <<>>
    BY <1>2, <1>3, EmptySeq
  <1>5. last' \in {"failed", "degraded", "accepted"}
    BY <1>4 DEF last, Judged
  <1>6. answer' = answer
    BY DEF Compare, SkipCompare, answer
  <1>7. attempts' = attempts + 1
    BY <1>2 DEF attempts
  <1>8. attempts < MaxRounds /\ last # "accepted" /\ answer = "none"
    BY UnderWay DEF Compare, SkipCompare
  <1> QED BY <1>5, <1>6, <1>7, <1>8
          DEF Contract!Attempt, Contract!Verdicts, attempts, last, answer

\* An error, at any point of a round.
LEMMA ErrorIsAbort ==
  ASSUME RInv, SetupFails \/ LlmFails \/ SaveFails \/ RunRaises \/ ResultsDirRaises
  PROVE  Contract!Abort
  <1>1. attempts < MaxRounds /\ last # "accepted" /\ answer = "none"
    BY UnderWay DEF SetupFails, LlmFails, SaveFails, RunRaises, ResultsDirRaises
  <1>2. UNCHANGED transcript /\ returned'.how \in {"error", "raised"}
    BY DEF SetupFails, LlmFails, SaveFails, RunRaises, ResultsDirRaises, roundVars, Return
  <1>3. answer' = "error"
    BY <1>2 DEF answer
  <1>4. UNCHANGED <<attempts, last>>
    BY <1>2 DEF attempts, last
  <1> QED BY <1>1, <1>3, <1>4 DEF Contract!Abort, attempts, last, answer

\* The answer is the answer of the last round.
LEMMA FinishIsAnswer == ASSUME RInv, Finish PROVE Contract!Answer
  <1>1. /\ pc = "finish" /\ returned = NoReturn
        /\ returned'.how = "result" /\ returned'.passed = passed /\ UNCHANGED transcript
    BY DEF RInv, Finish, Return
  <1>2. /\ round_num \in Rounds /\ Len(transcript) = round_num /\ passed \in BOOLEAN
        /\ transcript[round_num].passed = passed
        /\ transcript[round_num].acceptable = acceptable
        /\ (passed /\ acceptable) \/ round_num = MaxRounds
    BY <1>1 DEF RInv, TInv, TypeOK, Bookkeeping
  <1>3. transcript # <<>>
    BY <1>2, EmptySeq, MaxRoundsAssumption DEF Rounds
  <1>4. last = IF ~passed THEN "failed" ELSE IF acceptable THEN "accepted" ELSE "degraded"
    BY <1>2, <1>3 DEF last, Judged
  <1>5. answer = "none" /\ answer' = IF passed THEN "pass" ELSE "fail"
    BY <1>1, NoAnswerYet DEF answer
  <1>6. last = "accepted" \/ attempts = MaxRounds
    BY <1>2, <1>4 DEF attempts
  <1>7. UNCHANGED <<attempts, last>>
    BY <1>1 DEF attempts, last
  <1>8. answer' = IF last = "failed" THEN "fail" ELSE "pass"
    BY <1>4, <1>5
  <1> QED BY <1>5, <1>6, <1>7, <1>8 DEF Contract!Answer, attempts, last, answer

LEMMA NextImplements == RInv /\ RInv' /\ [Next]_vars => [Contract!Next]_callersView
  <1> SUFFICES ASSUME RInv, RInv', [Next]_vars PROVE Contract!Next \/ UNCHANGED callersView
    OBVIOUS
  <1>1. CASE Compare \/ SkipCompare
    BY <1>1, JudgedIsAttempt DEF Contract!Next
  <1>2. CASE SetupFails \/ LlmFails \/ SaveFails \/ RunRaises \/ ResultsDirRaises
    BY <1>2, ErrorIsAbort DEF Contract!Next
  <1>3. CASE Finish
    BY <1>3, FinishIsAnswer DEF Contract!Next
  <1>4. CASE \/ Setup \/ LlmAnswers \/ LlmRetry \/ Save \/ Run
             \/ FailedRound \/ AcceptedRound \/ DegradedRound \/ Done \/ UNCHANGED vars
    <2>1. UNCHANGED <<transcript, returned>>
      BY <1>4 DEF Setup, LlmAnswers, LlmRetry, Save, Run, FailedRound, AcceptedRound,
                  DegradedRound, Done, vars, roundVars
    <2> QED BY <2>1, SameView
  <1> QED BY <1>1, <1>2, <1>3, <1>4 DEF Next

LEMMA InitImplements == Init => Contract!Init
  BY EmptySeq, NoAnswerYet DEF Init, Contract!Init, NoReturn

\* Every evaluation keeps the safety part of its contract: as many attempts as
\* the budget allows and none after an accepted one, and the answer is that of
\* the last attempt.
THEOREM KeepsContract == Spec => ContractSafety
  <1>1. Init => Contract!Init
    BY InitImplements
  <1>2. Spec => []RInv
    BY InitRInv, NextRInv, PTL DEF Spec
  <1> QED BY <1>1, <1>2, NextImplements, PTL DEF Spec, ContractSafety

-----------------------------------------------------------------------------
(* Why an evaluation ends.  Every step that changes anything leaves less   *)
(* work to do, so that there are at most RoundsWork(MaxRounds) + 1 of them *)
(* before the return: fairness has only to see to it that a step that can  *)
(* be taken is taken.                                                      *)

\* What a round may cost: the call of the model, its retries, and the six steps
\* from the saved source to the decision.
RoundsWork(rounds) == rounds * (LlmMaxRetries + 8)

\* What is left to do in this round.
StepsLeft ==
    CASE pc = "llm" -> LlmMaxRetries - attempt + 7
      [] pc = "save" -> 6
      [] pc = "run" -> 5
      [] pc = "results" -> 4
      [] pc = "decide" -> 3
      [] pc \in {"finish", "setup"} -> 1
      [] pc = "done" -> 0

Work == RoundsWork(MaxRounds - round_num) + StepsLeft

LEMMA RoundsWorkGrows ==
  \A n \in Nat : /\ RoundsWork(n) \in Nat
                 /\ RoundsWork(n + 1) = RoundsWork(n) + LlmMaxRetries + 8
  <1> SUFFICES ASSUME NEW n \in Nat
               PROVE  /\ RoundsWork(n) \in Nat
                      /\ RoundsWork(n + 1) = RoundsWork(n) + LlmMaxRetries + 8
    OBVIOUS
  <1>1. LlmMaxRetries + 8 \in Nat
    BY LlmMaxRetriesAssumption
  <1>2. n * (LlmMaxRetries + 8) \in Nat
    BY <1>1
  <1>3. \A k \in Nat : (n + 1) * k = n * k + k
    OBVIOUS
  <1>4. (n + 1) * (LlmMaxRetries + 8) = n * (LlmMaxRetries + 8) + (LlmMaxRetries + 8)
    BY <1>1, <1>3
  <1> QED BY <1>2, <1>4, LlmMaxRetriesAssumption DEF RoundsWork

LEMMA StepsLeftIsNatural == (TInv => StepsLeft \in Nat) /\ (TInv' => StepsLeft' \in Nat)
  <1>1. TInv => StepsLeft \in Nat
    BY LlmMaxRetriesAssumption DEF TInv, TypeOK, StepsLeft
  <1>2. TInv' => StepsLeft' \in Nat
    BY LlmMaxRetriesAssumption DEF TInv, TypeOK, StepsLeft
  <1> QED BY <1>1, <1>2

LEMMA WorkIsNatural == TInv => Work \in Nat
  <1> SUFFICES ASSUME TInv PROVE Work \in Nat
    OBVIOUS
  <1>1. MaxRounds - round_num \in Nat
    BY MaxRoundsAssumption DEF TInv, TypeOK
  <1> QED BY <1>1, StepsLeftIsNatural, RoundsWorkGrows DEF Work

\* A step within a round.
LEMMA StepCosts ==
  ASSUME TInv, TInv', UNCHANGED round_num, StepsLeft' < StepsLeft
  PROVE  Work' < Work
  <1>1. RoundsWork(MaxRounds - round_num) \in Nat
    <2>1. MaxRounds - round_num \in Nat
      BY MaxRoundsAssumption DEF TInv, TypeOK
    <2> QED BY <2>1, RoundsWorkGrows
  <1>2. StepsLeft \in Nat /\ StepsLeft' \in Nat
    BY StepsLeftIsNatural
  <1>3. Work' = RoundsWork(MaxRounds - round_num) + StepsLeft'
    <2>1. round_num' = round_num
      OBVIOUS
    <2> QED BY <2>1 DEF Work, RoundsWork
  <1> QED BY <1>1, <1>2, <1>3 DEF Work

\* A step to the next round.
LEMMA RoundCosts ==
  ASSUME TInv, TInv', pc \in {"setup", "decide"}, pc' = "llm", attempt' = 0,
         round_num' = round_num + 1
  PROVE  Work' < Work
  <1> DEFINE n == MaxRounds - round_num'
  <1>1. n \in Nat /\ MaxRounds - round_num = n + 1
    BY MaxRoundsAssumption DEF TInv, TypeOK
  <1>2. RoundsWork(n) \in Nat /\ RoundsWork(n + 1) = RoundsWork(n) + LlmMaxRetries + 8
    BY <1>1, RoundsWorkGrows
  <1>3. StepsLeft' = LlmMaxRetries + 7 /\ StepsLeft \in {1, 3}
    BY LlmMaxRetriesAssumption DEF StepsLeft
  <1>4. Work = RoundsWork(n + 1) + StepsLeft
    BY <1>1 DEF Work
  <1>5. Work' = RoundsWork(n) + StepsLeft'
    BY DEF Work, RoundsWork
  <1> HIDE DEF n
  <1> QED BY <1>2, <1>3, <1>4, <1>5, LlmMaxRetriesAssumption

LEMMA NextCosts == ASSUME TInv, TInv', Next, vars' # vars PROVE Work' < Work
  <1> USE DEF roundVars, Return
  <1>0. attempt \in Nat /\ attempt <= LlmMaxRetries /\ attempt' \in Nat /\ attempt' <= LlmMaxRetries
    BY LlmMaxRetriesAssumption DEF TInv, TypeOK
  <1>1. CASE Setup
    <2>1. round_num' = round_num + 1 /\ attempt' = 0
      BY <1>1 DEF Setup, TInv, Bookkeeping
    <2> QED BY <1>1, <2>1, RoundCosts DEF Setup
  <1>2. CASE FailedRound \/ DegradedRound
    <2>1. pc = "decide" /\ attempt' = 0
      BY <1>2 DEF FailedRound, DegradedRound, TInv, Bookkeeping
    <2>2. CASE round_num < MaxRounds
      BY <1>2, <2>1, <2>2, RoundCosts DEF FailedRound, DegradedRound, NextRound
    <2>3. CASE ~(round_num < MaxRounds)
      <3>1. pc' = "finish" /\ round_num' = round_num
        BY <1>2, <2>3 DEF FailedRound, DegradedRound, NextRound
      <3>2. StepsLeft' < StepsLeft
        BY <2>1, <3>1 DEF StepsLeft
      <3> QED BY <3>1, <3>2, StepCosts
    <2> QED BY <2>2, <2>3
  <1>3. CASE SetupFails \/ SaveFails \/ RunRaises \/ ResultsDirRaises \/ Finish
    <2>1. /\ pc \in {"setup", "save", "run", "results", "finish"} /\ pc' = "done"
          /\ UNCHANGED round_num
      BY <1>3 DEF SetupFails, SaveFails, RunRaises, ResultsDirRaises, Finish
    <2>2. StepsLeft' < StepsLeft
      BY <2>1 DEF StepsLeft
    <2> QED BY <2>1, <2>2, StepCosts
  <1>4. CASE LlmAnswers \/ LlmRetry \/ LlmFails
    <2>1. /\ pc = "llm" /\ UNCHANGED round_num
          /\ \/ pc' \in {"save", "done"}
             \/ pc' = "llm" /\ attempt' = attempt + 1
      BY <1>4 DEF LlmAnswers, LlmRetry, LlmFails
    <2>2. StepsLeft' < StepsLeft
      BY <1>0, <2>1, LlmMaxRetriesAssumption DEF StepsLeft
    <2> QED BY <2>1, <2>2, StepCosts
  <1>5. CASE Save \/ Run \/ Compare \/ SkipCompare \/ AcceptedRound
    <2>1. /\ UNCHANGED round_num
          /\ \/ pc = "save" /\ pc' = "run"
             \/ pc = "run" /\ pc' = "results"
             \/ pc = "results" /\ pc' = "decide"
             \/ pc = "decide" /\ pc' = "finish"
      BY <1>5 DEF Save, Run, Compare, SkipCompare, AcceptedRound
    <2>2. StepsLeft' < StepsLeft
      BY <2>1 DEF StepsLeft
    <2> QED BY <2>1, <2>2, StepCosts
  <1>6. ~Done
    BY DEF Done
  <1> QED BY <1>1, <1>2, <1>3, <1>4, <1>5, <1>6 DEF Next

\* No step of an evaluation is taken twice over: whatever the model and the
\* programs do, and in whatever order, every step is one of finitely many.
THEOREM EveryStepCosts == Spec => [](Work \in Nat) /\ [][Work' < Work]_vars
  <1>1. TInv => Work \in Nat
    BY WorkIsNatural
  <1>2. TInv /\ TInv' /\ [Next]_vars => [Work' < Work]_vars
    BY NextCosts
  <1> QED BY <1>1, <1>2, RoundsAreKept, PTL DEF Spec

-----------------------------------------------------------------------------
(* What an answer is worth: it was earned by the code of the round it is   *)
(* given for, and not by what an earlier round left in result or passed.   *)

\* The result at hand is one the code of this round can earn with its source
\* where SaveGenerated put it, and passed is what analyze_result says of it.
Earned ==
    /\ result.of = round_num
    /\ \E p \in GeneratedPrograms : result.is \in CompileAndRun(Script, SaveGenerated, p)
    /\ passed = AnalyzeResult(result.is).passed

AnswerIsEarned ==
    returned.how = "result" =>
        Earned /\ returned.passed = passed /\ returned.rounds = round_num

EInv ==
    /\ pc = "run" => source_file = SaveGenerated
    /\ pc \in {"results", "decide", "finish"} => Earned
    /\ AnswerIsEarned

LEMMA InitEarned == Init => EInv
  BY DEF Init, EInv, AnswerIsEarned, NoReturn

LEMMA RunEarns == ASSUME TInv, EInv, Run PROVE Earned'
  <1>1. PICK p \in GeneratedPrograms : \E r \in CompileAndRun(Script, source_file, p) :
            result' = [of |-> generated_code, is |-> r]
    BY DEF Run
  <1>2. PICK r \in CompileAndRun(Script, source_file, p) :
            result' = [of |-> generated_code, is |-> r]
    BY <1>1
  <1>3. source_file = SaveGenerated /\ generated_code = round_num
    BY DEF Run, TInv, Bookkeeping, EInv
  <1>4. result'.of = round_num /\ result'.is = r
    BY <1>2, <1>3
  <1>5. round_num' = round_num /\ passed' = AnalyzeResult(result'.is).passed
    BY DEF Run, roundVars
  <1> QED BY <1>2, <1>3, <1>4, <1>5 DEF Earned

LEMMA NextEarned == RInv /\ EInv /\ [Next]_vars => EInv'
  <1> SUFFICES ASSUME RInv, EInv, [Next]_vars PROVE EInv'
    OBVIOUS
  <1> USE DEF EInv, AnswerIsEarned, roundVars, Return, NoReturn
  <1>a. pc # "done" => returned.how # "result"
    BY DEF RInv
  <1>1. CASE Run
    <2>1. Earned'
      BY <1>1, RunEarns DEF RInv
    <2> QED BY <1>1, <1>a, <2>1 DEF Run
  <1>2. CASE Save
    BY <1>2, <1>a, SaveGeneratedAssumption DEF Save
  <1>3. CASE SetupFails \/ LlmFails \/ SaveFails \/ RunRaises \/ ResultsDirRaises
    BY <1>3 DEF SetupFails, LlmFails, SaveFails, RunRaises, ResultsDirRaises
  <1>4. CASE Setup \/ LlmAnswers \/ LlmRetry
    BY <1>4, <1>a DEF Setup, LlmAnswers, LlmRetry
  <1>5. CASE Compare \/ SkipCompare \/ AcceptedRound
    <2>1. /\ pc \in {"results", "decide"} /\ pc' \in {"decide", "finish"}
          /\ UNCHANGED <<round_num, result, passed, returned>>
      BY <1>5 DEF Compare, SkipCompare, AcceptedRound
    <2> QED BY <1>a, <2>1 DEF Earned
  <1>6. CASE FailedRound \/ DegradedRound
    <2>1. /\ pc = "decide" /\ UNCHANGED <<result, passed, returned>>
          /\ pc' = "llm" \/ (pc' = "finish" /\ UNCHANGED round_num)
      BY <1>6 DEF FailedRound, DegradedRound, NextRound
    <2> QED BY <1>a, <2>1 DEF Earned
  <1>7. CASE Finish
    <2>1. /\ pc = "finish" /\ pc' = "done" /\ UNCHANGED <<round_num, result, passed>>
          /\ returned'.passed = passed /\ returned'.rounds = round_num
      BY <1>7 DEF Finish
    <2> QED BY <2>1 DEF Earned
  <1>8. CASE Done \/ UNCHANGED vars
    BY <1>8 DEF Done, vars, Earned
  <1> QED BY <1>1, <1>2, <1>3, <1>4, <1>5, <1>6, <1>7, <1>8 DEF Next

\* A pass is returned only for the last round's code, and only if analyze_result
\* let a result pass that this code can earn.
THEOREM AnswersAreEarned == Spec => []AnswerIsEarned
  <1>1. EInv => AnswerIsEarned
    BY DEF EInv
  <1> QED BY <1>1, InitRInv, NextRInv, InitEarned, NextEarned, PTL DEF Spec

\* Under --no-save no evaluation can pass, whatever the model writes: SourcePresent
\* is not an unlucky order of steps.
THEOREM NothingPassesUnsaved ==
  ASSUME ~SaveGenerated
  PROVE  Spec => [](returned.how = "result" => ~returned.passed)
  <1>1. ASSUME AnswerIsEarned, returned.how = "result" PROVE ~returned.passed
    <2>1. PICK p \in GeneratedPrograms : result.is \in CompileAndRun(Script, SaveGenerated, p)
      BY <1>1 DEF AnswerIsEarned, Earned
    <2>2. result.is = NotRun
      BY <2>1 DEF CompileAndRun
    <2>3. ~AnalyzeResult(result.is).passed
      BY <2>2 DEF AnalyzeResult, NotRun
    <2> QED BY <1>1, <2>3 DEF AnswerIsEarned, Earned
  <1>2. AnswerIsEarned => (returned.how = "result" => ~returned.passed)
    BY <1>1
  <1> QED BY <1>2, AnswersAreEarned, PTL
=============================================================================
