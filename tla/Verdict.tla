------------------------------ MODULE Verdict ------------------------------
(***************************************************************************)
(* The performance verdict of run_eval/perf_verdict.py: one primary metric *)
(* of the reference and of the generated program is turned into a label,   *)
(* and the label decides whether generate_eval_one spends another round on *)
(* performance.                                                            *)
(*                                                                         *)
(* The code computes a percentage in floating point and compares it with   *)
(* three thresholds.  Here the improvement is the exact fraction num/den   *)
(* it stands for, and "num/den percent is at least t" is decided by cross  *)
(* multiplication, so that nothing is lost to rounding.                    *)
(***************************************************************************)
EXTENDS Integers

CONSTANT NoMetric   \* the primary key is missing, or its value is not a number

ASSUME NoMetricAssumption == NoMetric \notin Int

Directions == {"higher", "lower"}

\* What PERF_METRICS.get(example_name) can be: no entry, "info_only", or an
\* entry with a direction, of which the registry could misspell the direction.
Entries == {"unregistered", "info_only", "misspelt"} \cup Directions

BETTER_PCT == 20
ON_PAR_LOST_SIGN == 5      \* mutant
ON_PAR_LOWER_PCT == -5
DEGRADED_LOWER_PCT == -40

Comparisons == {"better", "on_par", "degraded", "severely_degraded"}
NonComparisons == {"info_only", "no_gen_metrics", "no_ref_metrics", "unknown"}
ALL_VERDICTS == Comparisons \cup NonComparisons
ACCEPTABLE_VERDICTS == {"better", "on_par"} \cup NonComparisons

\* The labels of the older schemes of build_and_run.py.  generate_eval_one knows
\* the first three; the FIFO examples write the last one, for measurements with no
\* metric in common, and it stays when their child is killed before its exit hook.
LegacyLabels == {"same", "improved", "worse", "no_common_metrics"}

-----------------------------------------------------------------------------
\* Mutant: the guard is gone.
NoGuard(ref, gen, direction) == FALSE

\* The generated program reported a zero latency where the reference measured
\* a positive one: its timer was never implemented.
DidNotMeasure(ref, gen, direction) == direction = "lower" /\ ref > 0 /\ gen = 0

\* Mutant: the direction is ignored.
ImprovementPctHigher(ref, gen, direction) ==
    IF ref = 0 THEN <<0, 1>> ELSE <<gen - ref, ref>>

\* _improvement_pct, as the fraction <<num, den>> of which it takes the percentage.
ImprovementPct(ref, gen, direction) ==
    IF DidNotMeasure(ref, gen, direction) THEN <<-1, 1>>
    ELSE IF ref = 0 THEN <<0, 1>>
    ELSE IF direction = "lower" THEN <<ref - gen, ref>>
    ELSE <<gen - ref, ref>>

\* 100 * num / den >= pct, for either sign of den.
AtLeast(imp, pct) ==
    IF imp[2] > 0 THEN 100 * imp[1] >= pct * imp[2]
                  ELSE 100 * imp[1] <= pct * imp[2]

Classify(imp) ==
    IF AtLeast(imp, BETTER_PCT) THEN "better"
    ELSE IF AtLeast(imp, ON_PAR_LOWER_PCT) THEN "on_par"
    ELSE IF AtLeast(imp, DEGRADED_LOWER_PCT) THEN "degraded"
    ELSE "severely_degraded"

ComputeUnifiedVerdict(entry, ref, gen) ==
    CASE entry \in {"unregistered", "misspelt"} -> "unknown"
      [] entry = "info_only" -> "info_only"
      [] entry \in Directions ->
            IF gen = NoMetric THEN "no_gen_metrics"
            ELSE IF ref = NoMetric THEN "no_ref_metrics"
            ELSE Classify(ImprovementPct(ref, gen, entry))

\* How good a comparison verdict is, for comparing two of them.
Rank(verdict) ==
    CASE verdict = "severely_degraded" -> 0
      [] verdict = "degraded" -> 1
      [] verdict = "on_par" -> 2
      [] verdict = "better" -> 3
=============================================================================
