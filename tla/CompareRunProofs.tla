-------------------------- MODULE CompareRunProofs --------------------------
(***************************************************************************)
(* Verdict and CompareRun for every measurement: TLC looks at values on    *)
(* and beside the thresholds, here ref and gen are any natural numbers,    *)
(* whatever the unit of the metric makes of its decimals.                  *)
(***************************************************************************)
EXTENDS CompareRun, TLAPS

-----------------------------------------------------------------------------
(* Lemmas about the verdict. *)

LEMMA NoMetricIsNoNumber == NoMetric \notin Nat
  BY NoMetricAssumption

LEMMA VerdictOfUnmeasured ==
  ASSUME NEW r, NEW g, NEW e \in Directions
  PROVE  /\ g = NoMetric => ComputeUnifiedVerdict(e, r, g) = "no_gen_metrics"
         /\ g # NoMetric /\ r = NoMetric => ComputeUnifiedVerdict(e, r, g) = "no_ref_metrics"
  <1>1. e \notin {"unregistered", "misspelt"} /\ e # "info_only"
    BY DEF Directions
  <1> QED BY <1>1 DEF ComputeUnifiedVerdict

LEMMA VerdictOfMeasured ==
  ASSUME NEW r, NEW g, r # NoMetric, g # NoMetric, NEW e \in Directions
  PROVE  ComputeUnifiedVerdict(e, r, g) = Classify(ImprovementPct(r, g, e))
  <1>1. e \notin {"unregistered", "misspelt"} /\ e # "info_only"
    BY DEF Directions
  <1> QED BY <1>1 DEF ComputeUnifiedVerdict

LEMMA VerdictWithoutDirection ==
  ASSUME NEW r, NEW g, NEW e \in Entries \ Directions
  PROVE  ComputeUnifiedVerdict(e, r, g) \in {"unknown", "info_only"}
  <1>1. CASE e \in {"unregistered", "misspelt"}
    BY <1>1 DEF ComputeUnifiedVerdict
  <1>2. CASE e = "info_only"
    <2>1. e \notin {"unregistered", "misspelt"} /\ e \notin Directions
      BY <1>2 DEF Directions
    <2> QED BY <1>2, <2>1 DEF ComputeUnifiedVerdict
  <1> QED BY <1>1, <1>2 DEF Entries

LEMMA ClassifyCompares == \A imp : Classify(imp) \in Comparisons
  BY DEF Classify, Comparisons

\* Every verdict is one of the vocabulary generate_eval_one knows.
LEMMA VerdictIsKnown ==
  ASSUME NEW e \in Entries, NEW r, NEW g
  PROVE  ComputeUnifiedVerdict(e, r, g) \in ALL_VERDICTS
  <1>1. CASE e \in Entries \ Directions
    BY <1>1, VerdictWithoutDirection DEF ALL_VERDICTS, NonComparisons
  <1>2. CASE e \in Directions /\ g = NoMetric
    BY <1>2, VerdictOfUnmeasured DEF ALL_VERDICTS, NonComparisons
  <1>3. CASE e \in Directions /\ g # NoMetric /\ r = NoMetric
    BY <1>3, VerdictOfUnmeasured DEF ALL_VERDICTS, NonComparisons
  <1>4. CASE e \in Directions /\ g # NoMetric /\ r # NoMetric
    BY <1>4, VerdictOfMeasured, ClassifyCompares DEF ALL_VERDICTS
  <1> QED BY <1>1, <1>2, <1>3, <1>4

\* What each verdict of a throughput says of the two numbers.
LEMMA HigherBands ==
  ASSUME NEW r \in Nat, NEW g \in Nat
  PROVE  LET v == Classify(ImprovementPct(r, g, "higher")) IN
         /\ r = 0 => v = "on_par"
         /\ r > 0 => /\ v = "better" <=> 100 * g >= 120 * r
                     /\ v = "on_par" <=> 100 * g >= 95 * r /\ 100 * g < 120 * r
                     /\ v = "degraded" <=> 100 * g >= 60 * r /\ 100 * g < 95 * r
                     /\ v = "severely_degraded" <=> 100 * g < 60 * r
  <1>1. CASE r = 0
    <2>1. ImprovementPct(r, g, "higher") = <<0, 1>>
      BY <1>1 DEF ImprovementPct, DidNotMeasure
    <2> QED BY <1>1, <2>1 DEF Classify, AtLeast, BETTER_PCT, ON_PAR_LOWER_PCT, DEGRADED_LOWER_PCT
  <1>2. CASE r > 0
    <2>1. ImprovementPct(r, g, "higher") = <<g - r, r>>
      BY <1>2 DEF ImprovementPct, DidNotMeasure
    <2> QED BY <1>2, <2>1 DEF Classify, AtLeast, BETTER_PCT, ON_PAR_LOWER_PCT, DEGRADED_LOWER_PCT
  <1> QED BY <1>1, <1>2

\* What each verdict of a latency says of the two numbers.
LEMMA LowerBands ==
  ASSUME NEW r \in Nat, NEW g \in Nat
  PROVE  LET v == Classify(ImprovementPct(r, g, "lower")) IN
         /\ r = 0 => v = "on_par"
         /\ r > 0 /\ g = 0 => v = "severely_degraded"
         /\ r > 0 /\ g > 0 =>
               /\ v = "better" <=> 100 * g <= 80 * r
               /\ v = "on_par" <=> 100 * g <= 105 * r /\ 100 * g > 80 * r
               /\ v = "degraded" <=> 100 * g <= 140 * r /\ 100 * g > 105 * r
               /\ v = "severely_degraded" <=> 100 * g > 140 * r
  <1>1. CASE r = 0
    <2>1. ImprovementPct(r, g, "lower") = <<0, 1>>
      BY <1>1 DEF ImprovementPct, DidNotMeasure
    <2> QED BY <1>1, <2>1 DEF Classify, AtLeast, BETTER_PCT, ON_PAR_LOWER_PCT, DEGRADED_LOWER_PCT
  <1>2. CASE r > 0 /\ g = 0
    <2>1. ImprovementPct(r, g, "lower") = <<-1, 1>>
      BY <1>2 DEF ImprovementPct, DidNotMeasure
    <2> QED BY <1>2, <2>1 DEF Classify, AtLeast, BETTER_PCT, ON_PAR_LOWER_PCT, DEGRADED_LOWER_PCT
  <1>3. CASE r > 0 /\ g > 0
    <2>1. ImprovementPct(r, g, "lower") = <<r - g, r>>
      BY <1>3 DEF ImprovementPct, DidNotMeasure
    <2> QED BY <1>3, <2>1 DEF Classify, AtLeast, BETTER_PCT, ON_PAR_LOWER_PCT, DEGRADED_LOWER_PCT
  <1> QED BY <1>1, <1>2, <1>3

LEMMA Ranks ==
  /\ Rank("severely_degraded") = 0 /\ Rank("degraded") = 1
  /\ Rank("on_par") = 2 /\ Rank("better") = 3
  <1>1. Rank("severely_degraded") = 0
    BY DEF Rank
  <1>2. Rank("degraded") = 1
    BY DEF Rank
  <1>3. Rank("on_par") = 2
    BY DEF Rank
  <1>4. Rank("better") = 3
    BY DEF Rank
  <1> QED BY <1>1, <1>2, <1>3, <1>4

\* Measuring better in the direction of the metric never earns a worse verdict:
\* for any throughputs, and for any latencies but zero.
THEOREM BetterIsNeverWorse ==
  ASSUME NEW e \in Directions, NEW r \in Nat, NEW g \in Nat, NEW b \in Nat, r > 0,
         \/ e = "higher" /\ g <= b
         \/ e = "lower" /\ 0 < b /\ b <= g
  PROVE  Rank(ComputeUnifiedVerdict(e, r, g)) <= Rank(ComputeUnifiedVerdict(e, r, b))
  <1> DEFINE v == Classify(ImprovementPct(r, g, e))
             w == Classify(ImprovementPct(r, b, e))
  <1>1. v = ComputeUnifiedVerdict(e, r, g) /\ w = ComputeUnifiedVerdict(e, r, b)
    BY VerdictOfMeasured, NoMetricIsNoNumber
  <1>2. v \in Comparisons /\ w \in Comparisons
    BY ClassifyCompares
  <1>3. /\ w = "severely_degraded" => v = "severely_degraded"
        /\ w = "degraded" => v \in {"severely_degraded", "degraded"}
        /\ w = "on_par" => v # "better"
    <2>1. CASE e = "higher" /\ g <= b
      <3> HIDE DEF v, w
      <3>1. /\ v = "better" => 100 * g >= 120 * r
            /\ v = "on_par" => 100 * g >= 95 * r
            /\ v = "degraded" => 100 * g >= 60 * r
            /\ w = "severely_degraded" => 100 * b < 60 * r
            /\ w = "degraded" => 100 * b < 95 * r
            /\ w = "on_par" => 100 * b < 120 * r
        BY <2>1, HigherBands DEF v, w
      <3> QED BY <2>1, <3>1, <1>2 DEF Comparisons
    <2>2. CASE e = "lower" /\ 0 < b /\ b <= g
      <3> HIDE DEF v, w
      <3>1. g > 0
        BY <2>2
      <3>2. /\ v = "better" => 100 * g <= 80 * r
            /\ v = "on_par" => 100 * g <= 105 * r
            /\ v = "degraded" => 100 * g <= 140 * r
            /\ w = "severely_degraded" => 100 * b > 140 * r
            /\ w = "degraded" => 100 * b > 105 * r
            /\ w = "on_par" => 100 * b > 80 * r
        BY <2>2, <3>1, LowerBands DEF v, w
      <3> QED BY <2>2, <3>2, <1>2 DEF Comparisons
    <2> QED BY <2>1, <2>2
  <1> HIDE DEF v, w
  <1>4. Rank(v) <= Rank(w)
    BY <1>2, <1>3, Ranks DEF Comparisons
  <1> QED BY <1>1, <1>4

-----------------------------------------------------------------------------
(* The comparison. *)

\* summary.json as the script's compare() writes it.
Base == Summary(Written(ref), Written(gen), script)

\* That file with the unified label, and the same while it is being written.
Rewritten == Override(Base)
HalfRewritten == [Rewritten EXCEPT !.state = "truncated"]

Rewritable == entry # "unnamed" /\ mode.sides # "absent"

\* The script left without a summary, by an exception or because it does.
Unwritten == file \in {Absent, Truncated} /\ rc = 1 /\ (trouble # "none" \/ Leaves)

\* At every step of the script, what is on disk is a function of what was
\* measured: nothing, half a file, the script's own summary, or that summary
\* with its label rewritten; once or twice makes no difference.
FileInv ==
    /\ child \in {"check", "builds", "ref", "gen", "open"} =>
          file = Absent /\ script = "none" /\ rc = 0 /\ trouble # "raised"
    /\ child = "dump" => file = Truncated /\ script = "none" /\ rc = 0 /\ trouble # "raised"
    /\ child = "hook" => Unwritten \/ (script \in Labels /\ file = Base)
    /\ child = "hook dump" =>
          script \in Labels /\ file = HalfRewritten /\ Rewritable /\ hook
    /\ child = "exited" =>
          \/ Unwritten
          \/ script \in Labels /\ file = Base /\ ~(hook /\ Rewritable)
          \/ script \in Labels /\ file = Rewritten /\ Rewritable /\ (hook \/ rc = 0)
    /\ parent = "returned" /\ trouble # "killed" =>
          /\ child = "exited"
          /\ (hook \/ rc = 0) /\ Rewritable => Unwritten \/ file = Rewritten
    /\ trouble = "killed" => parent = "returned" /\ child # "exited"

IInv == TypeOK /\ FileInv

Files == [state : States, ref : Metrics, gen : Metrics,
          performance : ALL_VERDICTS \cup OwnLabels \cup {"none"},
          performance_legacy : OwnLabels \cup {"none"}]

LEMMA SpecialFiles == Absent \in Files /\ Truncated \in Files
  BY DEF Absent, Truncated, Files, States, Metrics

LEMMA ModeLabels == ASSUME mode \in Modes PROVE Labels \subseteq OwnLabels \cup {"none"}
  <1>1. mode.labels \in SUBSET OwnLabels
    BY ModesAssumption DEF CompareModes
  <1> QED BY <1>1 DEF Labels, OwnLabels

LEMMA BaseType ==
  ASSUME mode \in Modes, ref \in Metrics, gen \in Metrics, script \in Labels
  PROVE  /\ script \in OwnLabels \cup {"none"}
         /\ Base \in Files /\ Base.state = "complete" /\ Base.performance_legacy = "none"
         /\ Base.performance = script
         /\ Base.ref = Written(ref) /\ Base.gen = Written(gen)
  <1>1. script \in OwnLabels \cup {"none"}
    BY ModeLabels
  <1>2. Written(ref) \in Metrics /\ Written(gen) \in Metrics
    BY DEF Written, Metrics
  <1> QED BY <1>1, <1>2 DEF Base, Summary, Files, States

LEMMA SameSummary ==
  ASSUME UNCHANGED <<inputs, programs, script>>
  PROVE  /\ Base' = Base /\ Rewritten' = Rewritten /\ HalfRewritten' = HalfRewritten
         /\ Labels' = Labels /\ (Leaves' <=> Leaves) /\ (Rewritable' <=> Rewritable)
  BY DEF inputs, programs, Base, HasPerf, BothBuilt, Written, Rewritten, HalfRewritten, Labels,
         Leaves, Rewritable, Override, Comparable, BothRan

\* Rewriting the script's summary keeps its measurements and its label; doing it
\* again changes nothing.
LEMMA OverrideOnce ==
  ASSUME entry \in Entries, NEW f \in Files, f.performance_legacy = "none",
         f.performance \in OwnLabels \cup {"none"}
  PROVE  LET g == Override(f)
             v == ComputeUnifiedVerdict(entry, f.ref, f.gen) IN
         /\ g \in Files /\ g.state = f.state /\ g.ref = f.ref /\ g.gen = f.gen
         /\ g.performance = v
         /\ g.performance_legacy = IF f.performance = v THEN "none" ELSE f.performance
         /\ Override(g) = g
  <1> DEFINE v == ComputeUnifiedVerdict(entry, f.ref, f.gen)
             g == Override(f)
  <1>1. v \in ALL_VERDICTS
    BY VerdictIsKnown
  <1> HIDE DEF v
  <1>2. g = [f EXCEPT !.performance = v,
                      !.performance_legacy =
                          IF f.performance \notin {"none", v} THEN f.performance ELSE @]
    BY DEF g, v, Override
  <1>3. /\ g \in Files /\ g.state = f.state /\ g.ref = f.ref /\ g.gen = f.gen /\ g.performance = v
        /\ g.performance_legacy = IF f.performance = v THEN "none" ELSE f.performance
    BY <1>1, <1>2 DEF Files
  <1> HIDE DEF g
  <1>4. ComputeUnifiedVerdict(entry, g.ref, g.gen) = v
    BY <1>3 DEF v
  <1>5. Override(g) = [g EXCEPT !.performance = v, !.performance_legacy = @]
    BY <1>3, <1>4 DEF Override
  <1>6. Override(g) = g
    BY <1>3, <1>5 DEF Files
  <1> QED BY <1>3, <1>6 DEF g, v

LEMMA InitIInv == Init => IInv
  <1> SUFFICES ASSUME Init PROVE TypeOK /\ FileInv
    BY DEF IInv
  <1>1. TypeOK
    BY SpecialFiles DEF Init, TypeOK, Files, Metrics, NotRunYet
  <1>2. FileInv
    BY DEF Init, FileInv
  <1> QED BY <1>1, <1>2

\* A step that leaves the programs and the label alone keeps the types of all
\* that is left.
LEMMA TypeKept ==
  ASSUME IInv, UNCHANGED <<inputs, programs, script>>,
         child' \in {"check", "builds", "ref", "gen", "open", "dump", "hook", "hook dump", "exited"},
         rc' \in {0, 1}, trouble' \in {"none", "raised", "killed"}, file' \in Files,
         parent' \in {"waiting", "returned"}
  PROVE  TypeOK'
  <1>1. /\ mode' \in Modes /\ entry' \in Names /\ hook' \in BOOLEAN
        /\ refRun' \in [built : BOOLEAN, success : BOOLEAN, correct : BOOLEAN]
        /\ genRun' \in [built : BOOLEAN, success : BOOLEAN, correct : BOOLEAN]
        /\ ref' \in Metrics /\ gen' \in Metrics /\ script' \in OwnLabels \cup {"none"}
    BY DEF IInv, TypeOK, inputs, programs
  <1> QED BY <1>1 DEF TypeOK, Files

LEMMA OutcomesType == Outcomes \subseteq [built : BOOLEAN, success : BOOLEAN, correct : BOOLEAN]
  BY DEF Outcomes

LEMMA MeasuresType == \A o : Measures(o) \subseteq Metrics
  BY DEF Measures, Metrics

\* The steps of the script before its summary is complete.
LEMMA ScriptIInv ==
  ASSUME IInv, Raise \/ Check \/ BuildBoth \/ RunRef \/ RunGen \/ Leave \/ OpenSummary
  PROVE  IInv'
  <1>1. TypeOK'
    <2>1. CASE Raise \/ Check \/ Leave \/ OpenSummary
      BY <2>1, SpecialFiles DEF IInv, TypeOK, Files, Raise, Check, Leave, OpenSummary, inputs, programs
    <2>2. CASE BuildBoth
      <3>1. PICK r \in BOOLEAN, g \in BOOLEAN :
              /\ refRun' = [NotRunYet EXCEPT !.built = r]
              /\ genRun' = [NotRunYet EXCEPT !.built = g]
              /\ child' = IF r /\ g THEN "ref" ELSE "open"
        BY <2>2 DEF BuildBoth
      <3>2. /\ refRun' \in [built : BOOLEAN, success : BOOLEAN, correct : BOOLEAN]
            /\ genRun' \in [built : BOOLEAN, success : BOOLEAN, correct : BOOLEAN]
        BY <3>1 DEF NotRunYet
      <3>3. child' \in {"ref", "open"}
        BY <3>1
      <3> QED BY <2>2, <3>2, <3>3 DEF IInv, TypeOK, BuildBoth, inputs
    <2>3. CASE RunRef
      <3>1. refRun' \in [built : BOOLEAN, success : BOOLEAN, correct : BOOLEAN] /\ ref' \in Metrics
        BY <2>3, OutcomesType, MeasuresType DEF RunRef
      <3> QED BY <2>3, <3>1 DEF IInv, TypeOK, RunRef, inputs
    <2>4. CASE RunGen
      <3>1. genRun' \in [built : BOOLEAN, success : BOOLEAN, correct : BOOLEAN] /\ gen' \in Metrics
        BY <2>4, OutcomesType, MeasuresType DEF RunGen
      <3> QED BY <2>4, <3>1 DEF IInv, TypeOK, RunGen, inputs
    <2> QED BY <2>1, <2>2, <2>3, <2>4
  <1>2. FileInv'
    <2>1. CASE Raise
      <3>1. child' = "hook" /\ rc' = 1 /\ parent' = "waiting" /\ trouble' = "raised"
        BY <2>1 DEF Raise, Alive
      <3>2. file' \in {Absent, Truncated}
        BY <2>1 DEF Raise, Alive, IInv, FileInv
      <3> QED BY <3>1, <3>2 DEF FileInv, Unwritten
    <2>2. CASE Check \/ BuildBoth \/ RunRef \/ RunGen
      <3>1. /\ child \in {"check", "builds", "ref", "gen"} /\ parent = "waiting"
            /\ UNCHANGED <<rc, parent, trouble, file, script>>
        BY <2>2 DEF Check, BuildBoth, RunRef, RunGen, Alive
      <3>2. child' \in {"builds", "ref", "gen", "open"}
        BY <2>2 DEF Check, BuildBoth, RunRef, RunGen
      <3>3. /\ file' = Absent /\ script' = "none" /\ rc' = 0 /\ parent' = "waiting"
            /\ trouble' \notin {"raised", "killed"}
        BY <3>1 DEF IInv, FileInv
      <3> QED BY <3>2, <3>3 DEF FileInv
    <2>3. CASE Leave
      <3>1. Leaves' <=> Leaves
        BY <2>3, SameSummary DEF Leave
      <3>2. /\ child' = "hook" /\ rc' = 1 /\ parent' = "waiting" /\ trouble' # "killed"
            /\ file' = Absent /\ Leaves'
        BY <2>3, <3>1 DEF Leave, Alive, IInv, FileInv
      <3> QED BY <3>2 DEF FileInv, Unwritten
    <2>4. CASE OpenSummary
      BY <2>4 DEF OpenSummary, Alive, IInv, FileInv
    <2> QED BY <2>1, <2>2, <2>3, <2>4
  <1> QED BY <1>1, <1>2 DEF IInv

LEMMA DumpIInv == ASSUME IInv, DumpSummary PROVE IInv'
  <1>1. /\ UNCHANGED <<inputs, programs, trouble, parent>> /\ child' = "hook" /\ rc' \in {0, 1}
        /\ script' \in Labels /\ file' = Summary(Written(ref), Written(gen), script')
        /\ parent = "waiting"
    BY DEF DumpSummary, Alive
  <1>2. Base' = file' /\ Labels' = Labels
    BY <1>1 DEF Base, Written, HasPerf, Labels, Comparable, BothRan, inputs, programs
  <1>3. mode' \in Modes /\ ref' \in Metrics /\ gen' \in Metrics /\ script' \in Labels'
    BY <1>1, <1>2 DEF IInv, TypeOK, inputs, programs
  <1>4. script' \in OwnLabels \cup {"none"}
    BY <1>1, ModeLabels DEF IInv, TypeOK
  <1>5. file' \in Files
    <2>1. Written(ref) \in Metrics /\ Written(gen) \in Metrics
      BY DEF IInv, TypeOK, Written, Metrics
    <2> QED BY <1>1, <1>4, <2>1 DEF Summary, Files, States
  <1>6. TypeOK'
    BY <1>1, <1>4, <1>5 DEF IInv, TypeOK, Files, inputs, programs
  <1>7. FileInv'
    BY <1>1, <1>2, <1>3 DEF IInv, FileInv
  <1> QED BY <1>6, <1>7 DEF IInv

\* Once the script has a label, what may be rewritten is its summary.
LEMMA HookSummary ==
  ASSUME IInv, script \in Labels
  PROVE  /\ Base \in Files /\ Base.state = "complete" /\ Base.performance_legacy = "none"
         /\ Base.performance = script /\ script \in OwnLabels \cup {"none"}
         /\ Base.ref = Written(ref) /\ Base.gen = Written(gen)
  BY BaseType DEF IInv, TypeOK

LEMMA HookIInv == ASSUME IInv, HookOpens \/ HookDumps \/ HookSkips PROVE IInv'
  <1>1. CASE HookOpens
    <2>1. script \in Labels /\ file = Base /\ entry \in Entries /\ Rewritable /\ hook
      <3>1. /\ file.state = "complete" /\ entry # "unnamed" /\ child = "hook" /\ hook
            /\ mode.sides # "absent"
        BY <1>1 DEF HookOpens, Overridable
      <3>2. file \notin {Absent, Truncated}
        BY <3>1 DEF Absent, Truncated
      <3> QED BY <3>1, <3>2 DEF IInv, TypeOK, FileInv, Names, Rewritable, Unwritten
    <2>2. Rewritten \in Files
      BY <2>1, HookSummary, OverrideOnce DEF Rewritten
    <2>3. file' = HalfRewritten /\ file' \in Files
      BY <1>1, <2>1, <2>2 DEF HookOpens, Files, States, HalfRewritten, Rewritten
    <2>4. TypeOK'
      BY <1>1, <2>3 DEF HookOpens, IInv, TypeOK, Files, inputs, programs
    <2>5. /\ HalfRewritten' = HalfRewritten /\ Labels' = Labels /\ (Rewritable' <=> Rewritable)
      BY <1>1, SameSummary DEF HookOpens
    <2>6. /\ child' = "hook dump" /\ parent' = "waiting" /\ trouble' # "killed"
          /\ script' \in Labels' /\ file' = HalfRewritten' /\ Rewritable' /\ hook'
      BY <1>1, <2>1, <2>3, <2>5 DEF HookOpens, Alive, IInv, FileInv, inputs
    <2> QED BY <2>4, <2>6 DEF IInv, FileInv
  <1>2. CASE HookDumps
    <2>1. script \in Labels /\ entry \in Entries /\ file = HalfRewritten /\ Rewritable /\ hook
      BY <1>2 DEF HookDumps, IInv, TypeOK, FileInv, Names, Rewritable
    <2>2. Rewritten \in Files /\ Rewritten.state = "complete"
      BY <2>1, HookSummary, OverrideOnce DEF Rewritten
    <2>3. file' = Rewritten
      BY <1>2, <2>1, <2>2 DEF HookDumps, Files, HalfRewritten
    <2>4. TypeOK'
      <3>1. /\ UNCHANGED <<inputs, programs, rc, trouble, script, parent>> /\ child' = "exited"
            /\ rc \in {0, 1} /\ trouble \in {"none", "raised", "killed"}
            /\ parent \in {"waiting", "returned"}
        BY <1>2 DEF HookDumps, IInv, TypeOK
      <3> QED BY <2>2, <2>3, <3>1, TypeKept
    <2>5. Rewritten' = Rewritten /\ Labels' = Labels /\ (Rewritable' <=> Rewritable)
      BY <1>2, SameSummary DEF HookDumps
    <2>6. /\ child' = "exited" /\ parent' = "waiting" /\ trouble' # "killed"
          /\ file' = Rewritten' /\ script' \in Labels' /\ Rewritable' /\ hook'
      BY <1>2, <2>1, <2>3, <2>5 DEF HookDumps, Alive, IInv, FileInv, inputs
    <2> QED BY <2>4, <2>6 DEF IInv, FileInv
  <1>3. CASE HookSkips
    <2>1. TypeOK'
      BY <1>3 DEF HookSkips, IInv, TypeOK, inputs, programs
    <2>2. /\ Base' = Base /\ Labels' = Labels /\ (Rewritable' <=> Rewritable)
          /\ (Leaves' <=> Leaves)
      BY <1>3, SameSummary DEF HookSkips
    <2>3. /\ child = "hook" /\ child' = "exited" /\ parent' = "waiting" /\ trouble' # "killed"
          /\ UNCHANGED <<hook, rc, trouble, script, file>>
      BY <1>3 DEF HookSkips, Alive, IInv, FileInv, inputs
    <2>4. CASE script \in Labels /\ file = Base
      <3>1. ~(hook /\ Rewritable)
        BY <1>3, <2>4, HookSummary DEF HookSkips, Overridable, Rewritable
      <3>2. FileInv'
        BY <2>2, <2>3, <2>4, <3>1 DEF FileInv
      <3> QED BY <2>1, <3>2 DEF IInv
    <2>5. Unwritten \/ (script \in Labels /\ file = Base)
      BY <2>3 DEF IInv, FileInv
    <2>6. CASE Unwritten
      <3>1. Unwritten'
        BY <2>2, <2>3, <2>6 DEF Unwritten
      <3>2. FileInv'
        BY <2>3, <3>1 DEF FileInv
      <3> QED BY <2>1, <3>2 DEF IInv
    <2> QED BY <2>4, <2>5, <2>6
  <1> QED BY <1>1, <1>2, <1>3

\* The end of the comparison, by the clock or by the script.
LEMMA ParentIInv == ASSUME IInv, Timeout \/ Collect PROVE IInv'
  <1>1. CASE Timeout
    <2>1. TypeOK'
      <3>1. /\ UNCHANGED <<inputs, programs, child, rc, script, file>>
            /\ trouble' = "killed" /\ parent' = "returned"
        BY <1>1 DEF Timeout
      <3>2. rc \in {0, 1} /\ file \in Files
        BY DEF IInv, TypeOK, Files
      <3>3. child' \in {"check", "builds", "ref", "gen", "open", "dump", "hook", "hook dump", "exited"}
        BY <3>1 DEF IInv, TypeOK
      <3> QED BY <3>1, <3>2, <3>3, TypeKept
    <2>2. /\ Base' = Base /\ Rewritten' = Rewritten /\ HalfRewritten' = HalfRewritten
          /\ Labels' = Labels /\ (Leaves' <=> Leaves) /\ (Rewritable' <=> Rewritable)
      BY <1>1, SameSummary DEF Timeout
    <2>3. /\ parent' = "returned" /\ trouble' = "killed" /\ child # "exited"
          /\ UNCHANGED <<hook, child, rc, script, file>>
      BY <1>1 DEF Timeout, Alive, inputs
    <2>4. child = "hook" /\ Unwritten => Unwritten'
      BY <2>2, <2>3 DEF Unwritten
    <2>5. FileInv'
      BY <2>2, <2>3, <2>4 DEF IInv, FileInv
    <2> QED BY <2>1, <2>5 DEF IInv
  <1>2. CASE Collect
    <2>1. /\ child = "exited" /\ trouble # "killed" /\ trouble' # "killed" /\ rc \in {0, 1}
          /\ UNCHANGED <<inputs, programs, hook, child, rc, trouble, script>>
          /\ parent' = "returned"
      BY <1>2 DEF Collect, IInv, TypeOK, FileInv, inputs
    <2>2. /\ Base' = Base /\ Rewritten' = Rewritten /\ Labels' = Labels
          /\ (Leaves' <=> Leaves) /\ (Rewritable' <=> Rewritable)
      BY <2>1, SameSummary
    <2>3. CASE Unwritten
      <3>1. file' = file
        BY <1>2, <2>3 DEF Collect, Unwritten
      <3>2. Unwritten'
        BY <2>1, <2>2, <2>3, <3>1 DEF Unwritten
      <3>3. TypeOK'
        BY <2>1, <3>1 DEF IInv, TypeOK, inputs, programs
      <3>4. FileInv'
        BY <2>1, <3>2 DEF FileInv
      <3> QED BY <3>3, <3>4 DEF IInv
    <2>4. CASE script \in Labels /\ file = Base /\ ~(rc = 0 /\ Rewritable) /\ ~(hook /\ Rewritable)
      <3>1. file' = file
        BY <1>2, <2>4 DEF Collect, Overridable, Rewritable
      <3>2. TypeOK'
        BY <2>1, <3>1 DEF IInv, TypeOK, inputs, programs
      <3>3. FileInv'
        BY <2>1, <2>2, <2>4, <3>1 DEF FileInv
      <3> QED BY <3>2, <3>3 DEF IInv
    <2>5. CASE /\ script \in Labels
               /\ Rewritable
               /\ (file = Rewritten /\ (hook \/ rc = 0)) \/ (file = Base /\ rc = 0)
      <3>1. entry \in Entries
        BY <2>5 DEF IInv, TypeOK, Names, Rewritable
      <3>2. /\ Rewritten \in Files /\ Rewritten.state = "complete"
            /\ Override(Rewritten) = Rewritten /\ Base.state = "complete"
        BY <2>5, <3>1, HookSummary, OverrideOnce DEF Rewritten
      <3>3. file' = Rewritten
        <4>1. CASE file = Base /\ rc = 0
          BY <1>2, <2>5, <3>2, <4>1 DEF Collect, Overridable, Rewritable, Rewritten
        <4>2. CASE file = Rewritten
          BY <1>2, <3>2, <4>2 DEF Collect
        <4> QED BY <2>5, <4>1, <4>2
      <3>4. TypeOK'
        BY <2>1, <3>2, <3>3 DEF IInv, TypeOK, Files, inputs, programs
      <3>5. FileInv'
        BY <2>1, <2>2, <2>5, <3>3 DEF FileInv
      <3> QED BY <3>4, <3>5 DEF IInv
    <2> QED BY <2>1, <2>3, <2>4, <2>5 DEF IInv, FileInv
  <1> QED BY <1>1, <1>2

LEMMA NextIInv == IInv /\ [Next]_vars => IInv'
  <1> SUFFICES ASSUME IInv, [Next]_vars PROVE IInv'
    OBVIOUS
  <1>1. CASE UNCHANGED vars
    <2>1. /\ Base' = Base /\ Rewritten' = Rewritten /\ HalfRewritten' = HalfRewritten
          /\ Labels' = Labels /\ (Leaves' <=> Leaves) /\ (Rewritable' <=> Rewritable)
      BY <1>1, SameSummary DEF vars, inputs, programs
    <2>2. TypeOK'
      <3>1. UNCHANGED <<inputs, programs, child, rc, trouble, script, file, parent>>
        BY <1>1 DEF vars, inputs, programs
      <3>2. /\ rc \in {0, 1} /\ trouble \in {"none", "raised", "killed"} /\ file \in Files
            /\ parent \in {"waiting", "returned"}
        BY DEF IInv, TypeOK, Files
      <3>3. child' \in {"check", "builds", "ref", "gen", "open", "dump", "hook", "hook dump", "exited"}
        BY <3>1 DEF IInv, TypeOK
      <3> QED BY <3>1, <3>2, <3>3, TypeKept
    <2>3. Unwritten' <=> Unwritten
      BY <1>1, <2>1 DEF vars, Unwritten
    <2>4. FileInv'
      BY <1>1, <2>1, <2>3 DEF vars, IInv, FileInv
    <2> QED BY <2>2, <2>4 DEF IInv
  <1> QED BY <1>1, ScriptIInv, DumpIInv, HookIInv, ParentIInv DEF Next, Done

THEOREM FileIsKept == Spec => []IInv
  BY InitIInv, NextIInv, PTL DEF Spec

\* The values of the variables; no unified verdict that is nobody's own label is
\* ever kept as a legacy one.
THEOREM TypeCorrect == Spec => []TypeOK
  BY FileIsKept, PTL DEF IInv

-----------------------------------------------------------------------------
\* The loop is prepared for every label that a comparison may leave, cut short or
\* not: what EvalLoop assumes of its Labels is what every comparison guarantees.
THEOREM LeavesKnownLabels ==
  Spec => [](Read(file) \in ALL_VERDICTS \cup LegacyLabels \cup {"none"})
  <1>1. ALL_VERDICTS \cup OwnLabels \cup {"none"} \subseteq ALL_VERDICTS \cup LegacyLabels \cup {"none"}
    BY DEF OwnLabels, LegacyLabels, ALL_VERDICTS, Comparisons
  <1>2. TypeOK => Read(file) \in ALL_VERDICTS \cup OwnLabels \cup {"none"}
    BY DEF TypeOK, Read
  <1>3. TypeOK => Read(file) \in ALL_VERDICTS \cup LegacyLabels \cup {"none"}
    BY <1>1, <1>2
  <1> QED BY <1>3, TypeCorrect, PTL

-----------------------------------------------------------------------------
(* The properties. *)

\* A file that is complete is the script's summary or that with its label
\* rewritten.
LEMMA CompleteFile ==
  ASSUME IInv, file.state = "complete"
  PROVE  /\ script \in Labels /\ child \in {"hook", "exited"} /\ ~Unwritten
         /\ file = Base \/ (file = Rewritten /\ entry \in Entries)
  <1>1. file \notin {Absent, Truncated} /\ ~Unwritten
    BY DEF Absent, Truncated, Unwritten
  <1>2. child # "hook dump"
    <2> SUFFICES ASSUME child = "hook dump" PROVE FALSE
      OBVIOUS
    <2>1. script \in Labels /\ entry \in Entries /\ file = HalfRewritten
      BY DEF IInv, FileInv, TypeOK, Names, Rewritable
    <2>2. Rewritten \in Files
      BY <2>1, HookSummary, OverrideOnce DEF Rewritten
    <2>3. HalfRewritten.state = "truncated"
      BY <2>2 DEF HalfRewritten, Files
    <2> QED BY <2>1, <2>3
  <1>3. child \in {"hook", "exited"}
    BY <1>1, <1>2 DEF IInv, TypeOK, FileInv
  <1> QED BY <1>1, <1>3 DEF IInv, TypeOK, FileInv, Names, Rewritable

\* A comparison that ended by itself leaves the unified verdict.
THEOREM LeavesUnifiedVerdict == Spec => []UnifiedVerdict
  <1>1. IInv => UnifiedVerdict
    <2> SUFFICES ASSUME IInv, Rewrites, file.state = "complete"
                 PROVE  /\ file.performance =
                              ComputeUnifiedVerdict(entry, Written(ref), Written(gen))
                        /\ file.performance_legacy =
                              IF script = file.performance THEN "none" ELSE script
      BY DEF UnifiedVerdict
    <2>1. script \in Labels /\ ~Unwritten
      BY CompleteFile
    <2>2. file = Rewritten /\ entry \in Entries
      BY <2>1 DEF Rewrites, Rewritable, IInv, FileInv, TypeOK, Names
    <2>3. /\ Base \in Files /\ Base.state = "complete" /\ Base.performance_legacy = "none"
          /\ Base.performance = script /\ script \in OwnLabels \cup {"none"}
          /\ Base.ref = Written(ref) /\ Base.gen = Written(gen)
      BY <2>1, HookSummary
    <2> QED BY <2>2, <2>3, OverrideOnce DEF Rewritten
  <1> QED BY <1>1, FileIsKept, PTL

\* Without an exception a script that does not leave has a readable summary,
\* rewritten or not.
THEOREM SummariesSurvive == Spec => []SummarySurvives
  <1>1. IInv => SummarySurvives
    <2> SUFFICES ASSUME IInv, parent = "returned", trouble = "none", ~Leaves
                 PROVE  file.state = "complete"
      BY DEF SummarySurvives
    <2>1. child = "exited" /\ ~Unwritten
      BY DEF IInv, FileInv, Unwritten
    <2>2. script \in Labels /\ (file = Base \/ (file = Rewritten /\ entry \in Entries))
      BY <2>1 DEF IInv, FileInv, TypeOK, Names, Rewritable
    <2>3. /\ Base \in Files /\ Base.state = "complete" /\ Base.performance_legacy = "none"
          /\ Base.performance = script /\ script \in OwnLabels \cup {"none"}
      BY <2>2, HookSummary
    <2> QED BY <2>2, <2>3, OverrideOnce DEF Rewritten
  <1> QED BY <1>1, FileIsKept, PTL

\* A rewritten label that compares is the verdict of the two measurements.
LEMMA RewrittenIsVerdict ==
  ASSUME IInv, entry \in Entries, script \in Labels, file = Rewritten,
         Read(file) \in Comparisons
  PROVE  /\ ref \in Values /\ gen \in Values /\ entry \in Directions
         /\ Read(file) = Classify(ImprovementPct(ref, gen, entry))
  <1>1. /\ Base \in Files /\ Base.performance_legacy = "none"
        /\ Base.performance = script /\ script \in OwnLabels \cup {"none"}
        /\ Base.state = "complete" /\ Base.ref = Written(ref) /\ Base.gen = Written(gen)
    BY HookSummary
  <1>2. Read(file) = ComputeUnifiedVerdict(entry, Written(ref), Written(gen))
    BY <1>1, OverrideOnce DEF Rewritten, Read
  <1>3. entry \in Directions
    BY <1>2, VerdictWithoutDirection DEF Comparisons
  <1>4. Written(ref) # NoMetric /\ Written(gen) # NoMetric
    BY <1>2, <1>3, VerdictOfUnmeasured DEF Comparisons
  <1>5. Written(ref) = ref /\ Written(gen) = gen /\ ref \in Values /\ gen \in Values
    BY <1>4 DEF Written
  <1> QED BY <1>2, <1>3, <1>4, <1>5, VerdictOfMeasured

\* A label that asks for a faster program and that nobody rewrote is one that
\* compare chose, of two programs that ran or reported.
LEMMA OwnLabelCompares ==
  ASSUME script \in Labels, script \notin AcceptableLabels
  PROVE  HasPerf \/ BothRan
  <1>1. "same" \in AcceptableLabels /\ "none" \in AcceptableLabels
    BY DEF AcceptableLabels
  <1>2. Comparable
    BY <1>1 DEF Labels
  <1> QED BY <1>2 DEF Comparable

\* A round of optimisation is asked for only after a comparison, and with a
\* rewritten label only after a loss of more than 5 percent.
THEOREM RetriesOnlyAfterComparison == Spec => []RetryOnlyAfterComparison
  <1>1. IInv => RetryOnlyAfterComparison
    <2> SUFFICES ASSUME IInv, parent = "returned", Read(file) \notin AcceptableLabels
                 PROVE  /\ Rewrites => Slower
                        /\ ~Rewrites => Read(file) = script /\ (HasPerf \/ BothRan)
      BY DEF RetryOnlyAfterComparison
    <2>1. file.state = "complete" /\ file.performance = Read(file)
      BY DEF AcceptableLabels, Read
    <2>2. /\ script \in Labels /\ ~Unwritten /\ child \in {"hook", "exited"}
          /\ file = Base \/ (file = Rewritten /\ entry \in Entries)
      BY <2>1, CompleteFile
    <2>3. ASSUME Rewrites PROVE Slower
      <3>1. file = Rewritten /\ entry \in Entries
        BY <2>2, <2>3 DEF Rewrites, Rewritable, IInv, FileInv, TypeOK, Names
      <3>2. Read(file) \in {"degraded", "severely_degraded"}
        <4>1. Read(file) \in ALL_VERDICTS
          <5>1. Read(file) = ComputeUnifiedVerdict(entry, Base.ref, Base.gen)
            BY <2>1, <2>2, <3>1, HookSummary, OverrideOnce DEF Rewritten
          <5> QED BY <3>1, <5>1, VerdictIsKnown
        <4> QED BY <4>1 DEF AcceptableLabels, ACCEPTABLE_VERDICTS, ALL_VERDICTS, Comparisons
      <3>3. /\ ref \in Nat /\ gen \in Nat /\ ref \in Values /\ gen \in Values
            /\ entry \in Directions
            /\ Classify(ImprovementPct(ref, gen, entry)) \in {"degraded", "severely_degraded"}
        BY <2>2, <3>1, <3>2, RewrittenIsVerdict, ValuesAssumption DEF Comparisons
      <3>4. CASE entry = "higher"
        BY <3>3, <3>4, HigherBands DEF Slower
      <3>5. CASE entry = "lower"
        BY <3>3, <3>5, LowerBands DEF Slower
      <3> QED BY <3>3, <3>4, <3>5 DEF Directions
    <2>4. ASSUME ~Rewrites PROVE Read(file) = script /\ (HasPerf \/ BothRan)
      <3>1. ~(child = "exited" /\ Rewritable /\ (hook \/ rc = 0))
        BY <2>4 DEF Rewrites, Rewritable, IInv, FileInv
      <3>2. file = Base
        BY <2>2, <3>1 DEF IInv, FileInv
      <3>3. Read(file) = script
        BY <2>1, <2>2, <3>2, HookSummary
      <3> QED BY <2>2, <3>3, OwnLabelCompares
    <2> QED BY <2>3, <2>4
  <1> QED BY <1>1, FileIsKept, PTL

\* A program that measured nothing does not hold the reference.
THEOREM UnmeasuredNeverWins == Spec => []NothingMeasuredNeverWins
  <1>1. IInv => NothingMeasuredNeverWins
    <2> SUFFICES ASSUME IInv, Rewrites, Read(file) \in {"better", "on_par"}
                 PROVE  /\ gen \in Values /\ ref \in Values
                        /\ ref > 0 => gen # 0
      BY DEF NothingMeasuredNeverWins
    <2>1. Read(file) \in Comparisons /\ file.state = "complete"
      BY DEF Comparisons, Read
    <2>2. script \in Labels /\ ~Unwritten
      BY <2>1, CompleteFile
    <2>3. file = Rewritten /\ entry \in Entries
      BY <2>2 DEF Rewrites, Rewritable, IInv, FileInv, TypeOK, Names
    <2>4. /\ ref \in Nat /\ gen \in Nat /\ ref \in Values /\ gen \in Values
          /\ entry \in Directions
          /\ Classify(ImprovementPct(ref, gen, entry)) \in {"better", "on_par"}
      BY <2>1, <2>2, <2>3, RewrittenIsVerdict, ValuesAssumption
    <2>5. CASE entry = "higher"
      BY <2>4, <2>5, HigherBands
    <2>6. CASE entry = "lower"
      BY <2>4, <2>6, LowerBands
    <2> QED BY <2>4, <2>5, <2>6 DEF Directions
  <1> QED BY <1>1, FileIsKept, PTL

\* The verdict is monotone in the measurement of the generated program.
THEOREM VerdictIsMonotone == Spec => []MonotoneInGen
  <1>1. IInv => MonotoneInGen
    <2> SUFFICES ASSUME IInv, ref \in Values, gen \in Values, ref > 0, NEW better \in Values,
                        \/ entry = "higher" /\ gen <= better
                        \/ entry = "lower" /\ 0 < better /\ better <= gen
                 PROVE  Rank(ComputeUnifiedVerdict(entry, ref, gen)) <=
                           Rank(ComputeUnifiedVerdict(entry, ref, better))
      BY DEF MonotoneInGen
    <2>1. ref \in Nat /\ gen \in Nat /\ better \in Nat /\ entry \in Directions
      BY ValuesAssumption DEF Directions
    <2> QED BY <2>1, BetterIsNeverWorse
  <1> QED BY <1>1, FileIsKept, PTL
=============================================================================
