----------------------------- MODULE CompareRun -----------------------------
(***************************************************************************)
(* One comparison of a round: compare_save_results starts build_and_run.py *)
(* --compare, the script measures the reference and the generated program  *)
(* and writes summary.json with a label of its own scheme, the script's    *)
(* atexit hook rewrites that label with the unified verdict, and the       *)
(* parent rewrites it again when the script returned 0.  The parent may    *)
(* give up and kill the script between any two of these steps.             *)
(***************************************************************************)
EXTENDS Verdict, Scripts

CONSTANTS
    Values,       \* what a primary metric may measure
    OtherMetrics, \* a program reported metrics, the primary one not among them
    Modes         \* the ways the examples' scripts compare

ASSUME OtherMetricsAssumption == OtherMetrics \notin Int /\ OtherMetrics # NoMetric
ASSUME ValuesAssumption == Values \subseteq Nat
ASSUME ModesAssumption == Modes \subseteq CompareModes

Metrics == Values \cup {NoMetric, OtherMetrics}

\* "unnamed": no exampleNNN directory on the path, _infer_example_name is None.
Names == Entries \cup {"unnamed"}

VARIABLES
    mode,     \* how the example's script compares
    entry,    \* the example's entry in PERF_METRICS
    hook,     \* the script could import perf_verdict and registered its hook
    child,    \* the step the script is at
    rc,       \* its exit code
    trouble,  \* "raised": an exception ended the script; "killed": the parent did
    refRun,   \* how the reference and the generated program did
    genRun,
    ref, gen, \* what the two programs measured
    script,   \* the label the script wrote, "none" before and without one
    file,     \* summary.json
    parent    \* "waiting" for the script, or "returned"

vars == <<mode, entry, hook, child, rc, trouble, refRun, genRun, ref, gen, script, file, parent>>
inputs == <<mode, entry, hook>>
programs == <<refRun, genRun, ref, gen>>

-----------------------------------------------------------------------------
Absent == [state |-> "absent", ref |-> NoMetric, gen |-> NoMetric,
           performance |-> "none", performance_legacy |-> "none"]
Truncated == [Absent EXCEPT !.state = "truncated"]

Summary(r, g, label) ==
    [state |-> "complete", ref |-> r, gen |-> g,
     performance |-> label, performance_legacy |-> "none"]

\* Does override_summary_verdict find something to rewrite?
Overridable(f) == f.state = "complete" /\ entry # "unnamed" /\ mode.sides # "absent"

\* Mutant: whatever label it finds is recorded as the legacy one.
OverrideAlwaysKeeping(f) ==
    LET verdict == ComputeUnifiedVerdict(entry, f.ref, f.gen)
    IN [f EXCEPT !.performance = verdict, !.performance_legacy = f.performance]

\* The rewritten summary: the label it had is kept as the legacy one, if differing.
Override(f) ==
    LET verdict == ComputeUnifiedVerdict(entry, f.ref, f.gen)
    IN [f EXCEPT !.performance = verdict,
                 !.performance_legacy =
                     IF f.performance \notin {"none", verdict} THEN f.performance ELSE @]

\* What generate_eval_one finds: nothing in a missing or unreadable file.
Read(f) == IF f.state = "complete" THEN f.performance ELSE "none"

\* The labels after which it asks for no faster program.
AcceptableLabels == ACCEPTABLE_VERDICTS \cup {"same", "improved", "none"}

-----------------------------------------------------------------------------
NotRunYet == [built |-> FALSE, success |-> FALSE, correct |-> FALSE]

\* How a program may do: "success" is what the script calls one, "correct" that
\* its document says PASS.
Outcomes ==
    {o \in [built : BOOLEAN, success : BOOLEAN, correct : BOOLEAN] :
        /\ o.success \/ o.correct => o.built
        /\ mode.wants = "PASS report" /\ o.success => o.correct
        /\ mode.wants = "only the report" => (o.success <=> o.correct)}

\* What it may have measured: nothing that it reports, other metrics only, or
\* its primary one.
Measures(o) ==
    {NoMetric} \cup
    (IF o.success \/ (o.built /\ mode.measured = "reported") THEN Values \cup {OtherMetrics} ELSE {})

BothBuilt == refRun.built /\ genRun.built
HasPerf == ref # NoMetric /\ gen # NoMetric
BothRan == refRun.success /\ genRun.success

\* Whether main leaves, or compare raises, before there is a summary.
Leaves ==
    \/ mode.leaves = "a failed build" /\ ~BothBuilt
    \/ mode.leaves = "a failed reference" /\ ~refRun.success
    \/ mode.breaks = "measured" /\ HasPerf
    \/ mode.breaks = "positive" /\ HasPerf /\ ref \in Values /\ ref > 0

\* Has compare what its own scheme compares?
Comparable ==
    IF mode.labelled = "both ran" THEN BothRan ELSE mode.labelled # "never" /\ HasPerf

\* Mutant: a label is chosen whether or not the programs ran.
LabelsUnguarded == IF mode.labelled = "never" THEN {"none"} ELSE mode.labels

\* The labels compare may write.
Labels ==
    IF Comparable THEN mode.labels
    ELSE IF mode.labelled = "always" THEN {"same"}
    ELSE {"none"}

\* What the summary tells of a program's primary metric.
Written(metric) ==
    IF metric \in Values /\ (mode.sides = "each" \/ (mode.sides = "both" /\ HasPerf))
    THEN metric ELSE NoMetric

\* What main calls a failed comparison, given the label.
Fails(label) ==
    \/ mode.fails = "either" /\ ~BothRan
    \/ mode.fails = "generated" /\ ~genRun.success
    \/ mode.fails = "incorrect" /\ ~genRun.correct
    \/ /\ mode.fails = "either or incorrect"
       /\ ~(BothRan /\ refRun.correct /\ genRun.correct)
    \/ mode.fails = "unless better" /\ label # "better"

Init ==
    /\ mode \in Modes /\ entry \in Names /\ hook \in BOOLEAN
    /\ child = "check" /\ rc = 0 /\ trouble = "none"
    /\ refRun = NotRunYet /\ genRun = NotRunYet
    /\ ref = NoMetric /\ gen = NoMetric /\ script = "none"
    /\ file = Absent
    /\ parent = "waiting"

Alive == parent = "waiting" /\ child # "exited"

\* A missing source, or an exception in the script: exit code 1, hook run.
Raise ==
    /\ Alive /\ child \in {"check", "builds", "ref", "gen", "open", "dump"}
    /\ rc' = 1
    /\ trouble' = "raised"
    /\ child' = "hook"
    /\ UNCHANGED <<inputs, programs, script, file, parent>>

Check ==
    /\ Alive /\ child = "check"
    /\ child' = IF mode.together THEN "builds" ELSE "ref"
    /\ UNCHANGED <<inputs, programs, rc, trouble, script, file, parent>>

\* Some scripts build both programs before they run one, and run neither if
\* one of them does not build.
BuildBoth ==
    /\ Alive /\ child = "builds"
    /\ \E r, g \in BOOLEAN :
          /\ refRun' = [NotRunYet EXCEPT !.built = r]
          /\ genRun' = [NotRunYet EXCEPT !.built = g]
          /\ child' = IF r /\ g THEN "ref" ELSE "open"
    /\ UNCHANGED <<inputs, rc, trouble, ref, gen, script, file, parent>>

\* Build the reference, unless it was, and run it.
RunRef ==
    /\ Alive /\ child = "ref"
    /\ refRun' \in Outcomes /\ (mode.together => refRun'.built)
    /\ ref' \in Measures(refRun')
    /\ child' = "gen"
    /\ UNCHANGED <<inputs, rc, trouble, genRun, gen, script, file, parent>>

RunGen ==
    /\ Alive /\ child = "gen"
    /\ genRun' \in Outcomes /\ (mode.together => genRun'.built)
    /\ gen' \in Measures(genRun')
    /\ child' = "open"
    /\ UNCHANGED <<inputs, rc, trouble, refRun, ref, script, file, parent>>

Leave ==
    /\ Alive /\ child = "open" /\ Leaves
    /\ rc' = 1
    /\ child' = "hook"
    /\ UNCHANGED <<inputs, programs, trouble, script, file, parent>>

OpenSummary ==
    /\ Alive /\ child = "open" /\ ~Leaves
    /\ file' = Truncated
    /\ child' = "dump"
    /\ UNCHANGED <<inputs, programs, rc, trouble, script, parent>>

DumpSummary ==
    /\ Alive /\ child = "dump"
    /\ script' \in Labels
    /\ file' = Summary(Written(ref), Written(gen), script')
    /\ rc' = IF Fails(script') THEN 1 ELSE 0
    /\ child' = "hook"
    /\ UNCHANGED <<inputs, programs, trouble, parent>>

\* Mutant: an error in the hook's json.dump is swallowed, the file open for writing.
HookOpensForGood ==
    /\ Alive /\ child = "hook" /\ hook /\ Overridable(file)
    /\ file' = [Override(file) EXCEPT !.state = "truncated"]
    /\ child' = "exited"
    /\ UNCHANGED <<inputs, programs, rc, trouble, script, parent>>

\* The atexit hook reads the summary and opens it for writing.
HookOpens ==
    /\ Alive /\ child = "hook" /\ hook /\ Overridable(file)
    /\ file' = [Override(file) EXCEPT !.state = "truncated"]
    /\ child' = "hook dump"
    /\ UNCHANGED <<inputs, programs, rc, trouble, script, parent>>

HookDumps ==
    /\ Alive /\ child = "hook dump"
    /\ file' = [file EXCEPT !.state = "complete"]
    /\ child' = "exited"
    /\ UNCHANGED <<inputs, programs, rc, trouble, script, parent>>

HookSkips ==
    /\ Alive /\ child = "hook" /\ ~(hook /\ Overridable(file))
    /\ child' = "exited"
    /\ UNCHANGED <<inputs, programs, rc, trouble, script, file, parent>>

\* _run_in_new_session gives up: the signal ends the script where it stands,
\* without its atexit hooks, and compare_save_results returns False.
Timeout ==
    /\ Alive
    /\ trouble' = "killed"
    /\ parent' = "returned"
    /\ UNCHANGED <<inputs, programs, child, rc, script, file>>

\* Mutant: the label is rewritten only when the script failed.
CollectSwapped ==
    /\ parent = "waiting" /\ child = "exited"
    /\ file' = IF rc # 0 /\ Overridable(file) THEN Override(file) ELSE file
    /\ parent' = "returned"
    /\ UNCHANGED <<inputs, programs, child, rc, trouble, script>>

\* The script ended: rewrite the label if it returned 0, and return.
Collect ==
    /\ parent = "waiting" /\ child = "exited"
    /\ file' = IF rc = 0 /\ Overridable(file) THEN Override(file) ELSE file
    /\ parent' = "returned"
    /\ UNCHANGED <<inputs, programs, child, rc, trouble, script>>

Done == parent = "returned" /\ UNCHANGED vars

Next ==
    \/ Raise \/ Check \/ BuildBoth \/ RunRef \/ RunGen \/ Leave
    \/ OpenSummary \/ DumpSummary
    \/ HookOpens \/ HookDumps \/ HookSkips
    \/ Timeout \/ Collect
    \/ Done

Spec == Init /\ [][Next]_vars

-----------------------------------------------------------------------------
States == {"absent", "truncated", "complete"}

\* The values of the variables; above all, a verdict of the unified scheme that
\* no script writes is never kept as the legacy label.
TypeOK ==
    /\ mode \in Modes /\ entry \in Names /\ hook \in BOOLEAN
    /\ child \in {"check", "builds", "ref", "gen", "open", "dump", "hook", "hook dump", "exited"}
    /\ rc \in {0, 1} /\ trouble \in {"none", "raised", "killed"}
    /\ refRun \in [built : BOOLEAN, success : BOOLEAN, correct : BOOLEAN]
    /\ genRun \in [built : BOOLEAN, success : BOOLEAN, correct : BOOLEAN]
    /\ ref \in Metrics /\ gen \in Metrics
    /\ script \in OwnLabels \cup {"none"}
    /\ file \in [state : States, ref : Metrics, gen : Metrics,
                 performance : ALL_VERDICTS \cup OwnLabels \cup {"none"},
                 performance_legacy : OwnLabels \cup {"none"}]
    /\ parent \in {"waiting", "returned"}

\* The comparison ended by itself and the hook, the parent or both came to
\* rewrite the label.
Rewrites ==
    /\ parent = "returned" /\ trouble # "killed"
    /\ hook \/ rc = 0
    /\ entry # "unnamed" /\ mode.sides # "absent"

\* A comparison that ended by itself and left a summary leaves the unified
\* verdict of what it wrote, whichever of the hook, the parent or both rewrote
\* the label and whatever the script called the outcome; the label of the
\* script's own scheme survives beside it.
\* (compile_run.py, lines 805-813; perf_verdict.py, lines 434-440.)
UnifiedVerdict ==
    Rewrites /\ file.state = "complete" =>
        /\ file.performance = ComputeUnifiedVerdict(entry, Written(ref), Written(gen))
        /\ file.performance_legacy = IF script = file.performance THEN "none" ELSE script

\* Only an exception, or a script that says it leaves, leaves no readable
\* summary behind: never the rewriting of a label.  (Lines 434-448.)
SummarySurvives ==
    parent = "returned" /\ trouble = "none" /\ ~Leaves => file.state = "complete"

\* The generated program lost more than 5 percent in the metric's direction, or
\* has no latency at all.
Slower ==
    /\ ref \in Values /\ gen \in Values /\ ref > 0
    /\ \/ entry = "higher" /\ 100 * gen < 95 * ref
       \/ entry = "lower" /\ (100 * gen > 105 * ref \/ gen = 0)

\* Whatever label asks for a faster program, two programs were compared: with a
\* label that was rewritten the generated one was measured to be slower; a label
\* that was not - the script was killed before its hook came to it, it failed and
\* has no hook, or its example has no name - is the one the script chose, and both
\* programs ran or reported metrics.  A script that is killed earlier, between its
\* two programs or while a file is half written, never asks for one.  (The loop
\* also accepts what it takes for an information-only summary.)
\* (generate_eval_one.py, lines 488-520; perf_verdict.py, lines 272-306, 340-444.)
RetryOnlyAfterComparison ==
    parent = "returned" /\ Read(file) \notin AcceptableLabels =>
        IF Rewrites THEN Slower ELSE Read(file) = script /\ (HasPerf \/ BothRan)

\* A program that measured nothing, or zero, where the reference measured
\* something is never said to hold or beat it, once the label is the unified
\* one.  (perf_verdict.py, lines 15-20 and 285-286.)
NothingMeasuredNeverWins ==
    Rewrites /\ Read(file) \in {"better", "on_par"} =>
        /\ gen \in Values /\ ref \in Values
        /\ ref > 0 => gen # 0

\* In the direction of its metric, measuring better never earns a worse verdict,
\* a latency of zero aside.  (perf_verdict.py, lines 272-306.)
MonotoneInGen ==
    parent = "returned" /\ ref \in Values /\ gen \in Values /\ ref > 0 =>
        \A better \in Values :
            \/ entry = "higher" /\ gen <= better
            \/ entry = "lower" /\ 0 < better /\ better <= gen
            => Rank(ComputeUnifiedVerdict(entry, ref, gen)) <=
                  Rank(ComputeUnifiedVerdict(entry, ref, better))

-----------------------------------------------------------------------------
(* What the repository says and the code does not do. *)

\* A script that labels every comparison lets the unified verdict have the
\* example's primary metric once both programs measured it: "example009 emits
\* `bandwidth_gbps`".  (perf_verdict.py, line 142.)
PrimaryMetricIsEmitted ==
    Rewrites /\ trouble = "none" /\ mode.labelled = "always" /\ ref \in Values /\ gen \in Values =>
        Read(file) = ComputeUnifiedVerdict(entry, ref, gen)
=============================================================================
