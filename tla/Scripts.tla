------------------------------ MODULE Scripts ------------------------------
(***************************************************************************)
(* The choices a build_and_run.py makes, and the plans that most of the    *)
(* 103 scripts share.  A script is one record: its --source mode as        *)
(* CompileRun reads it, its --compare mode as CompareRun reads it.         *)
(***************************************************************************)
EXTENDS CompileRun

\* The labels the scripts' own schemes know.
OwnLabels == {"same", "better", "worse", "on_par", "degraded", "severely_degraded",
              "no_common_metrics"}

\* build_and_run.py --compare, one record per way of doing it.
\*   wants     what it calls a successful run, as in --source
\*   together  both programs are built before either is run
\*   measured  whether an unsuccessful run that reported is measured as well
\*   sides     whose metrics the summary holds: both programs' or neither's,
\*             each one's that was measured, no primary metric at all, or there
\*             is no comparison block in the summary
\*   labels    the labels of its own scheme
\*   labelled  when it writes one: both reported metrics, both ran, always, never
\*   leaves    what ends it before it writes a summary
\*   breaks    an exception it always meets, once both programs were measured
\*             or the reference measured more than zero
\*   fails     when its exit code is 1
CompareModes ==
    [wants : {"exit 0", "PASS text", "PASS report", "PASSED text", "a report", "only the report"},
     together : BOOLEAN,
     measured : {"successful", "reported"},
     sides : {"both", "each", "no primary", "absent"},
     labels : SUBSET OwnLabels,
     labelled : {"both", "both ran", "always", "never"},
     leaves : {"nothing", "a failed build", "a failed reference"},
     breaks : {"never", "measured", "positive"},
     fails : {"never", "either", "generated", "incorrect", "either or incorrect", "unless better"}]

-----------------------------------------------------------------------------
\* A compiler, "Build successful" on stdout, and the run under a time limit.
Announced(wants, limit) ==
    [compiled |-> TRUE, compiler |-> "shown", announces |-> TRUE, mourns |-> {},
     wants |-> wants, limit |-> limit]

\* The same with the announcement on stderr, in other words or not at all.
Unannounced(wants, limit) == [Announced(wants, limit) EXCEPT !.announces = FALSE]

\* build() only looks for the source.
Interpreted(limit) == [Unannounced("exit 0", limit) EXCEPT !.compiled = FALSE]

SpeedLabels == {"same", "better", "worse"}

MeasuredTogether ==
    [together |-> FALSE, measured |-> "successful", sides |-> "both", labels |-> SpeedLabels,
     labelled |-> "both", leaves |-> "nothing", breaks |-> "never"]

MeasuredApart ==
    [MeasuredTogether EXCEPT !.sides = "each", !.labels = {}, !.labelled = "never"]

Unmeasured ==
    [MeasuredTogether EXCEPT !.sides = "no primary", !.labels = {}, !.labelled = "never"]

\* The two FIFO examples measure the reference first and stop if it fails.
Fifo ==
    [MeasuredTogether EXCEPT !.sides = "each", !.leaves = "a failed reference",
        !.labels = {"better", "on_par", "degraded", "severely_degraded", "no_common_metrics"}]

\* main of most scripts: everything is passed on, a comparison returns 0.
Forwarding == [shows |-> "everything", errors |-> "shown", fails |-> "never"]

\* The ThunderKittens scripts print the JSON document they parsed.
Kitten == [shows |-> "report if exit 0", errors |-> "failing", fails |-> "never"]

\* The DeepEP scripts always print one JSON document, of a failure if need be.
DeepEP == [shows |-> "report or failure", errors |-> "hidden", fails |-> "incorrect"]

Script(single, compare, main) ==
    [source  |-> [compiled |-> single.compiled, compiler |-> single.compiler,
                  announces |-> single.announces, mourns |-> single.mourns,
                  limit |-> single.limit, wants |-> single.wants,
                  shows |-> main.shows, errors |-> main.errors],
     compare |-> [wants |-> single.wants,
                  together |-> compare.together, measured |-> compare.measured,
                  sides |-> compare.sides, labels |-> compare.labels,
                  labelled |-> compare.labelled, leaves |-> compare.leaves,
                  breaks |-> compare.breaks, fails |-> main.fails]]
=============================================================================
