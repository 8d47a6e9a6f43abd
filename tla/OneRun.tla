------------------------------- MODULE OneRun -------------------------------
(***************************************************************************)
(* One round's verdict on one generated program, step by step: the         *)
(* example's script builds and runs it, gives up on it, or is given up on; *)
(* compile_and_run classifies what came back; analyze_result and           *)
(* get_error_details turn that into pass or fail and into the text the     *)
(* model is shown next.                                                    *)
(***************************************************************************)
EXTENDS CompileRun

CONSTANT Scripts   \* the ways the examples' scripts go about it

ASSUME ScriptsAssumption == Scripts \subseteq SourceModes

VARIABLES
    phase,         \* "validate", "building", "running", "ended", "analyze", "done"
    script,        \* the example's build_and_run.py
    program,       \* what the source in the working directory is
    child,         \* what the script has printed so far, and its exit code or -1
    result,        \* the CompileRunResult
    verdict        \* what analyze_result returned, and the heading of the feedback

vars == <<phase, script, program, child, result, verdict>>

NoChild == [returncode |-> -1, stdout |-> {}, stderr |-> {}]
NoVerdict == [passed |-> FALSE, reason |-> "none", heading |-> "none"]

Init ==
    /\ phase = "validate"
    /\ script \in Scripts
    /\ program \in Programs
    /\ child = NoChild
    /\ result = NotRun
    /\ verdict = NoVerdict

Validate ==
    /\ phase = "validate"
    /\ phase' = "building"
    /\ UNCHANGED <<script, program, child, result, verdict>>

\* No directory, no source file or no build_and_run.py.
Invalid ==
    /\ phase = "validate"
    /\ phase' = "analyze"
    /\ UNCHANGED <<script, program, child, result, verdict>>

\* Without an executable the script exits with 1 at once.
Build ==
    /\ phase = "building"
    /\ IF Builds(script, program)
       THEN phase' = "running" /\ child' = [NoChild EXCEPT !.stdout = Announcement(script)]
       ELSE phase' = "ended" /\ child' = BuildFailed(script, program)
    /\ UNCHANGED <<script, program, result, verdict>>

RunEnds ==
    /\ phase = "running" /\ ~Behaviour(script, program).hangs
    /\ child' = Ran(script, Behaviour(script, program))
    /\ phase' = "ended"
    /\ UNCHANGED <<script, program, result, verdict>>

\* The script's own limit, shorter than the parent's, is over; the program may
\* have been about to end.
GivesUp ==
    /\ phase = "running" /\ OwnLimit(script)
    /\ child' = GivenUp(script, Behaviour(script, program))
    /\ phase' = "ended"
    /\ UNCHANGED <<script, program, result, verdict>>

\* Mutant: what the script printed until the timeout is classified.
TimesOutWithOutput ==
    /\ phase \in {"building", "running"}
    /\ result' = ClassifyOutput(child)
    /\ phase' = "analyze"
    /\ UNCHANGED <<script, program, child, verdict>>

\* TimeoutExpired, in a slow build as in a hanging run: the output is dropped.
TimesOut ==
    /\ phase \in {"building", "running"}
    /\ result' = NotRun
    /\ phase' = "analyze"
    /\ UNCHANGED <<script, program, child, verdict>>

Classify ==
    /\ phase = "ended"
    /\ result' = ClassifyOutput(child)
    /\ phase' = "analyze"
    /\ UNCHANGED <<script, program, child, verdict>>

Analyze ==
    /\ phase = "analyze"
    /\ LET analysis == AnalyzeResult(result)
       IN verdict' = [passed  |-> analysis.passed,
                      reason  |-> analysis.reason,
                      heading |-> IF analysis.passed THEN "none" ELSE GetErrorDetails(result)]
    /\ phase' = "done"
    /\ UNCHANGED <<script, program, child, result>>

Done == phase = "done" /\ UNCHANGED vars

Next ==
    \/ Validate \/ Invalid \/ Build \/ RunEnds \/ GivesUp \/ TimesOut
    \/ Classify \/ Analyze \/ Done

Spec == Init /\ [][Next]_vars

-----------------------------------------------------------------------------
Passed == phase = "done" /\ verdict.passed

\* A pass means: the program was built, it ended by itself, and FAIL stands
\* neither in what the script lets through nor, if that holds the program's
\* document, in the document.  A script that shows nothing can only go by the
\* exit code.  (compile_run.py, lines 535-555.)
FailTextNeverPasses ==
    Passed =>
        /\ program.compiles /\ ~program.hangs
        /\ script.shows = "everything" => "FAIL" \notin Prints(program)
        /\ script.errors = "shown" => "FAIL" \notin program.complains
        /\ script.shows # "nothing" => program.report # "FAIL"

\* A program that exits with an error passes only on a PASS or Success of its
\* own that the script lets through, never on the banner of the build, and only
\* with a banner beside it, the build's or one it printed itself: the search does
\* not tell them apart.  A script that goes by the program's document alone
\* returns 0 for such a program.  (Lines 700-716.)
CrashPassesOnlyOnItsWord ==
    Passed /\ program.exit # 0 =>
        \/ /\ Shown(script, program) \cap {"PASS", "PASSED", "Success"} # {}
           /\ script.announces \/ "Build successful" \in Shown(script, program)
        \/ script.wants = "only the report" /\ program.report = "PASS"

\* A build that was announced is not blamed for what the run did, even if the
\* program or a warning prints "error:" or the script gives up on the run: the
\* model is told to fix a compilation only if there was none or the parent's
\* timeout dropped all output.  (Lines 700-707, 575-599 and 738.)
NotBlamedOnBuild ==
    phase = "done" /\ script.announces /\ child.returncode # -1
        /\ verdict.heading = "COMPILATION ERROR" =>
            ~program.compiles

\* The reason on the console and the heading in the next prompt tell the same
\* failure, and there is always one: "Unknown failure" is never reported.
\* (Lines 519-599: two functions that decide it separately.)
FeedbackMatchesReason ==
    phase = "done" /\ ~verdict.passed =>
        <<verdict.reason, verdict.heading>> \in
            {<<"compilation failed", "COMPILATION ERROR">>,
             <<"execution failed", "EXECUTION ERROR">>,
             <<"marked as FAIL", "TEST FAILURE">>}
-----------------------------------------------------------------------------
Contract == INSTANCE RunContract WITH
    answer <- [result |-> IF phase = "done" THEN result ELSE NotRun,
               passed |-> verdict.passed,
               given  |-> phase = "done"]

\* Step by step, compile_and_run and analyze_result answer what the loop takes
\* them to answer in one step: a result the program can earn in this script, or
\* none at all, and its verdict; never a timeout's half of an output.
\* (Lines 654-758.)
ImplementsRunContract == Contract!Spec
=============================================================================
