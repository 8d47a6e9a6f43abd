----------------------------- MODULE CompileRun -----------------------------
(***************************************************************************)
(* What becomes of one generated program: the example's build_and_run.py   *)
(* builds and runs it, compile_and_run classifies what that script printed *)
(* and returned, and analyze_result decides pass or fail.                  *)
(*                                                                         *)
(* The 103 scripts follow one plan and differ in what they announce, in    *)
(* what they show of the program, in what they call a success and in how   *)
(* long they wait.  A script is a record of these choices; the modules     *)
(* Examples* say which script makes which.                                 *)
(*                                                                         *)
(* Text is abstracted to the set of markers the code searches it for.      *)
(***************************************************************************)
EXTENDS Integers

\* compile_and_run's timeout, in seconds, and the limit of a script without one.
PARENT_TIMEOUT == 180
NoLimit == 0

\* What a program may say on stdout beside its JSON document, the value of
\* "Correctness" in the document, and what may stand on stderr.  "PASSED" is
\* the one word that contains PASS without being the document's; "Build
\* successful" stands for "Compilation successful", too.  Nothing keeps a
\* program from saying what a build would say.
Sayings == {"PASSED", "FAIL", "Success", "Build successful", "Compilation failed"}
Reports == {"PASS", "FAIL", "none"}
StderrMarkers == {"error:", "FAIL"}

\* A generated program, by what a build and a run of it show.  It compiles if
\* this host's compiler and libraries accept it; "warns" if what the compiler
\* prints contains "error:"; and it hangs if it runs into the parent's timeout.
Programs == [compiles : BOOLEAN, warns : BOOLEAN, hangs : BOOLEAN, exit : {0, 1},
             report : Reports, says : SUBSET Sayings, complains : SUBSET StderrMarkers]

\* build_and_run.py --source, one record per way of doing it.
\*   compiled   the source goes through a compiler before it is run
\*   compiler   whether the compiler's messages reach stderr
\*   announces  stdout says "Build successful"
\*   mourns     what stdout says after a failed build
\*   limit      the seconds after which the script gives up on the run
\*   wants      what it calls a successful run
\*   shows      which part of the program's stdout it prints
\*   errors     whether it prints the program's stderr
SourceModes ==
    [compiled : BOOLEAN, compiler : {"shown", "failing", "hidden"}, announces : BOOLEAN,
     mourns : SUBSET {"Compilation failed", "FAIL"}, limit : Nat,
     wants : {"exit 0", "PASS text", "PASS report", "PASSED text", "a report", "only the report"},
     shows : {"everything", "everything if successful", "report if exit 0",
              "report if successful", "report or everything", "report or failure", "nothing"},
     errors : {"shown", "failing", "hidden", "with stdout"}]

-----------------------------------------------------------------------------
\* What the program printed on its stdout.
Prints(p) == p.says \cup ({p.report} \ {"none"})

\* The script's success flag of a run that ended.
Succeeds(script, p) ==
    \/ script.wants = "only the report" /\ p.report = "PASS"
    \/ /\ script.wants # "only the report" /\ p.exit = 0
       /\ script.wants = "PASS text" => Prints(p) \cap {"PASS", "PASSED"} # {}
       /\ script.wants = "PASSED text" => "PASSED" \in p.says
       /\ script.wants = "PASS report" => p.report = "PASS"
       /\ script.wants = "a report" => p.report # "none"

ShowsEverything(script, p) ==
    \/ script.shows = "everything"
    \/ script.shows = "everything if successful" /\ Succeeds(script, p)
    \/ script.shows \in {"report or everything", "report or failure"} /\ p.report = "none"

ShowsReport(script, p) ==
    \/ script.shows = "report if exit 0" /\ p.exit = 0
    \/ script.shows = "report if successful" /\ Succeeds(script, p)
    \/ script.shows \in {"report or everything", "report or failure"}

\* Two kinds of script say FAIL themselves when a run gave them nothing to print.
SaysFailItself(script, p) ==
    \/ script.shows = "everything if successful" /\ ~Succeeds(script, p)
    \/ script.shows = "report or failure" /\ p.report = "none"

\* What the script prints on its stdout after a run.
Shown(script, p) ==
    (IF ShowsEverything(script, p) THEN Prints(p)
     ELSE IF ShowsReport(script, p) THEN {p.report} \ {"none"} ELSE {})
    \cup (IF SaysFailItself(script, p) THEN {"FAIL"} ELSE {})

\* And on its stderr: nothing of the program, its complaints, its complaints if
\* it failed, or everything the program printed and the script's own verdict.
Complaints(script, p) ==
    (IF \/ script.errors \in {"shown", "with stdout"}
        \/ script.errors = "failing" /\ ~Succeeds(script, p)
     THEN p.complains ELSE {})
    \cup (IF script.errors = "with stdout" /\ ("FAIL" \in Prints(p) \/ ~Succeeds(script, p))
          THEN {"FAIL"} ELSE {})

Announcement(script) == IF script.announces THEN {"Build successful"} ELSE {}

\* The script after a failed build: no run, exit code 1.
BuildFailed(script, p) ==
    [returncode |-> 1,
     stdout |-> script.mourns,
     stderr |-> IF p.warns /\ script.compiler # "hidden" THEN {"error:"} ELSE {}]

\* After a run that took longer than the script's own limit: the program is
\* killed and what it printed is dropped.
GivenUp(script, p) ==
    [returncode |-> 1,
     stdout |-> Announcement(script),
     stderr |-> (IF p.warns /\ script.compiler = "shown" THEN {"error:"} ELSE {}) \cup
                (IF script.errors = "with stdout" THEN {"FAIL"} ELSE {})]

\* After a run that ended.  Exit code 0 exactly if the script calls it a success.
Ran(script, p) ==
    [returncode |-> IF Succeeds(script, p) THEN 0 ELSE 1,
     stdout |-> Announcement(script) \cup Shown(script, p),
     stderr |-> Complaints(script, p) \cup
                (IF p.warns /\ script.compiled /\ script.compiler = "shown"
                 THEN {"error:"} ELSE {})]

Builds(script, p) == p.compiles \/ ~script.compiled

\* A source that is interpreted, or compiled while it runs, fails in the run.
Behaviour(script, p) ==
    IF p.compiles THEN p
    ELSE [p EXCEPT !.hangs = FALSE, !.exit = 1, !.report = "none", !.says = {}]

OwnLimit(script) == script.limit # NoLimit /\ script.limit < PARENT_TIMEOUT

\* The CompileRunResult of a validation error, a timeout or an exception.
NotRun == [compile_success |-> FALSE, run_success |-> FALSE,
           run_stdout |-> {}, run_stderr |-> {}, returncode |-> -1]

\* Mutant: the compiler's "error:" is looked for before the banner.
ErrorsFirst(child) ==
    "error:" \notin child.stderr /\ ("Build successful" \in child.stdout \/ child.returncode = 0)

\* The banner, whoever printed it, then the signs of a failure, then the exit code.
CompileSuccess(child) ==
    \/ "Build successful" \in child.stdout
    \/ /\ "Compilation failed" \notin child.stdout
       /\ "error:" \notin child.stderr
       /\ child.returncode = 0

\* Mutant: "success" in any capitalisation claims a successful run, as it does
\* in analyze_result; the build banner contains it.
AnySuccessClaims(child) ==
    \/ child.returncode = 0
    \/ child.stdout \cap {"PASS", "PASSED", "Success", "Build successful"} # {}

RunSuccess(child) ==
    child.returncode = 0 \/ child.stdout \cap {"PASS", "PASSED", "Success"} # {}

\* compile_and_run on the output of a child that ended by itself.
ClassifyOutput(child) ==
    LET compiled == CompileSuccess(child)
    IN [compile_success |-> compiled,
        run_success     |-> compiled /\ RunSuccess(child),
        run_stdout      |-> IF compiled THEN child.stdout ELSE {},
        run_stderr      |-> IF compiled THEN child.stderr ELSE {},
        returncode      |-> child.returncode]

\* compile_and_run on a program: the source file must be in the working
\* directory, and the script must end before the timeout, which a slow build may
\* use up alone.  A script with a limit of its own may give up on a slow run.
CompileAndRun(script, source_exists, p) ==
    LET q == Behaviour(script, p)
        children == IF ~Builds(script, p) THEN {BuildFailed(script, p)}
                    ELSE (IF q.hangs THEN {} ELSE {Ran(script, q)})
                         \cup (IF OwnLimit(script) THEN {GivenUp(script, q)} ELSE {})
    IN {NotRun} \cup (IF source_exists THEN {ClassifyOutput(c) : c \in children} ELSE {})

\* "success" in run_stdout.lower(): the word in any capitalisation, the build
\* banner's included.
SaysSuccess(text) == text \cap {"Success", "Build successful"} # {}

\* Mutant: only the standard output is searched for FAIL.
FailOnStdoutOnly(r) ==
    CASE ~r.compile_success -> [passed |-> FALSE, reason |-> "compilation failed"]
      [] r.compile_success /\ ~r.run_success -> [passed |-> FALSE, reason |-> "execution failed"]
      [] r.run_success /\ "FAIL" \in r.run_stdout -> [passed |-> FALSE, reason |-> "marked as FAIL"]
      [] OTHER -> [passed |-> TRUE, reason |-> "test passed"]

\* Mutant: the markers are searched before the exit code is looked at.
MarkersFirst(r) ==
    CASE ~r.compile_success -> [passed |-> FALSE, reason |-> "compilation failed"]
      [] r.compile_success /\ "FAIL" \in r.run_stdout \cup r.run_stderr ->
            [passed |-> FALSE, reason |-> "marked as FAIL"]
      [] OTHER -> [passed |-> r.run_success,
                   reason |-> IF r.run_success THEN "test passed" ELSE "execution failed"]

AnalyzeResult(r) ==
    IF ~r.compile_success THEN [passed |-> FALSE, reason |-> "compilation failed"]
    ELSE IF ~r.run_success THEN [passed |-> FALSE, reason |-> "execution failed"]
    ELSE IF "FAIL" \in r.run_stdout \cup r.run_stderr
    THEN [passed |-> FALSE, reason |-> "marked as FAIL"]
    ELSE IF r.run_stdout \cap {"PASS", "PASSED"} # {} \/ SaysSuccess(r.run_stdout)
    THEN [passed |-> TRUE, reason |-> "test passed"]
    ELSE IF r.returncode = 0 THEN [passed |-> TRUE, reason |-> "execution completed"]
    ELSE [passed |-> FALSE, reason |-> "unknown failure"]

\* The heading of get_error_details, the text fed back to the model.
GetErrorDetails(r) ==
    IF ~r.compile_success THEN "COMPILATION ERROR"
    ELSE IF ~r.run_success THEN "EXECUTION ERROR"
    ELSE "TEST FAILURE"
=============================================================================
