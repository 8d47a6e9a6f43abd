---------------------------- MODULE OneRunProofs ----------------------------
(***************************************************************************)
(* The verdict on one program is right for every way a script may go about *)
(* it, not only for the 103 the repository holds.  The inductive invariant *)
(* says where the child's output comes from: it is that of a failed build, *)
(* of a run that ended or of one the script gave up on, and the result is  *)
(* what compile_and_run makes of it, or NotRun.                            *)
(***************************************************************************)
EXTENDS OneRun, TLAPS

Phases == {"validate", "building", "running", "ended", "analyze", "done"}

\* The child came back with one of the outputs its script can produce.
CameBack ==
    \/ ~Builds(script, program) /\ child = BuildFailed(script, program)
    \/ /\ Builds(script, program)
       /\ ~Behaviour(script, program).hangs
       /\ child = Ran(script, Behaviour(script, program))
    \/ /\ Builds(script, program) /\ OwnLimit(script)
       /\ child = GivenUp(script, Behaviour(script, program))

\* compile_and_run came back with NotRun, or with what it makes of that output.
Classified ==
    \/ result = NotRun
    \/ CameBack /\ result = ClassifyOutput(child)

Judged ==
    verdict = [passed  |-> AnalyzeResult(result).passed,
               reason  |-> AnalyzeResult(result).reason,
               heading |-> IF AnalyzeResult(result).passed THEN "none"
                           ELSE GetErrorDetails(result)]

TypeOK ==
    /\ phase \in Phases
    /\ script \in SourceModes
    /\ program \in Programs

IInv ==
    /\ TypeOK
    /\ phase \in {"validate", "building", "running"} =>
          child.returncode = -1 /\ result = NotRun
    /\ phase = "running" => Builds(script, program)
    /\ phase = "ended" => CameBack
    /\ phase \in {"analyze", "done"} =>
          /\ Classified
          /\ child.returncode # -1 => result # NotRun
    /\ phase = "done" => Judged

-----------------------------------------------------------------------------
\* What a result must look like for analyze_result to let it pass.
LEMMA PassMeans ==
  ASSUME NEW r, AnalyzeResult(r).passed
  PROVE  /\ r.compile_success /\ r.run_success
         /\ "FAIL" \notin r.run_stdout /\ "FAIL" \notin r.run_stderr
  BY DEF AnalyzeResult

\* A child's output that passes: it was classified as built and run, and FAIL
\* is on neither stream.
LEMMA PassedOutput ==
  ASSUME NEW c, AnalyzeResult(ClassifyOutput(c)).passed
  PROVE  /\ CompileSuccess(c) /\ RunSuccess(c)
         /\ "FAIL" \notin c.stdout /\ "FAIL" \notin c.stderr
  <1> DEFINE r == ClassifyOutput(c)
  <1>1. /\ r.compile_success /\ r.run_success
        /\ "FAIL" \notin r.run_stdout /\ "FAIL" \notin r.run_stderr
    BY PassMeans
  <1>2. CompileSuccess(c) /\ RunSuccess(c)
    BY <1>1 DEF ClassifyOutput
  <1> QED BY <1>1, <1>2 DEF ClassifyOutput

\* NotRun never passes.
LEMMA NotRunFails == ~AnalyzeResult(NotRun).passed
  BY DEF AnalyzeResult, NotRun

LEMMA InitIInv == Init => IInv
  BY ScriptsAssumption DEF Init, IInv, TypeOK, Phases, NoChild

\* The exit code of a child that came back is no longer -1.
LEMMA CameBackEnded == CameBack => child.returncode \in {0, 1}
  <1>1. ASSUME child = BuildFailed(script, program) PROVE child.returncode = 1
    BY <1>1 DEF BuildFailed
  <1>2. ASSUME NEW p, child = Ran(script, p) PROVE child.returncode \in {0, 1}
    BY <1>2 DEF Ran
  <1>3. ASSUME NEW p, child = GivenUp(script, p) PROVE child.returncode = 1
    BY <1>3 DEF GivenUp
  <1> QED BY <1>1, <1>2, <1>3 DEF CameBack

LEMMA NextIInv == IInv /\ [Next]_vars => IInv'
  <1> SUFFICES ASSUME IInv, [Next]_vars PROVE IInv'
    OBVIOUS
  <1> USE DEF IInv, TypeOK, Phases
  <1>1. CASE Validate
    BY <1>1 DEF Validate
  <1>2. CASE Invalid
    BY <1>2 DEF Invalid, Classified
  <1>3. CASE Build
    <2>1. CASE Builds(script, program)
      <3>1. child' = [NoChild EXCEPT !.stdout = Announcement(script)] /\ phase' = "running"
        BY <1>3, <2>1 DEF Build
      <3>2. child'.returncode = -1
        BY <3>1 DEF NoChild
      <3> QED BY <1>3, <2>1, <3>1, <3>2 DEF Build
    <2>2. CASE ~Builds(script, program)
      <3>1. child' = BuildFailed(script, program) /\ phase' = "ended"
        BY <1>3, <2>2 DEF Build
      <3> QED BY <1>3, <2>2, <3>1 DEF Build, CameBack
    <2> QED BY <2>1, <2>2
  <1>4. CASE RunEnds
    BY <1>4 DEF RunEnds, CameBack
  <1>5. CASE GivesUp
    BY <1>5 DEF GivesUp, CameBack
  <1>6. CASE TimesOut
    BY <1>6 DEF TimesOut, Classified
  <1>7. CASE Classify
    <2>1. result' # NotRun
      BY <1>7, CameBackEnded DEF Classify, ClassifyOutput, NotRun
    <2> QED BY <1>7, <2>1 DEF Classify, Classified, CameBack
  <1>8. CASE Analyze
    BY <1>8 DEF Analyze, Judged, Classified, CameBack
  <1>9. CASE Done \/ UNCHANGED vars
    BY <1>9 DEF Done, vars, Classified, CameBack, Judged
  <1> QED BY <1>1, <1>2, <1>3, <1>4, <1>5, <1>6, <1>7, <1>8, <1>9 DEF Next

-----------------------------------------------------------------------------
\* A round that passed has an output that came back and was let through.
LEMMA PassedRound ==
  ASSUME IInv, Passed
  PROVE  /\ CameBack
         /\ CompileSuccess(child) /\ RunSuccess(child)
         /\ "FAIL" \notin child.stdout /\ "FAIL" \notin child.stderr
  <1>1. AnalyzeResult(result).passed
    BY DEF IInv, Passed, Judged
  <1>2. CameBack /\ result = ClassifyOutput(child)
    BY <1>1, NotRunFails DEF IInv, Passed, Classified
  <1> QED BY <1>1, <1>2, PassedOutput

\* Without a word of its own on stdout, a child that did not exit with 0 did
\* not run successfully.
LEMMA NoClaim ==
  ASSUME NEW c, c.returncode # 0, c.stdout \subseteq {"Build successful", "FAIL"}
  PROVE  ~RunSuccess(c)
  <1>1. ASSUME NEW x \in c.stdout, x \in {"PASS", "PASSED", "Success"} PROVE FALSE
    <2>1. x = "Build successful" \/ x = "FAIL"
      OBVIOUS
    <2>2. x = "PASS" \/ x = "PASSED" \/ x = "Success"
      BY <1>1
    <2> QED BY <2>1, <2>2
  <1>2. c.stdout \cap {"PASS", "PASSED", "Success"} = {}
    <2> DEFINE W == {"PASS", "PASSED", "Success"}
    <2>1. ASSUME NEW x \in c.stdout, x \in W PROVE FALSE
      BY <1>1, <2>1
    <2> HIDE DEF W
    <2>2. c.stdout \cap W = {}
      BY <2>1
    <2> QED BY <2>2 DEF W
  <1> QED BY <1>2, Zenon DEF RunSuccess

\* Neither a failed build nor a run that was given up on can pass.
LEMMA OnlyARunPasses ==
  ASSUME IInv, Passed
  PROVE  /\ program.compiles /\ ~program.hangs
         /\ child = Ran(script, program)
  <1>a. script \in SourceModes /\ program \in Programs
    BY DEF IInv, TypeOK
  <1>b. /\ CameBack /\ CompileSuccess(child) /\ RunSuccess(child)
    BY PassedRound
  <1>1. ASSUME child = BuildFailed(script, program) PROVE FALSE
    <2>1. child.stdout = script.mourns /\ child.returncode # 0
      BY <1>1 DEF BuildFailed
    <2>2. script.mourns \subseteq {"Compilation failed", "FAIL"}
      <3>1. script.mourns \in SUBSET {"Compilation failed", "FAIL"}
        BY <1>a DEF SourceModes
      <3> QED BY <3>1
    <2>3. "Build successful" \notin child.stdout
      <3> SUFFICES ASSUME "Build successful" \in script.mourns PROVE FALSE
        BY <2>1
      <3>1. "Build successful" \in {"Compilation failed", "FAIL"}
        BY <2>2
      <3> QED BY <3>1
    <2> QED BY <2>1, <2>3, <1>b, Zenon DEF CompileSuccess
  <1>2. ASSUME NEW p, child = GivenUp(script, p) PROVE FALSE
    <2>1. child.stdout = Announcement(script) /\ child.returncode # 0
      <3>1. child.stdout = Announcement(script)
        BY <1>2 DEF GivenUp
      <3>2. child.returncode = 1
        BY <1>2 DEF GivenUp
      <3> QED BY <3>1, <3>2, 1 # 0, Zenon
    <2>2. Announcement(script) \subseteq {"Build successful"}
      BY DEF Announcement
    <2>3. child.stdout \subseteq {"Build successful", "FAIL"}
      BY <2>1, <2>2
    <2> QED BY <2>1, <2>3, <1>b, NoClaim
  <1>3. /\ Builds(script, program) /\ ~Behaviour(script, program).hangs
        /\ child = Ran(script, Behaviour(script, program))
    BY <1>1, <1>2, <1>b DEF CameBack
  <1>4. ASSUME ~program.compiles PROVE FALSE
    <2> DEFINE q == Behaviour(script, program)
    <2>1. q.exit = 1 /\ q.report = "none" /\ q.says = {}
      BY <1>4, <1>a DEF Behaviour, Programs
    <2>2. ~Succeeds(script, q) /\ Prints(q) = {}
      BY <2>1 DEF Succeeds, Prints
    <2>3. /\ child.stdout = Announcement(script) \cup Shown(script, q)
          /\ child.returncode # 0
      BY <1>3, <2>2 DEF Ran
    <2>4. Announcement(script) \subseteq {"Build successful"}
      BY DEF Announcement
    <2>5. Shown(script, q) \subseteq {"FAIL"}
      BY <2>1, <2>2 DEF Shown
    <2> HIDE DEF q
    <2>6. child.stdout \subseteq {"Build successful", "FAIL"}
      BY <2>3, <2>4, <2>5
    <2> QED BY <2>3, <2>6, <1>b, NoClaim
  <1>5. Behaviour(script, program) = program
    BY <1>4 DEF Behaviour
  <1> QED BY <1>3, <1>4, <1>5

\* A pass is never given to a program whose FAIL got through, for every script.
THEOREM FailNeverPasses == Spec => []FailTextNeverPasses
  <1>1. IInv => FailTextNeverPasses
    <2> SUFFICES ASSUME IInv, Passed
                 PROVE  /\ program.compiles /\ ~program.hangs
                        /\ script.shows = "everything" => "FAIL" \notin Prints(program)
                        /\ script.errors = "shown" => "FAIL" \notin program.complains
                        /\ script.shows # "nothing" => program.report # "FAIL"
      BY DEF FailTextNeverPasses
    <2> USE DEF IInv, TypeOK
    <2>1. child = Ran(script, program)
      BY OnlyARunPasses
    <2>2. "FAIL" \notin Shown(script, program) /\ "FAIL" \notin Complaints(script, program)
      BY <2>1, PassedRound DEF Ran
    <2>3. script.shows = "everything" => "FAIL" \notin Prints(program)
      BY <2>2 DEF Shown, ShowsEverything
    <2>4. script.errors = "shown" => "FAIL" \notin program.complains
      BY <2>2 DEF Complaints
    <2>5. script.shows # "nothing" => program.report # "FAIL"
      <3> SUFFICES ASSUME program.report = "FAIL", script.shows # "nothing" PROVE FALSE
        OBVIOUS
      <3>1. ~ShowsEverything(script, program) /\ ~ShowsReport(script, program)
        BY <2>2 DEF Shown, Prints
      <3>2. ~SaysFailItself(script, program)
        BY <2>2 DEF Shown
      <3>3. script.shows \in {"report if exit 0", "report if successful"}
        BY <3>1, <3>2 DEF ShowsEverything, ShowsReport, SaysFailItself, SourceModes
      <3>4. Shown(script, program) = {}
        BY <3>1, <3>2 DEF Shown
      <3>5. Succeeds(script, program)
        <4>1. /\ child.stdout = Announcement(script)
              /\ Succeeds(script, program) \/ child.returncode # 0
          BY <2>1, <3>4 DEF Ran
        <4>2. Announcement(script) \subseteq {"Build successful"}
          BY DEF Announcement
        <4>3. child.stdout \subseteq {"Build successful", "FAIL"}
          BY <4>1, <4>2
        <4>4. RunSuccess(child)
          BY PassedRound
        <4> QED BY <4>1, <4>3, <4>4, NoClaim
      <3> QED BY <3>1, <3>3, <3>5 DEF ShowsReport, Succeeds, SourceModes
    <2> QED BY <2>3, <2>4, <2>5, OnlyARunPasses
  <1> QED BY <1>1, InitIInv, NextIInv, PTL DEF Spec

\* A program that exits with an error passes only on a word of its own, with a
\* banner beside it that is the build's or its own, whatever the script.
THEOREM CrashesClaimNothing == Spec => []CrashPassesOnlyOnItsWord
  <1>1. IInv => CrashPassesOnlyOnItsWord
    <2> DEFINE said == Shown(script, program)
               words == {"PASS", "PASSED", "Success"}
    <2> SUFFICES ASSUME IInv, Passed, program.exit # 0
                 PROVE  \/ /\ said \cap words # {}
                           /\ script.announces \/ "Build successful" \in said
                        \/ script.wants = "only the report" /\ program.report = "PASS"
      BY DEF CrashPassesOnlyOnItsWord
    <2>1. child = Ran(script, program)
      BY OnlyARunPasses
    <2>2. CASE Succeeds(script, program)
      BY <2>2 DEF Succeeds
    <2>3. CASE ~Succeeds(script, program)
      <3>1. child.stdout = Announcement(script) \cup said /\ child.returncode # 0
        BY <2>1, <2>3 DEF Ran
      <3>2. CompileSuccess(child) /\ RunSuccess(child)
        BY PassedRound
      <3>3. "Build successful" \in child.stdout
        BY <3>1, <3>2, Zenon DEF CompileSuccess
      <3>4. script.announces \/ "Build successful" \in said
        <4>1. ~script.announces => Announcement(script) = {}
          BY DEF Announcement
        <4> HIDE DEF said
        <4> QED BY <3>1, <3>3, <4>1
      <3>5. child.stdout \cap words # {}
        BY <3>1, <3>2, Zenon DEF RunSuccess
      <3>6. PICK x : x \in child.stdout \cap words
        BY <3>5
      <3>7. x \notin Announcement(script)
        <4>1. x = "PASS" \/ x = "PASSED" \/ x = "Success"
          BY <3>6
        <4> QED BY <4>1 DEF Announcement
      <3>8. x \in said \cap words
        <4> HIDE DEF said, words
        <4> QED BY <3>1, <3>6, <3>7
      <3> QED BY <3>4, <3>8
    <2> QED BY <2>2, <2>3
  <1> QED BY <1>1, InitIInv, NextIInv, PTL DEF Spec

\* A run that was announced is never blamed on the build, whatever the script.
THEOREM RunsAreNotBlamedOnBuilds == Spec => []NotBlamedOnBuild
  <1>1. IInv => NotBlamedOnBuild
    <2> SUFFICES ASSUME IInv, phase = "done", script.announces, child.returncode # -1,
                        verdict.heading = "COMPILATION ERROR", program.compiles
                 PROVE  FALSE
      BY DEF NotBlamedOnBuild
    <2>1. CameBack /\ result = ClassifyOutput(child)
      BY DEF IInv, Classified
    <2>2. ~result.compile_success
      <3>1. verdict.heading = IF AnalyzeResult(result).passed THEN "none"
                              ELSE GetErrorDetails(result)
        <4>1. Judged
          BY DEF IInv
        <4> QED BY <4>1, Zenon DEF Judged
      <3>2. ~AnalyzeResult(result).passed
        BY <3>1
      <3>3. GetErrorDetails(result) = "COMPILATION ERROR"
        BY <3>1, <3>2
      <3> QED BY <3>3 DEF GetErrorDetails
    <2>3. "Build successful" \notin child.stdout
      BY <2>1, <2>2 DEF ClassifyOutput, CompileSuccess
    <2>4. Builds(script, program)
      BY DEF Builds
    <2>5. "Build successful" \in Announcement(script)
      BY DEF Announcement
    <2>6. ASSUME NEW p, child = Ran(script, p) PROVE "Build successful" \in child.stdout
      BY <2>5, <2>6 DEF Ran
    <2>7. ASSUME NEW p, child = GivenUp(script, p) PROVE "Build successful" \in child.stdout
      BY <2>5, <2>7 DEF GivenUp
    <2> QED BY <2>1, <2>3, <2>4, <2>6, <2>7 DEF CameBack
  <1> QED BY <1>1, InitIInv, NextIInv, PTL DEF Spec

\* The console and the next prompt tell the same failure, whatever the script.
THEOREM FeedbackIsTrue == Spec => []FeedbackMatchesReason
  <1>1. IInv => FeedbackMatchesReason
    <2> SUFFICES ASSUME IInv, phase = "done", ~verdict.passed
                 PROVE  <<verdict.reason, verdict.heading>> \in
                          {<<"compilation failed", "COMPILATION ERROR">>,
                           <<"execution failed", "EXECUTION ERROR">>,
                           <<"marked as FAIL", "TEST FAILURE">>}
      BY DEF FeedbackMatchesReason
    <2>1. /\ ~AnalyzeResult(result).passed
          /\ verdict.reason = AnalyzeResult(result).reason
          /\ verdict.heading = GetErrorDetails(result)
      BY DEF IInv, Judged
    <2>2. CASE ~result.compile_success
      BY <2>1, <2>2 DEF AnalyzeResult, GetErrorDetails
    <2>3. CASE result.compile_success /\ ~result.run_success
      BY <2>1, <2>3 DEF AnalyzeResult, GetErrorDetails
    <2>4. CASE result.compile_success /\ result.run_success
      <3>1. result # NotRun
        BY <2>4 DEF NotRun
      <3>2. result = ClassifyOutput(child)
        BY <3>1 DEF IInv, Classified
      <3>3. /\ result.run_stdout = child.stdout /\ result.returncode = child.returncode
            /\ RunSuccess(child)
        BY <2>4, <3>2 DEF ClassifyOutput
      <3>4. \/ result.returncode = 0
            \/ result.run_stdout \cap {"PASS", "PASSED", "Success"} # {}
        BY <3>3 DEF RunSuccess
      <3>5. AnalyzeResult(result).reason = "marked as FAIL"
        <4>1. CASE result.run_stdout \cap {"PASS", "PASSED"} # {} \/ SaysSuccess(result.run_stdout)
          BY <2>1, <2>4, <4>1 DEF AnalyzeResult
        <4>2. CASE /\ result.run_stdout \cap {"PASS", "PASSED"} = {}
                   /\ ~SaysSuccess(result.run_stdout)
          <5>1. "Success" \notin result.run_stdout
            BY <4>2 DEF SaysSuccess
          <5>2. result.run_stdout \cap {"PASS", "PASSED", "Success"} = {}
            BY <4>2, <5>1
          <5> QED BY <2>1, <2>4, <3>4, <4>2, <5>2 DEF AnalyzeResult
        <4> QED BY <4>1, <4>2
      <3> QED BY <2>1, <2>4, <3>5 DEF GetErrorDetails
    <2> QED BY <2>2, <2>3, <2>4
  <1> QED BY <1>1, InitIInv, NextIInv, PTL DEF Spec

-----------------------------------------------------------------------------
(* The steps of a run are one step of the loop. *)

\* Whatever the child came back with is among the outputs CompileAndRun lists.
LEMMA ClassifiedIsListed ==
  ASSUME Classified
  PROVE  result \in CompileAndRun(script, TRUE, program)
  <1> DEFINE q == Behaviour(script, program)
             children == IF ~Builds(script, program) THEN {BuildFailed(script, program)}
                         ELSE (IF q.hangs THEN {} ELSE {Ran(script, q)})
                              \cup (IF OwnLimit(script) THEN {GivenUp(script, q)} ELSE {})
  <1>1. CompileAndRun(script, TRUE, program) = {NotRun} \cup {ClassifyOutput(c) : c \in children}
    BY DEF CompileAndRun
  <1>2. CASE result = NotRun
    BY <1>1, <1>2
  <1>3. CASE CameBack /\ result = ClassifyOutput(child)
    <2>1. child \in children
      BY <1>3 DEF CameBack
    <2> HIDE DEF children
    <2> QED BY <1>1, <1>3, <2>1
  <1> QED BY <1>2, <1>3 DEF Classified

\* What the loop sees: the script, the program and the answer.
contractView ==
    <<script, program,
      [result |-> IF phase = "done" THEN result ELSE NotRun,
       passed |-> verdict.passed,
       given  |-> phase = "done"]>>

\* Until the answer nothing has been said.
RInv == IInv /\ (phase # "done" => verdict = NoVerdict)

LEMMA InitRInv == Init => RInv
  BY InitIInv DEF Init, RInv

LEMMA NextRInv == RInv /\ [Next]_vars => RInv'
  <1> SUFFICES ASSUME RInv, [Next]_vars PROVE (phase # "done" => verdict = NoVerdict)'
    BY NextIInv DEF RInv
  <1> QED BY DEF RInv, Next, Validate, Invalid, Build, RunEnds, GivesUp, TimesOut, Classify,
             Analyze, Done, vars

\* The contract speaks of the operators of CompileRun under names of its own.
LEMMA SameWords ==
  /\ Contract!Programs = Programs /\ Contract!NotRun = NotRun
  /\ \A c : Contract!ClassifyOutput(c) = ClassifyOutput(c)
  /\ \A r : Contract!AnalyzeResult(r) = AnalyzeResult(r)
  /\ \A s, p : /\ Contract!Builds(s, p) = Builds(s, p)
               /\ Contract!BuildFailed(s, p) = BuildFailed(s, p)
               /\ Contract!Behaviour(s, p) = Behaviour(s, p)
               /\ Contract!Ran(s, p) = Ran(s, p)
               /\ Contract!GivenUp(s, p) = GivenUp(s, p)
  /\ \A s : Contract!OwnLimit(s) = OwnLimit(s)
  <1>1. Contract!Programs = Programs /\ Contract!NotRun = NotRun
    BY DEF Programs, Contract!Programs, NotRun, Contract!NotRun, Sayings, Contract!Sayings,
           Reports, Contract!Reports, StderrMarkers, Contract!StderrMarkers
  <1>2. \A c : Contract!ClassifyOutput(c) = ClassifyOutput(c)
    BY DEF ClassifyOutput, Contract!ClassifyOutput, CompileSuccess, Contract!CompileSuccess,
           RunSuccess, Contract!RunSuccess
  <1>3. \A r : Contract!AnalyzeResult(r) = AnalyzeResult(r)
    BY DEF AnalyzeResult, Contract!AnalyzeResult, SaysSuccess, Contract!SaysSuccess
  <1>4. \A s, p : Contract!Succeeds(s, p) = Succeeds(s, p) /\ Contract!Prints(p) = Prints(p)
    BY DEF Succeeds, Contract!Succeeds, Prints, Contract!Prints
  <1>5. \A s : Contract!Announcement(s) = Announcement(s) /\ Contract!OwnLimit(s) = OwnLimit(s)
    BY DEF Announcement, Contract!Announcement, OwnLimit, Contract!OwnLimit, NoLimit,
           Contract!NoLimit, PARENT_TIMEOUT, Contract!PARENT_TIMEOUT
  <1>6. \A s, p : Contract!Shown(s, p) = Shown(s, p)
    BY <1>4 DEF Shown, Contract!Shown, ShowsEverything, Contract!ShowsEverything, ShowsReport,
           Contract!ShowsReport, SaysFailItself, Contract!SaysFailItself
  <1>7. \A s, p : Contract!Complaints(s, p) = Complaints(s, p)
    <2> SUFFICES ASSUME NEW s, NEW p PROVE Contract!Complaints(s, p) = Complaints(s, p)
      OBVIOUS
    <2>1. Contract!Succeeds(s, p) = Succeeds(s, p) /\ Contract!Prints(p) = Prints(p)
      BY <1>4
    <2> QED BY <2>1, Zenon DEF Complaints, Contract!Complaints
  <1>8. \A s, p : /\ Contract!Builds(s, p) = Builds(s, p)
                  /\ Contract!BuildFailed(s, p) = BuildFailed(s, p)
                  /\ Contract!Behaviour(s, p) = Behaviour(s, p)
                  /\ Contract!GivenUp(s, p) = GivenUp(s, p)
    BY <1>5 DEF Builds, Contract!Builds, BuildFailed, Contract!BuildFailed, Behaviour,
           Contract!Behaviour, GivenUp, Contract!GivenUp
  <1>9. \A s, p : Contract!Ran(s, p) = Ran(s, p)
    BY <1>4, <1>5, <1>6, <1>7 DEF Ran, Contract!Ran
  <1> QED BY <1>1, <1>2, <1>3, <1>5, <1>8, <1>9

LEMMA SameAnswers ==
  \A s, e, p : Contract!CompileAndRun(s, e, p) = CompileAndRun(s, e, p)
  BY SameWords DEF CompileAndRun, Contract!CompileAndRun

LEMMA InitAnswers == Init => Contract!Init
  <1> SUFFICES ASSUME Init PROVE Contract!Init
    OBVIOUS
  <1>1. phase # "done" /\ verdict.passed = FALSE
    BY DEF Init, NoVerdict
  <1> QED BY <1>1, SameWords DEF Init, Contract!Init, Contract!NoAnswer

\* The analysis is the answer.
LEMMA AnalyzeAnswers == ASSUME RInv, Analyze PROVE Contract!Answer
  <1>1. /\ phase = "analyze" /\ phase' = "done"
        /\ UNCHANGED <<script, program, result>>
        /\ verdict'.passed = AnalyzeResult(result).passed
    BY DEF Analyze
  <1>2. result \in CompileAndRun(script, TRUE, program)
    BY <1>1, ClassifiedIsListed DEF RInv, IInv
  <1>3. result \in Contract!CompileAndRun(script, TRUE, program)
    BY <1>2, SameAnswers
  <1>4. verdict'.passed = Contract!AnalyzeResult(result).passed
    BY <1>1, SameWords
  <1> QED BY <1>1, <1>3, <1>4 DEF Contract!Answer

\* Before it, and after it, nothing the loop could notice happens.
LEMMA OthersStutter ==
  ASSUME RInv, [Next]_vars, ~Analyze
  PROVE  UNCHANGED contractView
  <1>1. UNCHANGED <<script, program, verdict>>
    BY DEF Next, Validate, Invalid, Build, RunEnds, GivesUp, TimesOut, Classify, Done, vars
  <1>2. \/ phase # "done" /\ phase' # "done"
        \/ UNCHANGED <<phase, result>>
    BY DEF Next, Validate, Invalid, Build, RunEnds, GivesUp, TimesOut, Classify, Done, vars
  <1> QED BY <1>1, <1>2 DEF contractView

\* compile_and_run and analyze_result, step by step and cut short wherever a
\* timeout may do so, answer what the loop's one step Run takes them to answer.
THEOREM RunsKeepTheirContract == Spec => ImplementsRunContract
  <1>1. RInv /\ [Next]_vars => [Contract!Answer]_contractView
    BY AnalyzeAnswers, OthersStutter
  <1> QED BY <1>1, InitRInv, NextRInv, InitAnswers, PTL
          DEF Spec, ImplementsRunContract, Contract!Spec, contractView
=============================================================================
