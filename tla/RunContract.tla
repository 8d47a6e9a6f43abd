---------------------------- MODULE RunContract ----------------------------
(***************************************************************************)
(* What compile_and_run and analyze_result promise the loop, with every    *)
(* step of the child left out: one answer, one of those the program can    *)
(* earn in this script, judged.  It is the step EvalLoop takes in Run.     *)
(***************************************************************************)
EXTENDS CompileRun

CONSTANT Scripts

VARIABLES script,   \* the example's build_and_run.py
          program,  \* what the source in the working directory is
          answer    \* a CompileRunResult and what analyze_result says of it

NoAnswer == [result |-> NotRun, passed |-> FALSE, given |-> FALSE]

Init ==
    /\ script \in Scripts
    /\ program \in Programs
    /\ answer = NoAnswer

Answer ==
    /\ ~answer.given
    /\ \E source_exists \in BOOLEAN : \E r \in CompileAndRun(script, source_exists, program) :
          answer' = [result |-> r, passed |-> AnalyzeResult(r).passed, given |-> TRUE]
    /\ UNCHANGED <<script, program>>

Spec == Init /\ [][Answer]_<<script, program, answer>>
=============================================================================
