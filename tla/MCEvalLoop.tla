----------------------------- MODULE MCEvalLoop -----------------------------
(***************************************************************************)
(* EvalLoopProps with a small environment: one program per way a round can *)
(* be judged, one verdict per way the loop can react to it.                *)
(***************************************************************************)
EXTENDS EvalLoopProps

\* As example001's script does it.
MCScript == [compiled |-> TRUE, compiler |-> "shown", announces |-> TRUE, mourns |-> {},
             limit |-> 600, wants |-> "exit 0", shows |-> "everything", errors |-> "shown"]

Good == [compiles |-> TRUE, warns |-> FALSE, hangs |-> FALSE, exit |-> 0, report |-> "PASS",
         says |-> {}, complains |-> {}]

MCPrograms == {Good,
               [Good EXCEPT !.compiles = FALSE, !.warns = TRUE],
               [Good EXCEPT !.hangs = TRUE],
               [Good EXCEPT !.exit = 1, !.report = "none"],
               [Good EXCEPT !.report = "FAIL"]}

MCLabels == {"better", "on_par", "degraded", "worse", "no_common_metrics", "no_gen_metrics",
             "none"}
=============================================================================
