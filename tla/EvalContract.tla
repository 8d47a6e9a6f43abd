---------------------------- MODULE EvalContract ----------------------------
(***************************************************************************)
(* What an evaluation promises its caller, with every step between two     *)
(* rounds left out: at most MaxRounds attempts, never one after an         *)
(* accepted attempt, and an answer that is the answer of the last attempt, *)
(* unless something other than the generated code went wrong.              *)
(***************************************************************************)
EXTENDS Naturals

CONSTANT MaxRounds

VARIABLES attempts,  \* attempts judged so far
          last,      \* how the last one was judged
          answer     \* what the caller was told

Verdicts == {"failed", "degraded", "accepted"}

Init == attempts = 0 /\ last = "none" /\ answer = "none"

Attempt ==
    /\ answer = "none" /\ last # "accepted" /\ attempts < MaxRounds
    /\ attempts' = attempts + 1
    /\ last' \in Verdicts
    /\ UNCHANGED answer

\* A missing file, an error of the model, the disk: no answer about the code.
Abort ==
    /\ answer = "none" /\ last # "accepted" /\ attempts < MaxRounds
    /\ answer' = "error"
    /\ UNCHANGED <<attempts, last>>

Answer ==
    /\ answer = "none"
    /\ last = "accepted" \/ attempts = MaxRounds
    /\ answer' = IF last = "failed" THEN "fail" ELSE "pass"
    /\ UNCHANGED <<attempts, last>>

Next == Attempt \/ Abort \/ Answer

Spec == Init /\ [][Next]_<<attempts, last, answer>>
             /\ WF_<<attempts, last, answer>>(Next)
=============================================================================
