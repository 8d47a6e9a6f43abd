---------------------------- MODULE OwnMachines ----------------------------
(***************************************************************************)
(* What the execution lock promises: evaluations that share one host are   *)
(* like evaluations that have a machine each.  Nothing is shared here, no  *)
(* lock, no folder, no executable: what is judged and measured in a round  *)
(* can only be the code of that round.                                     *)
(***************************************************************************)
EXTENDS Naturals

CONSTANTS Evals, MaxRounds, NoCode

VARIABLES at,       \* the step each evaluation is at
          round,
          judged,   \* the code its verdict of this round is about
          measured  \* the code its measurements of this round are of

Own(e) == <<e, round[e]>>

Init ==
    /\ at = [e \in Evals |-> "generate"]
    /\ round = [e \in Evals |-> 1]
    /\ judged = [e \in Evals |-> NoCode]
    /\ measured = [e \in Evals |-> NoCode]

\* Generate, build and run.
Judge(e) ==
    /\ at[e] = "generate"
    /\ at' = [at EXCEPT ![e] = "judged"]
    /\ judged' = [judged EXCEPT ![e] = Own(e)]
    /\ UNCHANGED <<round, measured>>

\* An error ends the evaluation.
Fail(e) ==
    /\ at[e] = "generate"
    /\ at' = [at EXCEPT ![e] = "returned"]
    /\ UNCHANGED <<round, judged, measured>>

\* Compare, or find that there is nothing to compare or no summary to read.
Measure(e) ==
    /\ at[e] = "judged"
    /\ at' = [at EXCEPT ![e] = "measured"]
    /\ \E code \in {Own(e), NoCode} : measured' = [measured EXCEPT ![e] = code]
    /\ UNCHANGED <<round, judged>>

\* The round is over: another one, or the answer.
EndRound(e) ==
    /\ at[e] = "measured"
    /\ \/ /\ round[e] < MaxRounds
          /\ round' = [round EXCEPT ![e] = @ + 1]
          /\ at' = [at EXCEPT ![e] = "generate"]
       \/ at' = [at EXCEPT ![e] = "returned"] /\ UNCHANGED round
    /\ judged' = [judged EXCEPT ![e] = NoCode]
    /\ measured' = [measured EXCEPT ![e] = NoCode]

Next == \E e \in Evals : Judge(e) \/ Fail(e) \/ Measure(e) \/ EndRound(e)

Spec == Init /\ [][Next]_<<at, round, judged, measured>>
=============================================================================
