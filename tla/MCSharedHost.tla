---------------------------- MODULE MCSharedHost ----------------------------
(***************************************************************************)
(* Two models on the same example, whose server may stay behind for one.   *)
(***************************************************************************)
EXTENDS SharedHost

CONSTANTS e1, e2

MCFolder == [e \in {e1, e2} |-> "example009/ib"]
MCModel == [e \in {e1, e2} |-> IF e = e1 THEN "gpt" ELSE "gemini"]
=============================================================================
