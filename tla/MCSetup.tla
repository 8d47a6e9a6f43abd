------------------------------ MODULE MCSetup ------------------------------
(***************************************************************************)
(* Setup on the layouts of the repository's examples, with and without the *)
(* references that are kept beside them, and two that would be legal.      *)
(***************************************************************************)
EXTENDS Setup

MCSuffixes == {"this", "other"}

Absent == [script |-> FALSE, empty |-> {}, ref |-> {}]

\* Folders with a script, a template and some references; all else is absent.
Example(folders, refs) ==
    [f \in Variants \cup {Flat} |->
        IF f \in folders THEN [script |-> TRUE, empty |-> {"this"}, ref |-> refs] ELSE Absent]

\* The folders that the examples come in: 26 flat, 58 nv, 12 ib, 2 amd_nv, 1 each of
\* the others.
Shipped == {{Flat}, {"nv"}, {"ib"}, {"amd_nv"}, {"roce"}, {"amd", "ib"}, {"amd", "nv"}}

MCLayouts ==
    {Example(folders, refs) : folders \in Shipped \cup {{"efa", "ib"}}, refs \in SUBSET MCSuffixes}
    \cup {[Example({"ib", "roce"}, {"this"}) EXCEPT !["ib"].empty = {}],
          [Example({Flat}, {"this"}) EXCEPT ![Flat].script = FALSE, ![Flat].empty = MCSuffixes]}

=============================================================================
