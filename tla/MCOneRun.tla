------------------------------ MODULE MCOneRun ------------------------------
(***************************************************************************)
(* OneRun for every script of the repository and every kind of program.    *)
(***************************************************************************)
EXTENDS Examples, OneRun
=============================================================================
