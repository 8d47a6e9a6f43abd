----------------------------- MODULE MCSession -----------------------------
(***************************************************************************)
(* Session with a launcher and three rank workers, one of which may leave  *)
(* the process group.                                                      *)
(***************************************************************************)
EXTENDS Session

CONSTANTS w1, w2, w3

SomeWorker == {w1}
=============================================================================
