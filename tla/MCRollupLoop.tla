---------------------------- MODULE MCRollupLoop ----------------------------
(***************************************************************************)
(* RollupLoop for model checking: an epoch of two inputs, and one of a     *)
(* single input with a query after it, with one output for each.          *)
(* Four server processes are enough for every fork of such a run (the      *)
(* spawned child and grand-child, and two backups); one fault at any       *)
(* point.                                                                  *)
(***************************************************************************)
EXTENDS RollupLoop

MCEpochs == {<<2, "no">>, <<1, "query">>}
=============================================================================
