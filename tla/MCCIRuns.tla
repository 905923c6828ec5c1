------------------------------- MODULE MCCIRuns -------------------------------
(* A small instance of CIRuns. *)
EXTENDS CIRuns

(* A workflow with three jobs in a row. *)
Chain      == <<"a", "b", "c">>
ChainDeps  == [n \in {"a", "b", "c"} |->
                 CASE n = "a" -> {} [] n = "b" -> {"a"} [] n = "c" -> {"b"}]
=============================================================================
