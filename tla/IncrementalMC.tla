---------------------------- MODULE IncrementalMC ----------------------------
(* Instances of Incremental for TLC.                                       *)
EXTENDS Incremental

(* Contents of two sizes: an empty file and one a patch may be worth.      *)
SomeContents == {"empty", "full"}
Sizes == [empty |-> 0, full |-> 2]
=============================================================================
