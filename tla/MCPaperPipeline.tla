--------------------------- MODULE MCPaperPipeline ---------------------------
(* Two workers prepare one paper; a budget of two attempts makes every     *)
(* attempt either the first or the last.                                   *)
EXTENDS PaperPipeline, TLC

CONSTANT Retried   \* the kinds that have a second attempt

MCMaxAttempts == [k \in Kinds |-> IF k \in Retried THEN 2 ELSE 1]
MCKinds == Core

Symmetry == Permutations(Workers)
=============================================================================
