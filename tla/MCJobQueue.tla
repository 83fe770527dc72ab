----------------------------- MODULE MCJobQueue -----------------------------
(* Two workers, two versions of the paper, and job kinds whose budgets are *)
(* one attempt (the last attempt is the first) or two (there is a retry).  *)
EXTENDS JobQueue

CONSTANT Retried   \* the kinds that have a second attempt

MCMaxAttempts == [k \in Kinds |-> IF k \in Retried THEN 2 ELSE 1]
=============================================================================
