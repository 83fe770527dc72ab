----------------------------- MODULE LibraryLog -----------------------------
(***************************************************************************)
(* What the library of one account promises, free of revisions, tombstones *)
(* and pages: it is a set of saved papers, and every operation a device    *)
(* issues takes effect on it at most once, however often it is delivered.  *)
(* Module LibraryServer implements this specification.                     *)
(***************************************************************************)
EXTENDS Naturals

CONSTANT Operation   \* each is a record with the fields paper and save

VARIABLES
    library,    \* the papers that are saved
    applied     \* the operations that have taken effect

lvars == <<library, applied>>

LInit == library = {} /\ applied = {}

Apply(op) ==
    /\ op \notin applied
    /\ applied' = applied \cup {op}
    /\ library' = IF op.save THEN library \cup {op.paper} ELSE library \ {op.paper}

LNext == \E op \in Operation : Apply(op)

LSpec == LInit /\ [][LNext]_lvars
=============================================================================
