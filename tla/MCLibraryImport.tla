-------------------------- MODULE MCLibraryImport --------------------------
(* A phone that imports, and one other device that saves and removes.      *)
EXTENDS LibraryImport

CONSTANT Operations   \* operations each device issues

MCMaxOperations == [d \in Devices |-> Operations]
MCTouches == [d \in Devices |-> Papers]
=============================================================================
