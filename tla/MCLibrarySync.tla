--------------------------- MODULE MCLibrarySync ---------------------------
(* Two papers listed one to a page, so that a listing and a change feed    *)
(* take two pages and every page boundary is crossed.                      *)
EXTENDS LibrarySync

CONSTANTS
    PhonePapers,       \* papers a phone acts on
    PhoneOperations,   \* operations a phone issues
    PeerOperations     \* operations another device sends

MCMaxOperations ==
    [d \in Devices |-> IF d \in Peers THEN PeerOperations ELSE PhoneOperations]

MCTouches ==
    [d \in Devices |-> IF d \in Peers THEN Papers ELSE PhonePapers]
=============================================================================
