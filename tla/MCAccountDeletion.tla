------------------------- MODULE MCAccountDeletion -------------------------
(* Two workers, so that one may outlive its lease while the other goes on. *)
EXTENDS AccountDeletion
=============================================================================
